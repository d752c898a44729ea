------------------------------- MODULE Groups -------------------------------
(***************************************************************************)
(* The client's copy of one v2 group and how it follows the server         *)
(* (handle_message in worker/client.rs, worker/client/groupv2.rs and the   *)
(* group functions of store.rs).                                           *)
(*                                                                         *)
(* The server numbers the versions of the group.  The member who makes a   *)
(* change sends it to the others in a message: GroupV2Update applies such  *)
(* a message to the local copy.  RequestGroupV2Info fetches the whole      *)
(* group.  Both are asynchronous, and both hold the write lock on the      *)
(* credential cache while they work.  An ordinary message names the        *)
(* version its sender knows: one that is ahead of the local revision, or   *)
(* comes from someone who is not a member locally, makes the client fetch  *)
(* the group, unless the set group_refresh_in_flight holds it.             *)
(*                                                                         *)
(* Members are the only contents kept: titles and other attributes are     *)
(* "title" changes, which the client always applies.  Left out: pending,   *)
(* requesting and banned members, roles and labels, profile keys, the      *)
(* avatar itself, the lines written in the conversation, and terminated    *)
(* groups.  The group has an avatar, so that a refresh waits in its middle.*)
(***************************************************************************)
EXTENDS Naturals, Sequences, FiniteSets

CONSTANTS Members,      \* people other than the user
          NoMember,     \* whom a change names that is not about a member, and
                        \* the sender of a sync transcript
          MaxVersion,   \* bound: versions of the group on the server
          MaxWaiting,   \* bound: refreshes waiting to start
          MaxCrashes    \* bound: ends of the process

ASSUME GroupAssumption ==
  /\ NoMember \notin Members
  /\ MaxVersion \in Nat /\ MaxWaiting \in Nat /\ MaxCrashes \in Nat

VARIABLES
  history,      \* server: version -> the change that made it, and its members
  undelivered,  \* versions whose change message has not arrived
  known,        \* the group has a row in the database
  revision,     \* group_v2s.revision
  members,      \* group_v2_members
  updates,      \* GroupV2Update tasks: the version, and the revision of the
                \* session that the message carries
  waiting,      \* RequestGroupV2Info tasks that do not hold the lock
  refresh,      \* the one that does: what it does, and the version fetched
  inFlight,     \* group_refresh_in_flight holds the group
  crashes

vars == <<history, undelivered, known, revision, members, updates, waiting,
          refresh, inFlight, crashes>>
serverVars == <<history, undelivered>>
rowVars == <<known, revision, members>>

Kinds == {"add", "remove", "title", "avatar", "other"}
Version == Len(history)
Roster(v) == history[v].roster
Idle == [phase |-> "idle", version |-> 0]

-----------------------------------------------------------------------------
Init ==
  /\ history = <<[kind |-> "title", who |-> NoMember, roster |-> Members]>>
  /\ undelivered = {}
  /\ known = FALSE
  /\ revision = 0
  /\ members = {}
  /\ updates = {}
  /\ waiting = 0
  /\ refresh = Idle
  /\ inFlight = FALSE
  /\ crashes = 0

(* The server, and the members.                                            *)

After(kind, m) ==
  CASE kind = "add" -> Roster(Version) \cup {m}
    [] kind = "remove" -> Roster(Version) \ {m}
    [] OTHER -> Roster(Version)

\* A member makes a change.  Somebody stays to write.
Change(kind, m) ==
  /\ Version < MaxVersion
  /\ kind = "add" => m \notin Roster(Version)
  /\ kind = "remove" => m \in Roster(Version)
  /\ After(kind, m) # {}
  /\ history' = Append(history, [kind |-> kind, who |-> m, roster |-> After(kind, m)])
  /\ undelivered' = undelivered \cup {Version + 1}
  /\ UNCHANGED <<rowVars, updates, waiting, refresh, inFlight, crashes>>

-----------------------------------------------------------------------------
(* handle_message.                                                         *)

RequestInfo == waiting < MaxWaiting /\ waiting' = waiting + 1

\* The first message of a group creates its row, with revision 0.
InsertGroup ==
  /\ ~known
  /\ known' = TRUE
  /\ RequestInfo
  /\ UNCHANGED <<revision, members, updates, refresh, inFlight, crashes>>

ReceiveChange(v) ==
  /\ v \in undelivered
  /\ undelivered' = undelivered \ {v}
  /\ UNCHANGED history
  /\ \/ InsertGroup
     \/ /\ known
        /\ updates' = updates \cup {[version |-> v, snapshot |-> revision]}
        /\ UNCHANGED <<rowVars, waiting, refresh, inFlight, crashes>>

RevisionStale(v) == v > revision

\* Only the revision counts.
MemberMissingNever(s, v) == FALSE

MemberMissing(s, v) == ~RevisionStale(v) /\ s # NoMember /\ s \notin members

\* A message that s sent when the group had version v.
ReceiveChat(s, v) ==
  /\ s \in Roster(v) \cup {NoMember}
  /\ UNCHANGED serverVars
  /\ \/ InsertGroup
     \/ /\ known
        /\ RevisionStale(v) \/ MemberMissing(s, v)
        /\ ~inFlight
        /\ inFlight' = TRUE
        /\ RequestInfo
        /\ UNCHANGED <<rowVars, updates, refresh, crashes>>

\* The user asks for the group's page to be refreshed.
AskRefresh ==
  /\ known
  /\ RequestInfo
  /\ UNCHANGED <<serverVars, rowVars, updates, refresh, inFlight, crashes>>

-----------------------------------------------------------------------------
(* GroupV2Update: once it has the lock it does not wait again.             *)

Free == refresh = Idle

\* Whether a change is found to apply to the rows of the client.
Applies(c) ==
  CASE c.kind = "remove" -> c.who \in members
    [] c.kind \in {"add", "title"} -> TRUE
    [] OTHER -> FALSE

MembersWith(c) ==
  CASE c.kind = "add" -> members \cup {c.who}
    [] c.kind = "remove" -> members \ {c.who}
    [] OTHER -> members

\* The session that the message carries is believed.
RevisionOfSnapshot(u) ==
  IF Applies(history[u.version]) /\ u.snapshot < u.version THEN u.version ELSE revision

\* The session is looked at first, the row by the statement that updates it.
RevisionAfter(u) ==
  IF Applies(history[u.version]) /\ u.snapshot < u.version /\ revision < u.version
  THEN u.version ELSE revision

ApplyUpdate(u) ==
  LET c == history[u.version]
  IN  /\ u \in updates
      /\ Free
      /\ updates' = updates \ {u}
      /\ members' = MembersWith(c)
      /\ revision' = RevisionAfter(u)
      /\ IF Applies(c) \/ c.kind = "avatar" THEN UNCHANGED waiting ELSE RequestInfo
      /\ UNCHANGED <<serverVars, known, refresh, inFlight, crashes>>

\* No unidentified websocket, or the change cannot be decrypted.
FailUpdate(u) ==
  /\ u \in updates
  /\ updates' = updates \ {u}
  /\ UNCHANGED <<serverVars, rowVars, waiting, refresh, inFlight, crashes>>

-----------------------------------------------------------------------------
(* RequestGroupV2Info.  Its end, of whatever kind, takes the group out of  *)
(* group_refresh_in_flight.                                                *)

StartRefresh ==
  /\ waiting > 0
  /\ Free
  /\ waiting' = waiting - 1
  /\ refresh' = [phase |-> "fetch", version |-> 0]
  /\ UNCHANGED <<serverVars, rowVars, updates, inFlight, crashes>>

\* No unidentified websocket.
FailToStart ==
  /\ waiting > 0
  /\ waiting' = waiting - 1
  /\ inFlight' = FALSE
  /\ UNCHANGED <<serverVars, rowVars, updates, refresh, crashes>>

\* The version that the next change will have.
AnswerAhead ==
  /\ refresh.phase = "fetch"
  /\ refresh' = [phase |-> "answered", version |-> Version + 1]
  /\ UNCHANGED <<serverVars, rowVars, updates, waiting, inFlight, crashes>>

\* The server answers with the version it has.
Answer ==
  /\ refresh.phase = "fetch"
  /\ refresh' = [phase |-> "answered", version |-> Version]
  /\ UNCHANGED <<serverVars, rowVars, updates, waiting, inFlight, crashes>>

\* An early return that leaves the group in the set.
FailFetchMarked ==
  /\ refresh.phase = "fetch"
  /\ refresh' = Idle
  /\ UNCHANGED <<serverVars, rowVars, updates, waiting, inFlight, crashes>>

FailFetch ==
  /\ refresh.phase = "fetch"
  /\ refresh' = Idle
  /\ inFlight' = FALSE
  /\ UNCHANGED <<serverVars, rowVars, updates, waiting, crashes>>

\* The group's row is written, and the avatar asked for.
WriteGroup ==
  /\ refresh.phase = "answered"
  /\ revision' = refresh.version
  /\ refresh' = [refresh EXCEPT !.phase = "members"]
  /\ UNCHANGED <<serverVars, known, members, updates, waiting, inFlight, crashes>>

WriteMembers ==
  /\ refresh.phase = "members"
  /\ members' = Roster(refresh.version)
  /\ refresh' = Idle
  /\ inFlight' = FALSE
  /\ UNCHANGED <<serverVars, known, revision, updates, waiting, crashes>>

\* The process ends: what is in memory is gone.
Crash ==
  /\ crashes < MaxCrashes
  /\ crashes' = crashes + 1
  /\ updates' = {}
  /\ waiting' = 0
  /\ refresh' = Idle
  /\ inFlight' = FALSE
  /\ UNCHANGED <<serverVars, rowVars>>

-----------------------------------------------------------------------------
Next ==
  \/ \E m \in Members : Change("add", m) \/ Change("remove", m)
  \/ \E k \in Kinds \ {"add", "remove"} : Change(k, NoMember)
  \/ \E v \in undelivered : ReceiveChange(v)
  \/ \E v \in 1..Version : \E s \in Members \cup {NoMember} : ReceiveChat(s, v)
  \/ AskRefresh
  \/ \E u \in updates : ApplyUpdate(u) \/ FailUpdate(u)
  \/ StartRefresh \/ FailToStart \/ Answer \/ FailFetch \/ WriteGroup \/ WriteMembers
  \/ Crash

Spec == Init /\ [][Next]_vars

Fairness ==
  /\ SF_vars(StartRefresh) /\ SF_vars(Answer)
  /\ WF_vars(WriteGroup) /\ WF_vars(WriteMembers)
  /\ \A u \in [version : 1..MaxVersion, snapshot : 0..MaxVersion] :
       WF_vars(ApplyUpdate(u) \/ FailUpdate(u))
  /\ \A m \in Members : SF_vars(ReceiveChat(m, Version))

FairSpec == Spec /\ Fairness

-----------------------------------------------------------------------------
\* The client's copy is one of a version the server has had, or its members
\* are at least members the group has had.
TypeOK ==
  /\ history \in Seq([kind : Kinds, who : Members \cup {NoMember}, roster : SUBSET Members])
  /\ undelivered \subseteq 1..Version
  /\ known \in BOOLEAN
  /\ revision \in 0..Version
  /\ members \subseteq Members
  /\ updates \subseteq [version : 1..Version, snapshot : 0..Version]
  /\ waiting \in Nat
  /\ refresh \in [phase : {"idle", "fetch", "answered", "members"}, version : 0..Version]
  /\ inFlight \in BOOLEAN
  /\ crashes \in Nat

\* The revision of the group never falls: neither a change that is handled
\* late, with the session its message carried, nor the answer to a fetch that
\* waited for its turn, writes an older one.
RevisionNeverFalls == [][revision' >= revision]_vars

\* While group_refresh_in_flight holds the group, a refresh of it is waiting or
\* at work, which will take it out: no failure leaves the group in the set,
\* where it would keep the group from ever being refreshed again.
MarkedIsUnderway == inFlight => waiting > 0 \/ refresh # Idle

\* When changes stop and members go on writing, the client comes to the
\* server's revision and knows every member, although changes are lost,
\* overtake one another, and the process ends between the two writes of a
\* refresh.  (It may keep members who have left.)
MembersAreFound ==
  <>[](revision = Version /\ Roster(Version) \subseteq members)
=============================================================================
