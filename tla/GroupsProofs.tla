---------------------------- MODULE GroupsProofs ----------------------------
(***************************************************************************)
(* Proofs about Groups, for any members and any bounds: types, the set of  *)
(* groups that are being refreshed, and the revision, which never falls.   *)
(* The last rests on what a refresh knows while it waits: it holds the     *)
(* lock, so that the revision is still at most the version it fetched.     *)
(***************************************************************************)
EXTENDS Groups, TLAPS

(***************************************************************************)
(* The inductive invariant.                                                *)
(***************************************************************************)
\* A refresh that has its answer has a version of the server, which is not
\* behind the row it is going to write.
Fetched ==
  /\ Version >= 1
  /\ refresh.phase \in {"answered", "members"} => refresh.version >= 1
  /\ refresh.phase = "answered" => revision <= refresh.version

\* Whom an "add" is about is a member.
AddsMembers == \A v \in 1..Version : history[v].kind = "add" => history[v].who \in Members

IInv == TypeOK /\ Fetched /\ AddsMembers /\ MarkedIsUnderway

-----------------------------------------------------------------------------
Entry == [kind : Kinds, who : Members \cup {NoMember}, roster : SUBSET Members]

\* What a version holds is of the right type.
LEMMA VersionTyped ==
  ASSUME TypeOK, NEW v \in 1..Version
  PROVE  history[v] \in Entry /\ Roster(v) \subseteq Members
<1>1. history \in Seq(Entry) /\ v \in 1..Len(history)
  BY DEF TypeOK, Entry, Version
<1>2. history[v] \in Entry
  BY <1>1
<1> QED
  BY <1>2 DEF Entry, Roster

\* The server has one version more, and the client nothing new.
LEMMA ChangePreserves ==
  ASSUME IInv, NEW k \in Kinds, NEW m \in Members \cup {NoMember},
         k = "add" => m \in Members, Change(k, m)
  PROVE  IInv' /\ revision' = revision
<1> DEFINE new == [kind |-> k, who |-> m, roster |-> After(k, m)]
<1>1. Version \in 1..Version
  BY DEF IInv, TypeOK, Fetched, Version
<1>2. Roster(Version) \subseteq Members
  BY <1>1, VersionTyped DEF IInv
<1>3. After(k, m) \in SUBSET Members
  BY <1>2 DEF After, Kinds
<1>4. new \in Entry
  BY <1>3 DEF Entry
<1>5. history \in Seq(Entry) /\ history' = Append(history, new)
  BY DEF Change, IInv, TypeOK, Entry
<1> HIDE DEF new
<1>6. history' \in Seq(Entry) /\ Version' = Version + 1 /\ Version \in Nat
  BY <1>4, <1>5 DEF Version
<1>7. \A v \in 1..Version : history'[v] = history[v]
  BY <1>4, <1>5 DEF Version
<1>8. history'[Version'] = new
  BY <1>4, <1>5, <1>6 DEF Version
<1>9. TypeOK'
  BY <1>6 DEF IInv, TypeOK, Entry, Change, rowVars
<1>10. AddsMembers'
  <2> SUFFICES ASSUME NEW v \in 1..Version', history'[v].kind = "add"
               PROVE  history'[v].who \in Members
    BY DEF AddsMembers
  <2>1. CASE v = Version'
    BY <2>1, <1>8 DEF new
  <2>2. CASE v \in 1..Version
    BY <2>2, <1>7 DEF IInv, AddsMembers
  <2> QED
    BY <2>1, <2>2, <1>6
<1>11. Fetched' /\ MarkedIsUnderway'
  BY <1>6 DEF IInv, Fetched, MarkedIsUnderway, Change, rowVars, TypeOK
<1> QED
  BY <1>9, <1>10, <1>11 DEF IInv, Change, rowVars

\* The members that a change leaves are members.
LEMMA MembersWithTyped ==
  ASSUME IInv, NEW v \in 1..Version
  PROVE  MembersWith(history[v]) \subseteq Members
<1>1. members \subseteq Members
  BY DEF IInv, TypeOK
<1>2. history[v].kind = "add" => history[v].who \in Members
  BY DEF IInv, AddsMembers
<1> QED
  BY <1>1, <1>2 DEF MembersWith

\* A message of the group, or the user's wish to see it, at most asks for a refresh.
LEMMA RequestPreserves ==
  ASSUME IInv, UNCHANGED history, undelivered' \subseteq undelivered, UNCHANGED refresh,
         revision' = revision, members' = members, known' \in BOOLEAN, inFlight' \in BOOLEAN,
         updates' \subseteq updates \cup [version : 1..Version, snapshot : 0..Version],
         waiting' \in Nat, waiting' >= waiting, inFlight' => inFlight \/ waiting' > 0,
         crashes' = crashes
  PROVE  IInv'
<1>1. Version' = Version
  BY DEF Version
<1>2. TypeOK'
  BY <1>1 DEF IInv, TypeOK
<1>3. Fetched' /\ AddsMembers' /\ MarkedIsUnderway'
  BY <1>1 DEF IInv, Fetched, AddsMembers, MarkedIsUnderway, TypeOK
<1> QED
  BY <1>2, <1>3 DEF IInv

\* A change is applied, or fails to be.
LEMMA UpdatePreserves ==
  ASSUME IInv, NEW u \in updates, ApplyUpdate(u) \/ FailUpdate(u)
  PROVE  IInv' /\ revision' >= revision
<1>1. u.version \in 1..Version /\ u.version \in Nat /\ revision \in Nat /\ waiting \in Nat
  BY DEF IInv, TypeOK, Version
<1>2. Version' = Version /\ history' = history /\ refresh' = refresh /\ inFlight' = inFlight
  BY DEF ApplyUpdate, FailUpdate, serverVars, Version
<1>3. CASE ApplyUpdate(u)
  <2>1. members' \subseteq Members
    BY <1>1, <1>3, MembersWithTyped DEF ApplyUpdate
  <2>2. revision' \in {revision, u.version} /\ revision' >= revision
    BY <1>1, <1>3 DEF ApplyUpdate, RevisionAfter
  <2>3. waiting' \in Nat /\ waiting' >= waiting
    BY <1>1, <1>3 DEF ApplyUpdate, RequestInfo
  <2>4. refresh = Idle
    BY <1>3 DEF ApplyUpdate, Free
  <2>5. TypeOK'
    BY <1>1, <1>2, <1>3, <2>1, <2>2, <2>3 DEF IInv, TypeOK, ApplyUpdate, serverVars
  <2>6. Fetched' /\ AddsMembers' /\ MarkedIsUnderway'
    BY <1>1, <1>2, <2>3, <2>4 DEF IInv, Fetched, AddsMembers, MarkedIsUnderway, Idle
  <2> QED
    BY <2>2, <2>5, <2>6 DEF IInv
<1>4. CASE FailUpdate(u)
  BY <1>1, <1>2, <1>4 DEF IInv, TypeOK, Fetched, AddsMembers, MarkedIsUnderway, FailUpdate,
     serverVars, rowVars
<1> QED
  BY <1>3, <1>4

\* The end of a refresh, of whatever kind, and of the process.
LEMMA EndPreserves ==
  ASSUME IInv, UNCHANGED <<history, undelivered, known, revision>>,
         members' \subseteq Members, updates' \subseteq updates,
         waiting' \in Nat, crashes' \in Nat,
         refresh' = Idle \/ refresh' = refresh, inFlight' = FALSE
  PROVE  IInv' /\ revision' >= revision
<1>1. Version' = Version /\ Version \in Nat
  BY DEF IInv, TypeOK, Version
<1>2. refresh' \in [phase : {"idle", "fetch", "answered", "members"}, version : 0..Version]
  <2>1. Idle \in [phase : {"idle", "fetch", "answered", "members"}, version : 0..Version]
    BY <1>1 DEF Idle
  <2> QED
    BY <2>1 DEF IInv, TypeOK
<1>3. TypeOK'
  BY <1>1, <1>2 DEF IInv, TypeOK
<1>4. Fetched'
  <2>1. Idle.phase = "idle"
    BY DEF Idle
  <2> QED
    BY <1>1, <2>1 DEF IInv, Fetched
<1>5. AddsMembers' /\ MarkedIsUnderway'
  BY <1>1 DEF IInv, AddsMembers, MarkedIsUnderway
<1>6. revision' >= revision
  BY <1>1 DEF IInv, TypeOK
<1> QED
  BY <1>3, <1>4, <1>5, <1>6 DEF IInv

\* The steps of a refresh.
LEMMA RefreshPreserves ==
  ASSUME IInv,
         StartRefresh \/ FailToStart \/ Answer \/ FailFetch \/ WriteGroup \/ WriteMembers \/ Crash
  PROVE  IInv' /\ revision' >= revision
<1>1. Version' = Version /\ history' = history /\ Version \in Nat /\ waiting \in Nat
  BY DEF IInv, TypeOK, Version, StartRefresh, FailToStart, Answer, FailFetch, WriteGroup,
     WriteMembers, Crash, serverVars
<1>2. AddsMembers'
  BY <1>1 DEF IInv, AddsMembers
<1>m. members \subseteq Members /\ crashes \in Nat /\ crashes + 1 \in Nat
  BY DEF IInv, TypeOK
<1>3. CASE StartRefresh
  BY <1>1, <1>2, <1>3 DEF IInv, TypeOK, Fetched, MarkedIsUnderway, StartRefresh, Idle,
     serverVars, rowVars
<1>4. CASE FailToStart
  <2>1. waiting' \in Nat
    BY <1>1, <1>4 DEF FailToStart
  <2>2. /\ UNCHANGED <<history, undelivered, known, revision, members, updates, refresh, crashes>>
        /\ inFlight' = FALSE
    BY <1>4 DEF FailToStart, serverVars, rowVars
  <2> QED
    BY <1>m, <2>1, <2>2, EndPreserves
<1>5. CASE Answer
  BY <1>1, <1>2, <1>5 DEF IInv, TypeOK, Fetched, MarkedIsUnderway, Answer, Idle,
     serverVars, rowVars
<1>6. CASE FailFetch
  BY <1>6, <1>1, <1>m, EndPreserves DEF FailFetch, serverVars, rowVars
<1>7. CASE WriteGroup
  <2>1. refresh' = [phase |-> "members", version |-> refresh.version]
    BY <1>7 DEF WriteGroup, IInv, TypeOK
  <2>2. refresh.version \in 1..Version /\ revision <= refresh.version /\ revision \in Nat
    BY <1>1, <1>7 DEF WriteGroup, IInv, TypeOK, Fetched
  <2>3. TypeOK' /\ Fetched'
    BY <1>1, <1>7, <2>1, <2>2 DEF WriteGroup, IInv, TypeOK, Fetched, serverVars
  <2>4. MarkedIsUnderway'
    BY <2>1 DEF MarkedIsUnderway, Idle
  <2> QED
    BY <1>2, <1>7, <2>2, <2>3, <2>4 DEF IInv, WriteGroup
<1>8. CASE WriteMembers
  <2>1. refresh.version \in 1..Version
    BY <1>1, <1>8 DEF WriteMembers, IInv, TypeOK, Fetched
  <2>2. Roster(refresh.version) \subseteq Members
    BY <2>1, VersionTyped DEF IInv
  <2> QED
    BY <1>8, <1>1, <1>m, <2>2, EndPreserves DEF WriteMembers, serverVars
<1>9. CASE Crash
  BY <1>9, <1>m, EndPreserves DEF Crash, serverVars, rowVars
<1> QED
  BY <1>3, <1>4, <1>5, <1>6, <1>7, <1>8, <1>9

-----------------------------------------------------------------------------
LEMMA InitInv == Init => IInv
<1> SUFFICES ASSUME Init
             PROVE  IInv
  OBVIOUS
<1>1. history[1] \in Entry /\ history = <<history[1]>>
  BY DEF Init, Entry, Kinds
<1>2. <<history[1]>> \in Seq(Entry) /\ Len(<<history[1]>>) = 1
  BY <1>1
<1>3. history \in Seq(Entry) /\ Version = 1
  BY <1>1, <1>2 DEF Version
<1>r. refresh \in [phase : {"idle", "fetch", "answered", "members"}, version : 0..Version]
  BY <1>3 DEF Init, Idle
<1>i. /\ undelivered = {} /\ known = FALSE /\ revision = 0 /\ members = {}
      /\ updates = {} /\ waiting = 0 /\ inFlight = FALSE /\ crashes = 0
  BY DEF Init
<1>4. TypeOK
  <2>1. history \in Seq([kind : Kinds, who : Members \cup {NoMember}, roster : SUBSET Members])
    BY <1>3 DEF Entry
  <2>2. revision \in 0..Version /\ undelivered \subseteq 1..Version
    BY <1>3, <1>i
  <2>3. members \subseteq Members /\ updates \subseteq [version : 1..Version, snapshot : 0..Version]
    BY <1>i
  <2>4. known \in BOOLEAN /\ inFlight \in BOOLEAN /\ waiting \in Nat /\ crashes \in Nat
    BY <1>i
  <2> QED
    BY <2>1, <2>2, <2>3, <2>4, <1>r DEF TypeOK
<1>5. Fetched /\ AddsMembers /\ MarkedIsUnderway
  BY <1>3 DEF Init, Fetched, AddsMembers, MarkedIsUnderway, Idle
<1> QED
  BY <1>4, <1>5 DEF IInv

\* Every step keeps the invariant, and does not lower the revision.
LEMMA NextPreserves == IInv /\ [Next]_vars => IInv' /\ revision' >= revision
<1> SUFFICES ASSUME IInv, [Next]_vars
             PROVE  IInv' /\ revision' >= revision
  OBVIOUS
<1>0. revision \in Nat /\ waiting \in Nat /\ Version \in Nat /\ revision \in 0..Version
  BY DEF IInv, TypeOK, Version
<1>1. CASE \E m \in Members : Change("add", m) \/ Change("remove", m)
  BY <1>0, <1>1, ChangePreserves DEF Kinds
<1>2. CASE \E k \in Kinds \ {"add", "remove"} : Change(k, NoMember)
  BY <1>0, <1>2, ChangePreserves
<1>3. CASE \E v \in undelivered : ReceiveChange(v)
  <2> PICK v \in undelivered : ReceiveChange(v)
    BY <1>3
  <2>1. v \in 1..Version
    BY DEF IInv, TypeOK
  <2>2. CASE InsertGroup
    BY <1>0, <2>2, RequestPreserves
       DEF ReceiveChange, InsertGroup, RequestInfo, IInv, TypeOK
  <2>3. CASE ~InsertGroup
    <3>1. /\ updates' = updates \cup {[version |-> v, snapshot |-> revision]}
          /\ UNCHANGED <<rowVars, waiting, refresh, inFlight, crashes>>
      BY <2>3 DEF ReceiveChange
    <3> QED
      BY <1>0, <2>1, <3>1, RequestPreserves DEF ReceiveChange, IInv, TypeOK, rowVars
  <2> QED
    BY <2>2, <2>3
<1>4. CASE \E v \in 1..Version : \E s \in Members \cup {NoMember} : ReceiveChat(s, v)
  <2> PICK v \in 1..Version, s \in Members \cup {NoMember} : ReceiveChat(s, v)
    BY <1>4
  <2>1. UNCHANGED serverVars /\ waiting' = waiting + 1
    BY DEF ReceiveChat, InsertGroup, RequestInfo
  <2>2. CASE InsertGroup
    BY <1>0, <2>1, <2>2, RequestPreserves DEF InsertGroup, IInv, TypeOK, serverVars
  <2>3. CASE ~InsertGroup
    <3>1. UNCHANGED <<rowVars, updates, refresh, crashes>> /\ inFlight' = TRUE
      BY <2>3 DEF ReceiveChat
    <3> QED
      BY <1>0, <2>1, <3>1, RequestPreserves DEF IInv, TypeOK, serverVars, rowVars
  <2> QED
    BY <2>2, <2>3
<1>5. CASE AskRefresh
  BY <1>0, <1>5, RequestPreserves
     DEF AskRefresh, RequestInfo, IInv, TypeOK, serverVars, rowVars
<1>6. CASE \E u \in updates : ApplyUpdate(u) \/ FailUpdate(u)
  BY <1>6, UpdatePreserves
<1>7. CASE StartRefresh \/ FailToStart \/ Answer \/ FailFetch \/ WriteGroup \/ WriteMembers \/ Crash
  BY <1>7, RefreshPreserves
<1>8. CASE UNCHANGED vars
  BY <1>0, <1>8 DEF vars, IInv, TypeOK, Fetched, AddsMembers, MarkedIsUnderway, Version
<1> QED
  BY <1>1, <1>2, <1>3, <1>4, <1>5, <1>6, <1>7, <1>8 DEF Next

LEMMA Invariance == Spec => []IInv
<1>1. IInv /\ [Next]_vars => IInv'
  BY NextPreserves
<1> QED
  BY <1>1, InitInv, PTL DEF Spec

\* The client's copy and the server's versions have their types.
THEOREM TypeCorrect == Spec => []TypeOK
<1>1. IInv => TypeOK
  BY DEF IInv
<1> QED
  BY <1>1, Invariance, PTL

\* A group that is marked as being refreshed is being refreshed.
THEOREM MarkedGroupsAreUnderway == Spec => []MarkedIsUnderway
<1>1. IInv => MarkedIsUnderway
  BY DEF IInv
<1> QED
  BY <1>1, Invariance, PTL

\* No order of changes, fetches, failures and restarts lowers the revision.
THEOREM RevisionsRise == Spec => RevisionNeverFalls
<1>1. IInv /\ [Next]_vars => [revision' >= revision]_vars
  BY NextPreserves
<1> QED
  BY <1>1, Invariance, PTL DEF Spec, RevisionNeverFalls
=============================================================================
