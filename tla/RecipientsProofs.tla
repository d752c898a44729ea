-------------------------- MODULE RecipientsProofs --------------------------
(***************************************************************************)
(* Proofs about Recipients, for any identifiers, rows and messages: a PNI  *)
(* is in one row at most, a row with an ACI stays and keeps it, no lookup  *)
(* fails, no message loses its conversation, and a trusted number ends up  *)
(* in the row of its ACI.                                                  *)
(*                                                                         *)
(* Complete sets the ACI of whatever row the lookup comes to, so that the  *)
(* second depends on the first: after a row was split, the one that is     *)
(* found by the PNI has to be the new one.  A lookup with all three        *)
(* identifiers is the user's own; that it meets no row of anybody else is  *)
(* Pure: no row mixes the user's identifiers with others.                  *)
(*                                                                         *)
(* A lookup's statements run on a table t.  Kept says what they all        *)
(* preserve if they succeed, against the table before the lookup; Holders  *)
(* are the rows with the PNI that is looked up.  Fine says that they       *)
(* succeeded, and Running what they need for it: memberships refer to rows *)
(* with an ACI, messages to rows that are there.  Moved and Ready say in   *)
(* which order the blocks leave the identifiers, so that no UNIQUE column  *)
(* meets a value twice and the last block finds its row.                   *)
(***************************************************************************)
EXTENDS Recipients, FiniteSetTheorems, TLAPS

Self == {SelfAci, SelfPni, SelfE164}
Idents(row) == {row.aci, row.pni, row.e164} \ {None}

\* The row is the user's if the lookup is, and somebody else's if it is not.
OnSide(row, l) == \A x \in Idents(row) : x \in Self <=> Own(l) # {}

Pure(r) == \A i \in DOMAIN r : Idents(r[i]) \subseteq Self \/ Idents(r[i]) \cap Self = {}
AciUnique(r) == \A i, j \in DOMAIN r : r[i].aci = r[j].aci /\ r[i].aci # None => i = j
E164Unique(r) == \A i, j \in DOMAIN r : r[i].e164 = r[j].e164 /\ r[i].e164 # None => i = j
AcisStay(r, s) == \A i \in DOMAIN r : r[i].aci # None => i \in DOMAIN s /\ s[i].aci = r[i].aci

IInv == TypeOK /\ PniUnique /\ AciUnique(rows) /\ E164Unique(rows) /\ Pure(rows)

Table == [rows : UNION {[D -> Row] : D \in SUBSET Ids},
          held : [Messages -> Ids \cup {None}], ok : BOOLEAN]

Kept(l, t) ==
  /\ t \in Table
  /\ AciUnique(t.rows) /\ E164Unique(t.rows)
  /\ \A i \in DOMAIN t.rows : OnSide(t.rows[i], l) \/ (i \in DOMAIN rows /\ t.rows[i] = rows[i])
  /\ \A i \in DOMAIN t.rows :
       \/ t.rows[i].pni \in {None, l.pni}
       \/ i \in DOMAIN rows /\ t.rows[i].pni = rows[i].pni
  /\ AcisStay(rows, t.rows)

Holders(l, t) == {i \in DOMAIN t.rows : t.rows[i].pni = l.pni}

-----------------------------------------------------------------------------
(* Lookups and the rows they find.                                         *)

LEMMA LookupFacts ==
  ASSUME NEW l \in Lookups
  PROVE  /\ OnSide(l, l)
         /\ l.aci \in Acis \cup {None} /\ l.pni \in Pnis \cup {None}
         /\ l.e164 \in E164s \cup {None} /\ l.certain \in BOOLEAN
<1>1. l \in MessageLookups \cup PromotionLookups \cup SelfLookups
  BY DEF Lookups
<1>2. /\ l.aci \in Acis \cup {None} /\ l.pni \in Pnis \cup {None}
      /\ l.e164 \in E164s \cup {None} /\ l.certain \in BOOLEAN
  <2>1. CASE l \in MessageLookups
    BY <2>1 DEF MessageLookups
  <2>2. CASE l \in PromotionLookups
    BY <2>2 DEF PromotionLookups
  <2>3. CASE l \in SelfLookups
    <3>1. l = [aci |-> SelfAci, pni |-> SelfPni, e164 |-> SelfE164, certain |-> TRUE]
      BY <2>3 DEF SelfLookups
    <3>2. l.aci = SelfAci /\ l.pni = SelfPni /\ l.e164 = SelfE164 /\ l.certain
      BY <3>1
    <3>3. l.certain \in BOOLEAN
      BY <3>1
    <3> QED
      BY <3>2, <3>3, IdentifierAssumption
  <2> QED
    BY <1>1, <2>1, <2>2, <2>3
<1>3. Named(l) # {} /\ (Own(l) = {} \/ Own(l) = Named(l))
  BY DEF Lookups
<1>4. OnSide(l, l)
  BY <1>3 DEF OnSide, Idents, Own, Named, Self
<1> QED
  BY <1>2, <1>4

LEMMA TableFacts ==
  ASSUME NEW t \in Table
  PROVE  /\ t.rows \in [DOMAIN t.rows -> Row] /\ DOMAIN t.rows \subseteq Ids
         /\ t.ok \in BOOLEAN /\ t.held \in [Messages -> Ids \cup {None}]
         /\ None \notin DOMAIN t.rows
         /\ \A i \in DOMAIN t.rows : t.rows[i] \in Row
<1>1. PICK D \in SUBSET Ids : t.rows \in [D -> Row]
  BY DEF Table
<1> QED
  BY <1>1, IdentifierAssumption DEF Table

LEMMA Found ==
  ASSUME NEW r, None \notin DOMAIN r, NEW x
  PROVE  /\ LET i == Find(r, "aci", x)
            IN  /\ i # None => x # None /\ i \in DOMAIN r /\ r[i].aci = x
                /\ i = None /\ x # None => \A j \in DOMAIN r : r[j].aci # x
         /\ LET i == Find(r, "pni", x)
            IN  /\ i # None => x # None /\ i \in DOMAIN r /\ r[i].pni = x
                /\ i = None /\ x # None => \A j \in DOMAIN r : r[j].pni # x
         /\ LET i == Find(r, "e164", x)
            IN  /\ i # None => x # None /\ i \in DOMAIN r /\ r[i].e164 = x
                /\ i = None /\ x # None => \A j \in DOMAIN r : r[j].e164 # x
<1>1. ASSUME NEW f, Find(r, f, x) # None
      PROVE  x # None /\ Find(r, f, x) \in DOMAIN r /\ r[Find(r, f, x)][f] = x
  <2>1. x # None /\ With(r, f, x) # {}
    BY <1>1 DEF Find
  <2>2. Find(r, f, x) \in With(r, f, x)
    BY <2>1 DEF Find
  <2> QED
    BY <2>1, <2>2 DEF With
<1>2. ASSUME NEW f, Find(r, f, x) = None, x # None
      PROVE  \A j \in DOMAIN r : r[j][f] # x
  <2>1. With(r, f, x) = {}
    <3> SUFFICES ASSUME With(r, f, x) # {}
                 PROVE  FALSE
      OBVIOUS
    <3>1. Find(r, f, x) \in With(r, f, x)
      BY <1>2 DEF Find
    <3> QED
      BY <1>2, <3>1 DEF With
  <2> QED
    BY <2>1 DEF With
<1>3. /\ Find(r, "aci", x) # None => /\ x # None /\ Find(r, "aci", x) \in DOMAIN r
                                     /\ r[Find(r, "aci", x)].aci = x
      /\ Find(r, "aci", x) = None /\ x # None => \A j \in DOMAIN r : r[j].aci # x
  BY <1>1, <1>2
<1>4. /\ Find(r, "pni", x) # None => /\ x # None /\ Find(r, "pni", x) \in DOMAIN r
                                     /\ r[Find(r, "pni", x)].pni = x
      /\ Find(r, "pni", x) = None /\ x # None => \A j \in DOMAIN r : r[j].pni # x
  BY <1>1, <1>2
<1>5. /\ Find(r, "e164", x) # None => /\ x # None /\ Find(r, "e164", x) \in DOMAIN r
                                      /\ r[Find(r, "e164", x)].e164 = x
      /\ Find(r, "e164", x) = None /\ x # None => \A j \in DOMAIN r : r[j].e164 # x
  BY <1>1, <1>2
<1> QED
  BY <1>3, <1>4, <1>5

\* The rows that match are on the lookup's side.
LEMMA MatchFacts ==
  ASSUME IInv, NEW l \in Lookups
  PROVE  /\ rows \in [DOMAIN rows -> Row] /\ DOMAIN rows \subseteq Ids /\ None \notin DOMAIN rows
         /\ ByAci(l) # None => /\ l.aci # None /\ ByAci(l) \in DOMAIN rows
                               /\ rows[ByAci(l)].aci = l.aci
         /\ ByPni(l) # None => /\ l.pni # None /\ ByPni(l) \in DOMAIN rows
                               /\ rows[ByPni(l)].pni = l.pni
         /\ ByE164(l) # None => /\ l.e164 # None /\ ByE164(l) \in DOMAIN rows
                                /\ rows[ByE164(l)].e164 = l.e164
         /\ ByAci(l) = None /\ l.aci # None => \A i \in DOMAIN rows : rows[i].aci # l.aci
         /\ ByPni(l) = None /\ l.pni # None => \A i \in DOMAIN rows : rows[i].pni # l.pni
         /\ ByE164(l) = None /\ l.e164 # None => \A i \in DOMAIN rows : rows[i].e164 # l.e164
         /\ \A i \in Matches(l) : i \in DOMAIN rows /\ OnSide(rows[i], l)
<1>1. rows \in [DOMAIN rows -> Row] /\ DOMAIN rows \subseteq Ids
  BY DEF IInv, TypeOK
<1>2. None \notin DOMAIN rows
  BY <1>1, IdentifierAssumption
<1>3. /\ ByAci(l) # None => l.aci # None /\ ByAci(l) \in DOMAIN rows /\ rows[ByAci(l)].aci = l.aci
      /\ ByAci(l) = None /\ l.aci # None => \A i \in DOMAIN rows : rows[i].aci # l.aci
  BY <1>2, Found DEF ByAci
<1>4. /\ ByPni(l) # None => l.pni # None /\ ByPni(l) \in DOMAIN rows /\ rows[ByPni(l)].pni = l.pni
      /\ ByPni(l) = None /\ l.pni # None => \A i \in DOMAIN rows : rows[i].pni # l.pni
  BY <1>2, Found DEF ByPni
<1>5. /\ ByE164(l) # None => l.e164 # None /\ ByE164(l) \in DOMAIN rows /\ rows[ByE164(l)].e164 = l.e164
      /\ ByE164(l) = None /\ l.e164 # None => \A i \in DOMAIN rows : rows[i].e164 # l.e164
  BY <1>2, Found DEF ByE164
<1>6. ASSUME NEW i \in Matches(l)
      PROVE  i \in DOMAIN rows /\ OnSide(rows[i], l)
  <2>1. i \in DOMAIN rows
    BY <1>3, <1>4, <1>5 DEF Matches
  <2>2. PICK x \in Idents(rows[i]) : x \in Idents(l)
    BY <1>3, <1>4, <1>5 DEF Matches, Idents
  <2>3. x \in Self <=> Own(l) # {}
    BY <2>2, LookupFacts DEF OnSide
  <2>4. Idents(rows[i]) \subseteq Self \/ Idents(rows[i]) \cap Self = {}
    BY <2>1 DEF IInv, Pure
  <2> QED
    BY <2>1, <2>2, <2>3, <2>4 DEF OnSide
<1> QED
  BY <1>1, <1>2, <1>3, <1>4, <1>5, <1>6
-----------------------------------------------------------------------------
(* The statements.                                                         *)

\* A row that a lookup finds is on its side in every table that it makes.
LEMMA KeptOnSide ==
  ASSUME IInv, NEW l \in Lookups, NEW t, Kept(l, t), NEW x \in Matches(l), x \in DOMAIN t.rows
  PROVE  OnSide(t.rows[x], l)
BY MatchFacts DEF Kept

LEMMA KeptWhenWritten ==
  ASSUME NEW l \in Lookups, NEW t, Kept(l, t), NEW u \in Table, NEW x,
         DOMAIN u.rows = DOMAIN t.rows,
         \A i \in DOMAIN t.rows : i # x => u.rows[i] = t.rows[i],
         x \in DOMAIN t.rows =>
           \/ u.rows[x] = t.rows[x]
           \/ /\ OnSide(u.rows[x], l)
              /\ t.rows[x].aci \in {None, u.rows[x].aci}
              /\ u.rows[x].pni \in {None, l.pni, t.rows[x].pni},
         AciUnique(u.rows), E164Unique(u.rows)
  PROVE  Kept(l, u)
<1>1. \A i \in DOMAIN u.rows : OnSide(u.rows[i], l) \/ (i \in DOMAIN rows /\ u.rows[i] = rows[i])
  BY DEF Kept
<1>2. \A i \in DOMAIN u.rows :
        \/ u.rows[i].pni \in {None, l.pni}
        \/ i \in DOMAIN rows /\ u.rows[i].pni = rows[i].pni
  BY DEF Kept
<1>3. AcisStay(rows, u.rows)
  BY DEF Kept, AcisStay
<1> QED
  BY <1>1, <1>2, <1>3 DEF Kept

\* A statement that writes one column of row x, or fails.
Writes(t, u, x, new) ==
  /\ u \in Table
  /\ DOMAIN u.rows = DOMAIN t.rows
  /\ \A i \in DOMAIN t.rows : i # x => u.rows[i] = t.rows[i]
  /\ u.ok => t.ok /\ x \in DOMAIN t.rows
  /\ x \in DOMAIN t.rows => u.rows[x] = IF u.ok THEN new ELSE t.rows[x]

LEMMA SetPniShape ==
  ASSUME NEW t \in Table, NEW x, NEW p \in Pnis \cup {None}
  PROVE  Writes(t, SetPni(t, x, p), x, [t.rows[x] EXCEPT !.pni = p])
<1> DEFINE u == SetPni(t, x, p)
<1>1. CASE t.ok /\ x \in DOMAIN t.rows
  <2>1. u = [t EXCEPT !.rows[x].pni = p]
    BY <1>1 DEF SetPni, Present
  <2>2. [t.rows[x] EXCEPT !.pni = p] \in Row
    BY <1>1, TableFacts DEF Row
  <2>3. u.rows = [t.rows EXCEPT ![x] = [t.rows[x] EXCEPT !.pni = p]] /\ u.ok = t.ok /\ u.held = t.held
    BY <2>1 DEF Table
  <2>4. u.rows \in [DOMAIN t.rows -> Row]
    BY <2>2, <2>3, TableFacts
  <2>5. u \in Table
    BY <2>1, <2>4, TableFacts DEF Table
  <2> QED
    BY <1>1, <2>3, <2>4, <2>5, TableFacts DEF Writes
<1>2. CASE ~(t.ok /\ x \in DOMAIN t.rows)
  <2>1. u = [t EXCEPT !.ok = FALSE]
    BY <1>2 DEF SetPni, Present
  <2> QED
    BY <2>1 DEF Writes, Table
<1> QED
  BY <1>1, <1>2

LEMMA SetAciShape ==
  ASSUME NEW t \in Table, NEW x, NEW v \in Acis \cup {None}
  PROVE  /\ Writes(t, SetAci(t, x, v), x, [t.rows[x] EXCEPT !.aci = v])
         /\ SetAci(t, x, v).ok => \A i \in DOMAIN t.rows : i # x => t.rows[i].aci # v
<1> DEFINE u == SetAci(t, x, v)
           clear == With(t.rows, "aci", v) \ {x} = {}
<1>1. CASE t.ok /\ x \in DOMAIN t.rows /\ clear
  <2>1. u = [t EXCEPT !.rows[x].aci = v]
    BY <1>1 DEF SetAci, Present
  <2>2. [t.rows[x] EXCEPT !.aci = v] \in Row
    BY <1>1, TableFacts DEF Row
  <2>3. u.rows = [t.rows EXCEPT ![x] = [t.rows[x] EXCEPT !.aci = v]] /\ u.ok = t.ok /\ u.held = t.held
    BY <2>1 DEF Table
  <2>4. u.rows \in [DOMAIN t.rows -> Row]
    BY <2>2, <2>3, TableFacts
  <2>5. u \in Table
    BY <2>1, <2>4, TableFacts DEF Table
  <2>6. \A i \in DOMAIN t.rows : i # x => t.rows[i].aci # v
    BY <1>1 DEF With
  <2> QED
    BY <1>1, <2>3, <2>4, <2>5, <2>6, TableFacts DEF Writes
<1>2. CASE ~(t.ok /\ x \in DOMAIN t.rows /\ clear)
  <2>1. u = [t EXCEPT !.ok = FALSE]
    BY <1>2 DEF SetAci, Present
  <2> QED
    BY <2>1 DEF Writes, Table
<1> QED
  BY <1>1, <1>2


LEMMA SetE164Shape ==
  ASSUME NEW t \in Table, NEW x, NEW v \in E164s \cup {None}
  PROVE  /\ Writes(t, SetE164(t, x, v), x, [t.rows[x] EXCEPT !.e164 = v])
         /\ SetE164(t, x, v).ok /\ v # None => \A i \in DOMAIN t.rows : i # x => t.rows[i].e164 # v
<1> DEFINE u == SetE164(t, x, v)
           clear == v = None \/ With(t.rows, "e164", v) \ {x} = {}
<1>1. CASE t.ok /\ x \in DOMAIN t.rows /\ clear
  <2>1. u = [t EXCEPT !.rows[x].e164 = v]
    BY <1>1 DEF SetE164, Present
  <2>2. [t.rows[x] EXCEPT !.e164 = v] \in Row
    BY <1>1, TableFacts DEF Row
  <2>3. u.rows = [t.rows EXCEPT ![x] = [t.rows[x] EXCEPT !.e164 = v]] /\ u.ok = t.ok /\ u.held = t.held
    BY <2>1 DEF Table
  <2>4. u.rows \in [DOMAIN t.rows -> Row]
    BY <2>2, <2>3, TableFacts
  <2>5. u \in Table
    BY <2>1, <2>4, TableFacts DEF Table
  <2>6. v # None => \A i \in DOMAIN t.rows : i # x => t.rows[i].e164 # v
    BY <1>1 DEF With
  <2> QED
    BY <1>1, <2>3, <2>4, <2>5, <2>6, TableFacts DEF Writes
<1>2. CASE ~(t.ok /\ x \in DOMAIN t.rows /\ clear)
  <2>1. u = [t EXCEPT !.ok = FALSE]
    BY <1>2 DEF SetE164, Present
  <2> QED
    BY <2>1 DEF Writes, Table
<1> QED
  BY <1>1, <1>2

LEMMA SetPniKeeps ==
  ASSUME NEW l \in Lookups, NEW t, Kept(l, t), NEW x, x \in DOMAIN t.rows => OnSide(t.rows[x], l),
         NEW p \in {None, l.pni}
  PROVE  Kept(l, SetPni(t, x, p))
<1> DEFINE u == SetPni(t, x, p)
<1>1. t \in Table /\ p \in Pnis \cup {None} /\ OnSide(l, l)
  BY LookupFacts DEF Kept
<1>2. Writes(t, u, x, [t.rows[x] EXCEPT !.pni = p])
  BY <1>1, SetPniShape
<1> HIDE DEF u
<1>3. x \in DOMAIN t.rows =>
        /\ OnSide(u.rows[x], l)
        /\ u.rows[x].aci = t.rows[x].aci /\ u.rows[x].e164 = t.rows[x].e164
        /\ u.rows[x].pni \in {p, t.rows[x].pni}
  <2> SUFFICES ASSUME x \in DOMAIN t.rows, u.ok
               PROVE  /\ OnSide(u.rows[x], l)
                      /\ u.rows[x].aci = t.rows[x].aci /\ u.rows[x].e164 = t.rows[x].e164
                      /\ u.rows[x].pni = p
    BY <1>2 DEF Writes
  <2>1. t.rows[x] \in Row /\ u.rows[x] = [t.rows[x] EXCEPT !.pni = p]
    BY <1>1, <1>2, TableFacts DEF Writes
  <2>2. u.rows[x].pni = p /\ u.rows[x].aci = t.rows[x].aci /\ u.rows[x].e164 = t.rows[x].e164
    BY <2>1 DEF Row
  <2>3. OnSide(u.rows[x], l)
    BY <1>1, <2>2 DEF OnSide, Idents
  <2> QED
    BY <2>2, <2>3
<1>4. AciUnique(u.rows) /\ E164Unique(u.rows)
  BY <1>2, <1>3 DEF Kept, Writes, AciUnique, E164Unique
<1>5. Kept(l, u)
  BY <1>2, <1>3, <1>4, KeptWhenWritten DEF Writes
<1> QED
  BY <1>5 DEF u

LEMMA SetE164Keeps ==
  ASSUME NEW l \in Lookups, NEW t, Kept(l, t), NEW x, x \in DOMAIN t.rows => OnSide(t.rows[x], l),
         NEW v \in {None, l.e164}
  PROVE  Kept(l, SetE164(t, x, v))
<1> DEFINE u == SetE164(t, x, v)
<1>1. t \in Table /\ v \in E164s \cup {None} /\ OnSide(l, l)
  BY LookupFacts DEF Kept
<1>2. /\ Writes(t, u, x, [t.rows[x] EXCEPT !.e164 = v])
      /\ u.ok /\ v # None => \A i \in DOMAIN t.rows : i # x => t.rows[i].e164 # v
  BY <1>1, SetE164Shape
<1> HIDE DEF u
<1>3. x \in DOMAIN t.rows =>
        /\ OnSide(u.rows[x], l)
        /\ u.rows[x].aci = t.rows[x].aci /\ u.rows[x].pni = t.rows[x].pni
        /\ u.rows[x].e164 = IF u.ok THEN v ELSE t.rows[x].e164
  <2> SUFFICES ASSUME x \in DOMAIN t.rows, u.ok
               PROVE  /\ OnSide(u.rows[x], l)
                      /\ u.rows[x].aci = t.rows[x].aci /\ u.rows[x].pni = t.rows[x].pni
                      /\ u.rows[x].e164 = v
    BY <1>2 DEF Writes
  <2>1. t.rows[x] \in Row /\ u.rows[x] = [t.rows[x] EXCEPT !.e164 = v]
    BY <1>1, <1>2, TableFacts DEF Writes
  <2>2. u.rows[x].e164 = v /\ u.rows[x].aci = t.rows[x].aci /\ u.rows[x].pni = t.rows[x].pni
    BY <2>1 DEF Row
  <2>3. OnSide(u.rows[x], l)
    BY <1>1, <2>2 DEF OnSide, Idents
  <2> QED
    BY <2>2, <2>3
<1>4. AciUnique(u.rows) /\ E164Unique(u.rows)
  BY <1>2, <1>3 DEF Kept, Writes, AciUnique, E164Unique
<1>5. Kept(l, u)
  BY <1>2, <1>3, <1>4, KeptWhenWritten DEF Writes
<1> QED
  BY <1>5 DEF u

LEMMA SetAciKeeps ==
  ASSUME NEW l \in Lookups, NEW t, Kept(l, t), NEW x, l.aci # None,
         x \in DOMAIN t.rows => OnSide(t.rows[x], l) /\ t.rows[x].aci = None
  PROVE  Kept(l, SetAci(t, x, l.aci))
<1> DEFINE u == SetAci(t, x, l.aci)
<1>1. t \in Table /\ l.aci \in Acis \cup {None} /\ OnSide(l, l)
  BY LookupFacts DEF Kept
<1>2. /\ Writes(t, u, x, [t.rows[x] EXCEPT !.aci = l.aci])
      /\ u.ok => \A i \in DOMAIN t.rows : i # x => t.rows[i].aci # l.aci
  BY <1>1, SetAciShape
<1> HIDE DEF u
<1>3. x \in DOMAIN t.rows =>
        /\ OnSide(u.rows[x], l)
        /\ u.rows[x].e164 = t.rows[x].e164 /\ u.rows[x].pni = t.rows[x].pni
        /\ u.rows[x].aci = IF u.ok THEN l.aci ELSE t.rows[x].aci
  <2> SUFFICES ASSUME x \in DOMAIN t.rows, u.ok
               PROVE  /\ OnSide(u.rows[x], l)
                      /\ u.rows[x].e164 = t.rows[x].e164 /\ u.rows[x].pni = t.rows[x].pni
                      /\ u.rows[x].aci = l.aci
    BY <1>2 DEF Writes
  <2>1. t.rows[x] \in Row /\ u.rows[x] = [t.rows[x] EXCEPT !.aci = l.aci]
    BY <1>1, <1>2, TableFacts DEF Writes
  <2>2. u.rows[x].aci = l.aci /\ u.rows[x].e164 = t.rows[x].e164 /\ u.rows[x].pni = t.rows[x].pni
    BY <2>1 DEF Row
  <2>3. OnSide(u.rows[x], l)
    BY <1>1, <2>2 DEF OnSide, Idents
  <2> QED
    BY <2>2, <2>3
<1>4. AciUnique(u.rows) /\ E164Unique(u.rows)
  BY <1>2, <1>3 DEF Kept, Writes, AciUnique, E164Unique
<1>5. Kept(l, u)
  BY <1>2, <1>3, <1>4, KeptWhenWritten DEF Writes
<1> QED
  BY <1>5 DEF u

LEMMA CreateShape ==
  ASSUME NEW t \in Table, NEW n \in Ids, n \notin DOMAIN t.rows,
         NEW a \in Acis \cup {None}, NEW p \in Pnis \cup {None}, NEW e \in E164s \cup {None}
  PROVE  LET u == Create(t, n, a, p, e)
         IN  /\ u \in Table
             /\ u.ok => t.ok
             /\ ~u.ok => u.rows = t.rows
             /\ u.ok => /\ DOMAIN u.rows = DOMAIN t.rows \cup {n}
                        /\ \A i \in DOMAIN t.rows : u.rows[i] = t.rows[i]
                        /\ u.rows[n] = [aci |-> a, pni |-> p, e164 |-> e]
                        /\ a # None => \A i \in DOMAIN t.rows : t.rows[i].aci # a
                        /\ e # None => \A i \in DOMAIN t.rows : t.rows[i].e164 # e
<1> DEFINE u == Create(t, n, a, p, e)
           new == [aci |-> a, pni |-> p, e164 |-> e]
           free == /\ a = None \/ With(t.rows, "aci", a) = {}
                   /\ e = None \/ With(t.rows, "e164", e) = {}
<1>1. CASE t.ok /\ free
  <2>1. u = [t EXCEPT !.rows = InsertRow(t.rows, n, new)]
    BY <1>1 DEF Create
  <2>2. new \in Row
    BY DEF Row
  <2>3. u.rows = InsertRow(t.rows, n, new) /\ u.ok = t.ok /\ u.held = t.held
    BY <2>1 DEF Table
  <2> HIDE DEF new
  <2>4. u.rows = [j \in DOMAIN t.rows \cup {n} |-> IF j = n THEN new ELSE t.rows[j]]
    BY <2>3 DEF InsertRow
  <2>5. u.rows \in [DOMAIN t.rows \cup {n} -> Row] /\ DOMAIN t.rows \cup {n} \in SUBSET Ids
    BY <2>2, <2>4, TableFacts
  <2>6. u \in Table
    BY <2>1, <2>5, TableFacts DEF Table
  <2>7. /\ a # None => \A i \in DOMAIN t.rows : t.rows[i].aci # a
        /\ e # None => \A i \in DOMAIN t.rows : t.rows[i].e164 # e
    BY <1>1 DEF With
  <2>8. u.rows[n] = new /\ \A i \in DOMAIN t.rows : u.rows[i] = t.rows[i]
    BY <2>4
  <2> QED
    BY <1>1, <2>3, <2>5, <2>6, <2>7, <2>8 DEF new
<1>2. CASE ~(t.ok /\ free)
  <2>1. u = [t EXCEPT !.ok = FALSE]
    BY <1>2 DEF Create
  <2> QED
    BY <2>1 DEF Table
<1> QED
  BY <1>1, <1>2

LEMMA CreateKeeps ==
  ASSUME IInv, NEW l \in Lookups, NEW t, Kept(l, t), NEW n \in Ids, n \notin DOMAIN t.rows,
         NEW a \in {None, l.aci}, NEW p \in {None, l.pni}, NEW e \in {None, l.e164}
  PROVE  Kept(l, Create(t, n, a, p, e))
<1> DEFINE u == Create(t, n, a, p, e)
           new == [aci |-> a, pni |-> p, e164 |-> e]
<1>1. /\ t \in Table /\ OnSide(l, l)
      /\ a \in Acis \cup {None} /\ p \in Pnis \cup {None} /\ e \in E164s \cup {None}
  BY LookupFacts DEF Kept
<1>2. /\ u \in Table
      /\ u.ok => t.ok
      /\ ~u.ok => u.rows = t.rows
      /\ u.ok => /\ DOMAIN u.rows = DOMAIN t.rows \cup {n}
                 /\ \A i \in DOMAIN t.rows : u.rows[i] = t.rows[i]
                 /\ u.rows[n] = new
                 /\ a # None => \A i \in DOMAIN t.rows : t.rows[i].aci # a
                 /\ e # None => \A i \in DOMAIN t.rows : t.rows[i].e164 # e
  BY <1>1, CreateShape
<1>3. new.aci = a /\ new.pni = p /\ new.e164 = e /\ OnSide(new, l)
  BY <1>1 DEF OnSide, Idents
<1> HIDE DEF u, new
<1>4. ASSUME ~u.ok PROVE Kept(l, u)
  BY <1>2, <1>4 DEF Kept
<1>5. ASSUME u.ok PROVE Kept(l, u)
  <2>1. AciUnique(u.rows)
    BY <1>2, <1>3, <1>5 DEF Kept, AciUnique
  <2>2. E164Unique(u.rows)
    BY <1>2, <1>3, <1>5 DEF Kept, E164Unique
  <2>3. \A i \in DOMAIN u.rows : OnSide(u.rows[i], l) \/ (i \in DOMAIN rows /\ u.rows[i] = rows[i])
    BY <1>2, <1>3, <1>5 DEF Kept
  <2>4. \A i \in DOMAIN u.rows :
          \/ u.rows[i].pni \in {None, l.pni}
          \/ (i \in DOMAIN rows /\ u.rows[i].pni = rows[i].pni)
    BY <1>2, <1>3, <1>5 DEF Kept
  <2>5. AcisStay(rows, u.rows)
    BY <1>2, <1>5 DEF Kept, AcisStay
  <2> QED
    BY <1>2, <2>1, <2>2, <2>3, <2>4, <2>5 DEF Kept
<1>6. Kept(l, u)
  BY <1>4, <1>5
<1> QED
  BY <1>6 DEF u

\* The row that a merge drops has no identifier.
LEMMA MergeShape ==
  ASSUME NEW t \in Table, NEW s, NEW d \in Ids
  PROVE  LET u == Merge(t, s, d)
         IN  /\ u \in Table
             /\ u.ok => t.ok
             /\ DOMAIN u.rows \subseteq DOMAIN t.rows
             /\ \A i \in DOMAIN u.rows : u.rows[i] = t.rows[i]
             /\ \A i \in DOMAIN t.rows \ DOMAIN u.rows :
                  t.rows[i] = [aci |-> None, pni |-> None, e164 |-> None]
<1> DEFINE u == Merge(t, s, d)
           moved == [m \in Messages |-> IF t.held[m] = s THEN d ELSE t.held[m]]
           left == IF t.rows[s] = [aci |-> None, pni |-> None, e164 |-> None]
                   THEN [i \in DOMAIN t.rows \ {s} |-> t.rows[i]]
                   ELSE t.rows
<1>1. CASE t.ok /\ s \in DOMAIN t.rows
  <2>1. u = [t EXCEPT !.held = moved, !.rows = left]
    BY <1>1 DEF Merge, Present
  <2>2. u.rows = left /\ u.held = moved /\ u.ok = t.ok
    BY <2>1 DEF Table
  <2>3. moved \in [Messages -> Ids \cup {None}]
    BY TableFacts
  <2>4. /\ DOMAIN left \subseteq DOMAIN t.rows
        /\ \A i \in DOMAIN left : left[i] = t.rows[i]
        /\ \A i \in DOMAIN t.rows \ DOMAIN left :
             t.rows[i] = [aci |-> None, pni |-> None, e164 |-> None]
        /\ left \in [DOMAIN left -> Row] /\ DOMAIN left \in SUBSET Ids
    BY TableFacts
  <2> HIDE DEF moved, left
  <2>5. [t EXCEPT !.held = moved, !.rows = left] \in Table
    <3> DEFINE R == UNION {[D -> Row] : D \in SUBSET Ids}
               H == [Messages -> Ids \cup {None}]
    <3>1. left \in R
      BY <2>4
    <3>2. moved \in H
      BY <2>3
    <3>3. Table = [rows : R, held : H, ok : BOOLEAN]
      BY DEF Table
    <3> HIDE DEF R, H
    <3> QED
      BY <3>1, <3>2, <3>3
  <2> QED
    BY <1>1, <2>1, <2>2, <2>4, <2>5
<1>2. CASE ~(t.ok /\ s \in DOMAIN t.rows)
  <2>1. u = [t EXCEPT !.ok = FALSE]
    BY <1>2 DEF Merge, Present
  <2> QED
    BY <2>1 DEF Table
<1> QED
  BY <1>1, <1>2

LEMMA MergeKeeps ==
  ASSUME NEW l \in Lookups, NEW t, Kept(l, t), NEW s, NEW d \in Ids
  PROVE  Kept(l, Merge(t, s, d))
<1> DEFINE u == Merge(t, s, d)
<1>1. /\ u \in Table
      /\ DOMAIN u.rows \subseteq DOMAIN t.rows
      /\ \A i \in DOMAIN u.rows : u.rows[i] = t.rows[i]
      /\ \A i \in DOMAIN t.rows \ DOMAIN u.rows :
           t.rows[i] = [aci |-> None, pni |-> None, e164 |-> None]
  <2>1. t \in Table
    BY DEF Kept
  <2> QED
    BY <2>1, MergeShape
<1> HIDE DEF u
<1>2. \A i \in DOMAIN t.rows : t.rows[i].aci # None => i \in DOMAIN u.rows
  BY <1>1
<1>3. AciUnique(u.rows) /\ E164Unique(u.rows)
  BY <1>1 DEF Kept, AciUnique, E164Unique
<1>4. AcisStay(rows, u.rows)
  BY <1>1, <1>2 DEF Kept, AcisStay
<1>5. Kept(l, u)
  BY <1>1, <1>3, <1>4 DEF Kept
<1> QED
  BY <1>5 DEF u

LEMMA UnwrapKeeps ==
  ASSUME NEW l \in Lookups, NEW t, Kept(l, t), NEW x
  PROVE  /\ Kept(l, Unwrap(t, x))
         /\ Unwrap(t, x).rows = t.rows
         /\ Unwrap(t, x).ok => t.ok
<1> DEFINE u == Unwrap(t, x)
<1>1. t \in Table
  BY DEF Kept
<1>2. u \in Table /\ u.rows = t.rows /\ (u.ok => t.ok)
  BY <1>1 DEF Unwrap, Table
<1> HIDE DEF u
<1>3. Kept(l, u)
  BY <1>2 DEF Kept
<1> QED
  BY <1>2, <1>3 DEF u

-----------------------------------------------------------------------------
(* One row matches, or none.                                               *)

Start == [rows |-> rows, held |-> held, ok |-> TRUE]

\* The PNI that is looked up is in one row at most.
HeldOnce(l, t) == l.pni # None => \E x : Holders(l, t) \subseteq {x}

LEMMA StartKept ==
  ASSUME IInv, NEW l \in Lookups
  PROVE  Kept(l, Start) /\ HeldOnce(l, Start)
<1>1. Start \in Table /\ Start.rows = rows /\ Start.ok
  BY DEF IInv, TypeOK, Start, Table
<1> HIDE DEF Start
<1>2. Kept(l, Start)
  BY <1>1 DEF IInv, Kept, AcisStay
<1>3. HeldOnce(l, Start)
  <2>1. \A i, j \in Holders(l, Start) : l.pni # None => i = j
    BY <1>1 DEF Holders, IInv, PniUnique
  <2> QED
    BY <2>1 DEF HeldOnce
<1> QED
  BY <1>2, <1>3

LEMMA OneMatch ==
  ASSUME NEW l
  PROVE  /\ Cardinality(Matches(l)) = 1 <=> \E c : Matches(l) = {c}
         /\ \A c : Matches(l) = {c} => (CHOOSE i \in Matches(l) : TRUE) = c
<1>1. IsFiniteSet({ByAci(l), ByPni(l), ByE164(l)} \ {None})
  <2>1. IsFiniteSet({})
    BY FS_EmptySet
  <2>2. IsFiniteSet({} \cup {ByAci(l)})
    BY <2>1, FS_AddElement
  <2>3. IsFiniteSet(({} \cup {ByAci(l)}) \cup {ByPni(l)})
    BY <2>2, FS_AddElement
  <2>4. IsFiniteSet((({} \cup {ByAci(l)}) \cup {ByPni(l)}) \cup {ByE164(l)})
    BY <2>3, FS_AddElement
  <2>5. (({} \cup {ByAci(l)}) \cup {ByPni(l)}) \cup {ByE164(l)} = {ByAci(l), ByPni(l), ByE164(l)}
    OBVIOUS
  <2> QED
    BY <2>4, <2>5, FS_Subset
<1>2. Cardinality(Matches(l)) = 1 <=> \E c : Matches(l) = {c}
  BY <1>1, FS_Singleton DEF Matches
<1> QED
  BY <1>2

\* Other rows than the one that matches have none of the identifiers.
LEMMA OthersDiffer ==
  ASSUME IInv, NEW l \in Lookups, NEW c, Matches(l) \subseteq {c}
  PROVE  \A i \in DOMAIN rows : i # c =>
           /\ l.aci # None => rows[i].aci # l.aci
           /\ l.pni # None => rows[i].pni # l.pni
           /\ l.e164 # None => rows[i].e164 # l.e164
<1> SUFFICES ASSUME NEW i \in DOMAIN rows, i # c
             PROVE  /\ l.aci # None => rows[i].aci # l.aci
                    /\ l.pni # None => rows[i].pni # l.pni
                    /\ l.e164 # None => rows[i].e164 # l.e164
  OBVIOUS
<1>1. ByAci(l) \in {None, c} /\ ByPni(l) \in {None, c} /\ ByE164(l) \in {None, c}
  BY DEF Matches
<1>2. l.aci # None => rows[i].aci # l.aci
  BY <1>1, MatchFacts DEF IInv, AciUnique
<1>3. l.pni # None => rows[i].pni # l.pni
  BY <1>1, MatchFacts DEF IInv, PniUnique
<1>4. l.e164 # None => rows[i].e164 # l.e164
  BY <1>1, MatchFacts DEF IInv, E164Unique
<1> QED
  BY <1>2, <1>3, <1>4

LEMMA Created ==
  ASSUME IInv, NEW l \in Lookups, NEW n \in Ids \ DOMAIN rows, Matches(l) = {}
  PROVE  LET u == CreateNew(Start, l, n)
         IN  /\ Kept(l, u)
             /\ u.ok => HeldOnce(l, u) /\ n \in DOMAIN u.rows /\ u.rows[n].aci = l.aci
<1> DEFINE e == IF l.certain \/ l.aci = None THEN l.e164 ELSE None
           u == Create(Start, n, l.aci, l.pni, e)
<1>1. Kept(l, Start) /\ Start \in Table /\ Start.rows = rows
  BY StartKept DEF Kept, Start
<1>2. CreateNew(Start, l, n) = u
  BY DEF CreateNew, When
<1>3. e \in {None, l.e164} /\ e \in E164s \cup {None}
  BY LookupFacts
<1>a. l.aci \in Acis \cup {None} /\ l.pni \in Pnis \cup {None}
  BY LookupFacts
<1> HIDE DEF e
<1>4. Kept(l, u)
  BY <1>1, <1>3, CreateKeeps
<1>5. u.ok => /\ DOMAIN u.rows = DOMAIN rows \cup {n}
              /\ \A i \in DOMAIN rows : u.rows[i] = rows[i]
              /\ u.rows[n].aci = l.aci
  <2>1. u.ok => /\ DOMAIN u.rows = DOMAIN rows \cup {n}
                /\ \A i \in DOMAIN rows : u.rows[i] = rows[i]
                /\ u.rows[n] = [aci |-> l.aci, pni |-> l.pni, e164 |-> e]
    BY <1>1, <1>3, <1>a, CreateShape
  <2> QED
    BY <2>1
<1> HIDE DEF u
<1>6. l.pni # None => \A i \in DOMAIN rows : rows[i].pni # l.pni
  BY MatchFacts DEF Matches
<1>7. u.ok /\ l.pni # None => Holders(l, u) \subseteq {n}
  BY <1>5, <1>6 DEF Holders
<1> QED
  BY <1>2, <1>4, <1>5, <1>7 DEF HeldOnce

\* Of the row that matches, the new row has what the lookup names besides the ACI.
LEMMA Split ==
  ASSUME IInv, NEW l \in Lookups, NEW n \in Ids \ DOMAIN rows, NEW c, Matches(l) = {c}
  PROVE  LET u == SplitCommon(Start, l, n, c)
         IN  /\ Kept(l, u)
             /\ u.ok => /\ l.pni # None => Holders(l, u) \subseteq {n}
                        /\ n \in DOMAIN u.rows
                        /\ u.rows[n] = [aci |-> None, pni |-> l.pni, e164 |-> l.e164]
<1> DEFINE stolen == l.e164 # None /\ l.e164 = rows[c].e164
           lostPni == stolen \/ (l.pni # None /\ l.pni = rows[c].pni)
           s1 == SetE164(Start, c, None)
           t1 == IF stolen THEN s1 ELSE Start
           s2 == SetPni(t1, c, None)
           t2 == IF lostPni THEN s2 ELSE t1
           u == Create(t2, n, None, l.pni, l.e164)
<1>1. Kept(l, Start) /\ Start \in Table /\ Start.rows = rows /\ c \in Matches(l)
  BY StartKept DEF Kept, Start
<1>2. c \in DOMAIN rows /\ OnSide(rows[c], l)
  BY <1>1, MatchFacts
<1>3. SplitCommon(Start, l, n, c) = u
  BY DEF SplitCommon, When
<1>4. /\ l.aci \in Acis \cup {None} /\ l.pni \in Pnis \cup {None}
      /\ l.e164 \in E164s \cup {None}
  BY LookupFacts
<1>5. Kept(l, s1) /\ Writes(Start, s1, c, [Start.rows[c] EXCEPT !.e164 = None])
  BY <1>1, <1>2, SetE164Keeps, SetE164Shape
<1> HIDE DEF stolen, s1
<1>6. /\ Kept(l, t1) /\ DOMAIN t1.rows = DOMAIN rows
      /\ \A i \in DOMAIN rows : i # c => t1.rows[i] = rows[i]
      /\ t1.ok => t1.rows[c].pni = rows[c].pni
  <2>1. rows[c] \in Row /\ [rows[c] EXCEPT !.e164 = None].pni = rows[c].pni
    BY <1>1, <1>2, TableFacts DEF Row
  <2> QED
    BY <1>1, <1>2, <1>5, <2>1 DEF Writes
<1> HIDE DEF t1
<1>7. Kept(l, s2) /\ Writes(t1, s2, c, [t1.rows[c] EXCEPT !.pni = None])
  <2>1. t1 \in Table
    BY <1>6 DEF Kept
  <2>2. c \in DOMAIN t1.rows => OnSide(t1.rows[c], l)
    BY <1>1, <1>6, KeptOnSide
  <2> QED
    BY <1>6, <2>1, <2>2, SetPniKeeps, SetPniShape
<1> HIDE DEF s2
<1>8. /\ Kept(l, t2) /\ DOMAIN t2.rows = DOMAIN rows
      /\ \A i \in DOMAIN rows : i # c => t2.rows[i] = rows[i]
      /\ t2.ok => t2.rows[c].pni \in {None, rows[c].pni}
      /\ t2.ok /\ lostPni => t2.rows[c].pni = None
  <2>1. t1.rows[c] \in Row /\ [t1.rows[c] EXCEPT !.pni = None].pni = None
    BY <1>2, <1>6, TableFacts DEF Kept, Row
  <2> QED
    BY <1>2, <1>6, <1>7, <2>1 DEF Writes
<1>9. t2.ok /\ l.pni # None => \A i \in DOMAIN rows : t2.rows[i].pni # l.pni
  BY <1>1, <1>8, OthersDiffer
<1> HIDE DEF t2, lostPni
<1>10. Kept(l, u)
  BY <1>8, CreateKeeps
<1>11. /\ u.ok => t2.ok
       /\ u.ok => /\ DOMAIN u.rows = DOMAIN t2.rows \cup {n}
                  /\ \A i \in DOMAIN t2.rows : u.rows[i] = t2.rows[i]
                  /\ u.rows[n] = [aci |-> None, pni |-> l.pni, e164 |-> l.e164]
  <2>1. t2 \in Table
    BY <1>8 DEF Kept
  <2> QED
    BY <1>4, <1>8, <2>1, CreateShape
<1> HIDE DEF u
<1>12. u.ok /\ l.pni # None => Holders(l, u) \subseteq {n}
  BY <1>8, <1>9, <1>11 DEF Holders
<1> QED
  BY <1>3, <1>10, <1>11, <1>12

LEMMA Amended ==
  ASSUME IInv, NEW l \in Lookups, NEW c, Matches(l) = {c}
  PROVE  LET u == AmendCommon(Start, l, c)
         IN  /\ Kept(l, u)
             /\ u.ok => /\ l.pni # None => Holders(l, u) \subseteq {c}
                        /\ c \in DOMAIN u.rows
                        /\ l.aci # None /\ rows[c].aci = None => u.rows[c].aci = l.aci
<1> DEFINE s1 == SetE164(Start, c, l.e164)
           t1 == IF l.e164 # None /\ l.e164 # rows[c].e164 /\ l.certain THEN s1 ELSE Start
           s2 == SetPni(t1, c, l.pni)
           t2 == IF l.pni # None /\ l.pni # rows[c].pni THEN s2 ELSE t1
           s3 == SetAci(t2, c, l.aci)
           u == IF l.aci # None /\ rows[c].aci = None THEN s3 ELSE t2
<1>1. Kept(l, Start) /\ Start \in Table /\ Start.rows = rows /\ c \in Matches(l)
  BY StartKept DEF Kept, Start
<1>2. c \in DOMAIN rows /\ OnSide(rows[c], l)
  BY <1>1, MatchFacts
<1>3. AmendCommon(Start, l, c) = u
  BY DEF AmendCommon, When
<1>4. /\ l.aci \in Acis \cup {None} /\ l.pni \in Pnis \cup {None}
      /\ l.e164 \in E164s \cup {None}
  BY LookupFacts
<1>5. Kept(l, s1) /\ Writes(Start, s1, c, [Start.rows[c] EXCEPT !.e164 = l.e164])
  BY <1>1, <1>2, <1>4, SetE164Keeps, SetE164Shape
<1> HIDE DEF s1
<1>6. /\ Kept(l, t1) /\ DOMAIN t1.rows = DOMAIN rows
      /\ \A i \in DOMAIN rows : i # c => t1.rows[i] = rows[i]
      /\ t1.rows[c].aci = rows[c].aci
  <2>1. rows[c] \in Row /\ [rows[c] EXCEPT !.e164 = l.e164].aci = rows[c].aci
    BY <1>1, <1>2, TableFacts DEF Row
  <2> QED
    BY <1>1, <1>2, <1>5, <2>1 DEF Writes
<1> HIDE DEF t1
<1>7. Kept(l, s2) /\ Writes(t1, s2, c, [t1.rows[c] EXCEPT !.pni = l.pni])
  <2>1. t1 \in Table
    BY <1>6 DEF Kept
  <2>2. c \in DOMAIN t1.rows => OnSide(t1.rows[c], l)
    BY <1>1, <1>6, KeptOnSide
  <2> QED
    BY <1>4, <1>6, <2>1, <2>2, SetPniKeeps, SetPniShape
<1> HIDE DEF s2
<1>8. /\ Kept(l, t2) /\ DOMAIN t2.rows = DOMAIN rows
      /\ \A i \in DOMAIN rows : i # c => t2.rows[i] = rows[i]
      /\ t2.rows[c].aci = rows[c].aci
  <2>1. t1.rows[c] \in Row /\ [t1.rows[c] EXCEPT !.pni = l.pni].aci = t1.rows[c].aci
    BY <1>2, <1>6, TableFacts DEF Kept, Row
  <2> QED
    BY <1>2, <1>6, <1>7, <2>1 DEF Writes
<1> HIDE DEF t2
<1>9. /\ l.aci # None /\ rows[c].aci = None => Kept(l, s3)
      /\ Writes(t2, s3, c, [t2.rows[c] EXCEPT !.aci = l.aci])
  <2>1. t2 \in Table
    BY <1>8 DEF Kept
  <2>2. c \in DOMAIN t2.rows => OnSide(t2.rows[c], l)
    BY <1>1, <1>8, KeptOnSide
  <2> QED
    BY <1>4, <1>8, <2>1, <2>2, SetAciKeeps, SetAciShape
<1> HIDE DEF s3
<1>10. Kept(l, u) /\ DOMAIN u.rows = DOMAIN rows
  BY <1>8, <1>9 DEF Writes
<1>11. \A i \in DOMAIN rows : i # c => u.rows[i] = rows[i]
  BY <1>8, <1>9 DEF Writes
<1>12. u.ok /\ l.aci # None /\ rows[c].aci = None => u.rows[c].aci = l.aci
  <2>1. t2.rows[c] \in Row /\ [t2.rows[c] EXCEPT !.aci = l.aci].aci = l.aci
    BY <1>2, <1>8, TableFacts DEF Kept, Row
  <2> QED
    BY <1>2, <1>8, <1>9, <2>1 DEF Writes
<1> HIDE DEF u
<1>13. u.ok /\ l.pni # None => Holders(l, u) \subseteq {c}
  BY <1>10, <1>11, OthersDiffer DEF Holders
<1> QED
  BY <1>2, <1>3, <1>10, <1>12, <1>13

\* If no row has the ACI, the row that the lookup returns has none.
Settled(l, t) ==
  /\ l.aci # None
  /\ \A i \in DOMAIN t.rows : t.rows[i].aci # l.aci
  /\ Result(t.rows, l) # None
  => t.rows[Result(t.rows, l)].aci = None

\* A new row without an ACI, with everything else that is looked up, is returned.
LEMMA NewIsReturned ==
  ASSUME NEW l \in Lookups, NEW t, Kept(l, t), NEW n \in DOMAIN t.rows,
         l.pni = None \/ l.e164 = None, l.pni # None \/ l.e164 # None,
         t.rows[n] = [aci |-> None, pni |-> l.pni, e164 |-> l.e164],
         l.pni # None => Holders(l, t) \subseteq {n}
  PROVE  Settled(l, t)
<1> SUFFICES ASSUME l.aci # None, \A i \in DOMAIN t.rows : t.rows[i].aci # l.aci
             PROVE  t.rows[Result(t.rows, l)].aci = None
  BY DEF Settled
<1> DEFINE a == Find(t.rows, "aci", l.aci)
           e == Find(t.rows, "e164", l.e164)
           p == Find(t.rows, "pni", l.pni)
<1>1. None \notin DOMAIN t.rows
  BY TableFacts DEF Kept
<1>2. a = None
  BY <1>1, Found
<1>3. t.rows[n].aci = None /\ t.rows[n].pni = l.pni /\ t.rows[n].e164 = l.e164
  OBVIOUS
<1>4. CASE l.e164 # None
  <2>1. e # None /\ e \in DOMAIN t.rows /\ t.rows[e].e164 = l.e164
    BY <1>1, <1>3, <1>4, Found
  <2>2. e = n
    BY <1>3, <1>4, <2>1 DEF Kept, E164Unique
  <2>3. Result(t.rows, l) = n
    BY <1>2, <2>1, <2>2 DEF Result
  <2> QED
    BY <1>3, <2>3
<1>5. CASE l.e164 = None
  <2>1. e = None
    BY <1>1, <1>5, Found
  <2>2. p # None /\ p \in DOMAIN t.rows /\ t.rows[p].pni = l.pni
    BY <1>1, <1>3, <1>5, Found
  <2>3. p = n
    BY <1>5, <2>2 DEF Holders
  <2>4. Result(t.rows, l) = n
    BY <1>2, <2>1, <2>3 DEF Result
  <2> QED
    BY <1>3, <2>4
<1> QED
  BY <1>4, <1>5

\* What one row or none leads to, and that two rows are left to the blocks that merge.
LEMMA FirstBlocks ==
  ASSUME IInv, NEW l \in Lookups, NEW n \in Ids \ DOMAIN rows
  PROVE  LET u == UpdateCommon(CreateNew(Start, l, n), l, n)
         IN  /\ Kept(l, u)
             /\ u.ok => HeldOnce(l, u)
             /\ Matches(l) # {} /\ (\A c : Matches(l) # {c}) => u = Start
             /\ u.ok /\ ByAci(l) = None /\ (l.pni = None \/ l.e164 = None) => Settled(l, u)
<1> DEFINE u == UpdateCommon(CreateNew(Start, l, n), l, n)
<1>1. ByAci(l) = None => \A i \in DOMAIN rows : l.aci # None => rows[i].aci # l.aci
  BY MatchFacts
<1>2. CASE Matches(l) = {}
  <2> DEFINE v == CreateNew(Start, l, n)
  <2>1. u = v
    BY <1>2, OneMatch DEF UpdateCommon
  <2>2. Kept(l, v) /\ (v.ok => HeldOnce(l, v) /\ n \in DOMAIN v.rows /\ v.rows[n].aci = l.aci)
    BY <1>2, Created
  <2> HIDE DEF v
  <2>3. v.ok => Settled(l, v)
    BY <2>2 DEF Settled
  <2> QED
    BY <1>2, <2>1, <2>2, <2>3
<1>3. ASSUME NEW c, Matches(l) = {c}
      PROVE  /\ Kept(l, u)
             /\ u.ok => HeldOnce(l, u)
             /\ u.ok /\ ByAci(l) = None /\ (l.pni = None \/ l.e164 = None) => Settled(l, u)
  <2> DEFINE splits == l.aci # None /\ rows[c].aci # None /\ l.aci # rows[c].aci
             v == SplitCommon(Start, l, n, c)
             w == AmendCommon(Start, l, c)
  <2>1. CreateNew(Start, l, n) = Start
    BY <1>3 DEF CreateNew, When
  <2>2. u = IF splits THEN v ELSE w
    BY <1>3, <2>1, OneMatch DEF UpdateCommon
  <2>3. /\ Kept(l, v)
        /\ v.ok => /\ l.pni # None => Holders(l, v) \subseteq {n}
                   /\ n \in DOMAIN v.rows
                   /\ v.rows[n] = [aci |-> None, pni |-> l.pni, e164 |-> l.e164]
    BY <1>3, Split
  <2>4. /\ Kept(l, w)
        /\ w.ok => /\ l.pni # None => Holders(l, w) \subseteq {c}
                   /\ c \in DOMAIN w.rows
                   /\ l.aci # None /\ rows[c].aci = None => w.rows[c].aci = l.aci
    BY <1>3, Amended
  <2>5. c \in DOMAIN rows /\ (ByAci(l) = None => l.pni # None \/ l.e164 # None)
    BY <1>3, MatchFacts DEF Matches
  <2> HIDE DEF u, v, w
  <2>6. CASE splits
    <3>1. v.ok /\ ByAci(l) = None /\ (l.pni = None \/ l.e164 = None) => Settled(l, v)
      BY <2>3, <2>5, NewIsReturned
    <3> QED
      BY <2>2, <2>3, <2>6, <3>1 DEF HeldOnce
  <2>7. CASE ~splits
    <3>1. w.ok /\ ByAci(l) = None => Settled(l, w)
      BY <1>1, <2>4, <2>5, <2>7 DEF Settled
    <3> QED
      BY <2>2, <2>4, <2>7, <3>1 DEF HeldOnce
  <2> QED
    BY <2>6, <2>7
<1>4. CASE Matches(l) # {} /\ (\A c : Matches(l) # {c})
  <2>1. CreateNew(Start, l, n) = Start
    BY <1>4 DEF CreateNew, When
  <2>2. u = Start
    BY <1>4, <2>1, OneMatch DEF UpdateCommon
  <2>3. ByAci(l) = None => ~(l.pni = None \/ l.e164 = None)
    BY <1>4, MatchFacts DEF Matches
  <2> QED
    BY <2>2, <2>3, StartKept
<1> QED
  BY <1>2, <1>3, <1>4

-----------------------------------------------------------------------------
(* Two rows or three match.                                                *)

LEMMA PniWritten ==
  ASSUME IInv, NEW l \in Lookups, NEW t, Kept(l, t), NEW x \in Matches(l), NEW p \in {None, l.pni}
  PROVE  LET u == SetPni(t, x, p)
         IN  /\ Kept(l, u)
             /\ u.ok => t.ok
             /\ Holders(l, u) \subseteq Holders(l, t) \cup {x}
             /\ u.ok /\ p # l.pni => Holders(l, u) \subseteq Holders(l, t) \ {x}
<1> DEFINE u == SetPni(t, x, p)
<1>1. t \in Table /\ p \in Pnis \cup {None}
  BY LookupFacts DEF Kept
<1>2. Writes(t, u, x, [t.rows[x] EXCEPT !.pni = p])
  BY <1>1, SetPniShape
<1>3. Kept(l, u)
  BY KeptOnSide, SetPniKeeps
<1> HIDE DEF u
<1>4. u.ok => u.rows[x].pni = p
  <2> SUFFICES ASSUME u.ok PROVE u.rows[x].pni = p
    OBVIOUS
  <2>1. t.rows[x] \in Row /\ u.rows[x] = [t.rows[x] EXCEPT !.pni = p]
    BY <1>1, <1>2, TableFacts DEF Writes
  <2> QED
    BY <2>1 DEF Row
<1>5. /\ u.ok => t.ok
      /\ Holders(l, u) \subseteq Holders(l, t) \cup {x}
      /\ u.ok /\ p # l.pni => Holders(l, u) \subseteq Holders(l, t) \ {x}
  BY <1>2, <1>4 DEF Writes, Holders
<1> QED
  BY <1>3, <1>5 DEF u

LEMMA NumberWritten ==
  ASSUME IInv, NEW l \in Lookups, NEW t, Kept(l, t), NEW x \in Matches(l), NEW v \in {None, l.e164}
  PROVE  LET u == SetE164(t, x, v)
         IN  /\ Kept(l, u)
             /\ u.ok => t.ok
             /\ Holders(l, u) \subseteq Holders(l, t)
<1> DEFINE u == SetE164(t, x, v)
<1>1. t \in Table /\ v \in E164s \cup {None}
  BY LookupFacts DEF Kept
<1>2. Writes(t, u, x, [t.rows[x] EXCEPT !.e164 = v])
  BY <1>1, SetE164Shape
<1>3. Kept(l, u)
  BY KeptOnSide, SetE164Keeps
<1> HIDE DEF u
<1>4. x \in DOMAIN t.rows => u.rows[x].pni = t.rows[x].pni
  <2> SUFFICES ASSUME x \in DOMAIN t.rows PROVE u.rows[x].pni = t.rows[x].pni
    OBVIOUS
  <2>1. t.rows[x] \in Row /\ [t.rows[x] EXCEPT !.e164 = v].pni = t.rows[x].pni
    BY <1>1, TableFacts DEF Row
  <2> QED
    BY <1>2, <2>1 DEF Writes
<1>5. /\ u.ok => t.ok
      /\ Holders(l, u) \subseteq Holders(l, t)
  BY <1>2, <1>4 DEF Writes, Holders
<1> QED
  BY <1>3, <1>5 DEF u

LEMMA Merged ==
  ASSUME IInv, NEW l \in Lookups, NEW t, Kept(l, t), NEW s, NEW d \in Matches(l)
  PROVE  LET u == Merge(t, s, d)
         IN  /\ Kept(l, u)
             /\ u.ok => t.ok
             /\ Holders(l, u) \subseteq Holders(l, t)
<1> DEFINE u == Merge(t, s, d)
<1>1. d \in Ids /\ t \in Table
  BY MatchFacts DEF Kept
<1>2. Kept(l, u)
  BY <1>1, MergeKeeps
<1>3. /\ u.ok => t.ok
      /\ DOMAIN u.rows \subseteq DOMAIN t.rows
      /\ \A i \in DOMAIN u.rows : u.rows[i] = t.rows[i]
  BY <1>1, MergeShape
<1> HIDE DEF u
<1>4. Holders(l, u) \subseteq Holders(l, t)
  BY <1>3 DEF Holders
<1> QED
  BY <1>2, <1>3, <1>4 DEF u

\* Only the user's own row is looked up with all three identifiers.
LEMMA AllThree ==
  ASSUME NEW l \in Lookups, l.aci # None, l.pni # None, l.e164 # None
  PROVE  l.aci = SelfAci /\ l.pni = SelfPni /\ l.e164 = SelfE164 /\ Own(l) # {}
<1>1. l \notin MessageLookups
  BY DEF MessageLookups
<1>2. l \notin PromotionLookups
  BY DEF PromotionLookups
<1>3. l = [aci |-> SelfAci, pni |-> SelfPni, e164 |-> SelfE164, certain |-> TRUE]
  BY <1>1, <1>2 DEF Lookups, SelfLookups
<1>4. l.aci = SelfAci /\ l.pni = SelfPni /\ l.e164 = SelfE164
  BY <1>3
<1> QED
  BY <1>4 DEF Own

\* A row of the user's that has an ACI or a number matches by it.
LEMMA OwnRow ==
  ASSUME IInv, NEW l \in Lookups, l.aci # None, l.pni # None, l.e164 # None,
         NEW row \in Row, OnSide(row, l)
  PROVE  row.aci \in {None, l.aci} /\ row.e164 \in {None, l.e164} /\ row.pni \in {None, l.pni}
<1>1. /\ l.aci = SelfAci /\ l.pni = SelfPni /\ l.e164 = SelfE164
      /\ \A x \in Idents(row) : x \in Self
  BY AllThree DEF OnSide
<1>2. /\ row.aci \in Acis \cup {None} /\ row.pni \in Pnis \cup {None}
      /\ row.e164 \in E164s \cup {None}
  BY DEF Row
<1> QED
  BY <1>1, <1>2, IdentifierAssumption DEF Idents, Self

\* Where the PNI is when the block that merges its row into the ACI's row runs.
PniAtHand(l, t) ==
  \/ Holders(l, t) \subseteq {ByPni(l)}
  \/ ByAci(l) = ByE164(l) /\ Holders(l, t) \subseteq {ByAci(l)}

LEMMA StartHolders ==
  ASSUME IInv, NEW l \in Lookups, ByPni(l) # None
  PROVE  Holders(l, Start) \subseteq {ByPni(l)}
<1>1. Start.rows = rows
  BY DEF Start
<1> QED
  BY <1>1, MatchFacts DEF Holders, IInv, PniUnique

LEMMA PniIntoE164 ==
  ASSUME IInv, NEW l \in Lookups, NEW t, Kept(l, t), t.ok => HeldOnce(l, t),
         Matches(l) # {} /\ (\A c : Matches(l) # {c}) => t = Start
  PROVE  LET u == MergePniIntoE164(t, l)
         IN  /\ Kept(l, u)
             /\ u.ok => HeldOnce(l, u)
             /\ ByE164(l) = None \/ ByPni(l) = None => u = t
             /\ u.ok /\ ByAci(l) # None /\ ByPni(l) # None /\ ByAci(l) # ByPni(l)
                  => PniAtHand(l, u)
<1> DEFINE u == MergePniIntoE164(t, l)
           a == ByAci(l)
           e == ByE164(l)
           p == ByPni(l)
           idle == e = None \/ p = None \/ e = p
           alone == rows[p].aci = None /\ rows[p].e164 = None
           m1 == SetPni(t, e, None)
           m2 == Merge(m1, p, e)
           s1 == SetPni(t, p, None)
           s2 == SetPni(s1, e, l.pni)
<1>1. u = IF idle THEN t ELSE IF alone THEN m2 ELSE s2
  BY DEF MergePniIntoE164
<1>2. p # None /\ ((e # None /\ e # p) \/ (a # None /\ a # p)) => Holders(l, t) \subseteq {p}
  BY StartHolders DEF Matches
<1>3. CASE idle
  BY <1>1, <1>2, <1>3 DEF PniAtHand
<1>4. ASSUME ~idle
      PROVE  /\ l.pni # None /\ e \in Matches(l) /\ p \in Matches(l) /\ e # p
             /\ e # None /\ p # None
  BY <1>4, MatchFacts DEF Matches
<1>5. CASE ~idle /\ alone
  <2>1. Kept(l, m1) /\ (m1.ok => t.ok /\ Holders(l, m1) \subseteq Holders(l, t))
    <3>1. /\ Kept(l, m1) /\ (m1.ok => t.ok)
          /\ m1.ok /\ None # l.pni => Holders(l, m1) \subseteq Holders(l, t) \ {e}
      BY <1>4, <1>5, PniWritten
    <3> QED
      BY <1>4, <1>5, <3>1
  <2> HIDE DEF m1
  <2>2. Kept(l, m2) /\ (m2.ok => m1.ok) /\ Holders(l, m2) \subseteq Holders(l, m1)
    BY <1>4, <1>5, <2>1, Merged
  <2> HIDE DEF m2
  <2>3. m2.ok => Holders(l, m2) \subseteq {p}
    <3>1. Holders(l, t) \subseteq {p}
      BY <1>2, <1>4, <1>5
    <3> QED
      BY <2>1, <2>2, <3>1
  <2> QED
    BY <1>1, <1>5, <2>2, <2>3 DEF HeldOnce, PniAtHand
<1>6. CASE ~idle /\ ~alone
  <2>1. /\ Kept(l, s1) /\ (s1.ok => t.ok)
        /\ s1.ok => Holders(l, s1) \subseteq Holders(l, t) \ {p}
    <3>1. /\ Kept(l, s1) /\ (s1.ok => t.ok)
          /\ s1.ok /\ None # l.pni => Holders(l, s1) \subseteq Holders(l, t) \ {p}
      BY <1>4, <1>6, PniWritten
    <3> QED
      BY <1>4, <1>6, <3>1
  <2> HIDE DEF s1
  <2>2. Kept(l, s2) /\ (s2.ok => s1.ok) /\ Holders(l, s2) \subseteq Holders(l, s1) \cup {e}
    BY <1>4, <1>6, <2>1, PniWritten
  <2> HIDE DEF s2
  <2>3. s2.ok => Holders(l, s2) \subseteq {e}
    <3>1. Holders(l, t) \subseteq {p}
      BY <1>2, <1>4, <1>6
    <3> QED
      BY <2>1, <2>2, <3>1
  <2>4. a # None /\ a # p => a = e
    <3> SUFFICES ASSUME a # None, a # p
                 PROVE  a = e
      OBVIOUS
    <3>1. /\ l.aci # None /\ l.e164 # None /\ rows[p] \in Row /\ OnSide(rows[p], l)
          /\ rows[a].aci = l.aci /\ rows[e].e164 = l.e164 /\ {a, e, p} \subseteq DOMAIN rows
      BY <1>4, <1>6, MatchFacts
    <3>2. rows[p].aci \in {None, l.aci} /\ rows[p].e164 \in {None, l.e164}
      BY <1>4, <1>6, <3>1, OwnRow
    <3>3. rows[p].aci # l.aci /\ rows[p].e164 # l.e164
      BY <1>4, <1>6, <3>1 DEF IInv, AciUnique, E164Unique
    <3> QED
      BY <1>6, <3>2, <3>3
  <2> QED
    BY <1>1, <1>6, <2>2, <2>3, <2>4 DEF HeldOnce, PniAtHand
<1> QED
  BY <1>3, <1>5, <1>6

LEMMA PniIntoAci ==
  ASSUME IInv, NEW l \in Lookups, NEW t, Kept(l, t), t.ok => HeldOnce(l, t),
         t.ok /\ ByAci(l) # None /\ ByPni(l) # None /\ ByAci(l) # ByPni(l) => PniAtHand(l, t)
  PROVE  LET u == MergePniIntoAci(t, l)
         IN  /\ Kept(l, u)
             /\ u.ok => HeldOnce(l, u)
             /\ ByAci(l) = None => u = t
<1> DEFINE u == MergePniIntoAci(t, l)
           a == ByAci(l)
           p == ByPni(l)
           idle == a = None \/ p = None \/ a = p
           alone == rows[p].aci = None /\ rows[p].e164 = None
           same == rows[p].aci = None /\ (l.e164 = None \/ rows[p].e164 = l.e164)
           number == IF rows[p].e164 # None THEN rows[p].e164 ELSE l.e164
           cleared == SetPni(t, a, None)
           m1 == IF rows[a].pni # None THEN cleared ELSE t
           m2 == Merge(m1, p, a)
           n1 == SetE164(cleared, a, None)
           n2 == IF number # None /\ rows[a].e164 = None THEN n1 ELSE cleared
           n3 == Merge(n2, p, a)
           s1 == SetPni(t, p, None)
           swapped == SetPni(s1, a, l.pni)
           f1 == SetE164(swapped, p, None)
           freed == IF rows[p].e164 = l.e164 THEN f1 ELSE swapped
           s2 == SetE164(freed, a, l.e164)
           s3 == IF l.e164 # None /\ rows[a].e164 # l.e164 THEN s2 ELSE swapped
<1>1. u = IF idle THEN t ELSE IF alone THEN m2 ELSE IF same THEN n3 ELSE s3
  BY DEF MergePniIntoAci, When
<1>2. CASE idle
  BY <1>1, <1>2
<1>3. ASSUME ~idle
      PROVE  /\ l.pni # None /\ a \in Matches(l) /\ p \in Matches(l) /\ a # p /\ a # None
             /\ t.ok => Holders(l, t) \subseteq {p} \/ Holders(l, t) \subseteq {a}
  BY <1>3, MatchFacts DEF Matches, PniAtHand
<1>4. ASSUME ~idle
      PROVE  Kept(l, cleared) /\ (cleared.ok => t.ok /\ Holders(l, cleared) \subseteq Holders(l, t))
  <2>1. /\ Kept(l, cleared) /\ (cleared.ok => t.ok)
        /\ cleared.ok /\ None # l.pni => Holders(l, cleared) \subseteq Holders(l, t) \ {a}
    BY <1>3, <1>4, PniWritten
  <2> QED
    BY <1>3, <1>4, <2>1
<1> HIDE DEF cleared
<1>5. CASE ~idle /\ alone
  <2>1. Kept(l, m1) /\ (m1.ok => t.ok /\ Holders(l, m1) \subseteq Holders(l, t))
    BY <1>4, <1>5
  <2> HIDE DEF m1
  <2>2. Kept(l, m2) /\ (m2.ok => m1.ok) /\ Holders(l, m2) \subseteq Holders(l, m1)
    BY <1>3, <1>5, <2>1, Merged
  <2> QED
    BY <1>1, <1>3, <1>5, <2>1, <2>2 DEF HeldOnce
<1>6. CASE ~idle /\ ~alone /\ same
  <2>1. Kept(l, n1) /\ (n1.ok => cleared.ok) /\ Holders(l, n1) \subseteq Holders(l, cleared)
    BY <1>3, <1>4, <1>6, NumberWritten
  <2> HIDE DEF n1
  <2>2. Kept(l, n2) /\ (n2.ok => cleared.ok) /\ Holders(l, n2) \subseteq Holders(l, cleared)
    BY <1>4, <1>6, <2>1
  <2> HIDE DEF n2
  <2>3. Kept(l, n3) /\ (n3.ok => n2.ok) /\ Holders(l, n3) \subseteq Holders(l, n2)
    BY <1>3, <1>6, <2>2, Merged
  <2>4. n3.ok => t.ok /\ Holders(l, n3) \subseteq Holders(l, t)
    BY <1>4, <1>6, <2>2, <2>3
  <2> QED
    BY <1>1, <1>3, <1>6, <2>3, <2>4 DEF HeldOnce
<1>7. CASE ~idle /\ ~alone /\ ~same
  <2>1. Kept(l, s1) /\ (s1.ok => t.ok) /\ (s1.ok => Holders(l, s1) \subseteq Holders(l, t) \ {p})
    <3>1. /\ Kept(l, s1) /\ (s1.ok => t.ok)
          /\ s1.ok /\ None # l.pni => Holders(l, s1) \subseteq Holders(l, t) \ {p}
      BY <1>3, <1>7, PniWritten
    <3> QED
      BY <1>3, <1>7, <3>1
  <2> HIDE DEF s1
  <2>2. Kept(l, swapped) /\ (swapped.ok => s1.ok)
        /\ Holders(l, swapped) \subseteq Holders(l, s1) \cup {a}
    BY <1>3, <1>7, <2>1, PniWritten
  <2> HIDE DEF swapped
  <2>3. Kept(l, f1) /\ (f1.ok => swapped.ok) /\ Holders(l, f1) \subseteq Holders(l, swapped)
    BY <1>3, <1>7, <2>2, NumberWritten
  <2> HIDE DEF f1
  <2>4. Kept(l, freed) /\ (freed.ok => swapped.ok) /\ Holders(l, freed) \subseteq Holders(l, swapped)
    BY <2>2, <2>3
  <2> HIDE DEF freed
  <2>5. Kept(l, s2) /\ (s2.ok => freed.ok) /\ Holders(l, s2) \subseteq Holders(l, freed)
    BY <1>3, <1>7, <2>4, NumberWritten
  <2> HIDE DEF s2
  <2>6. Kept(l, s3) /\ (s3.ok => swapped.ok) /\ Holders(l, s3) \subseteq Holders(l, swapped)
    BY <2>2, <2>4, <2>5
  <2> HIDE DEF s3
  <2>7. s3.ok => Holders(l, s3) \subseteq {a}
    BY <1>3, <1>7, <2>1, <2>2, <2>6
  <2> QED
    BY <1>1, <1>7, <2>6, <2>7 DEF HeldOnce
<1> QED
  BY <1>2, <1>5, <1>6, <1>7

LEMMA E164IntoAci ==
  ASSUME IInv, NEW l \in Lookups, NEW t, Kept(l, t), t.ok => HeldOnce(l, t)
  PROVE  LET u == MergeE164IntoAci(t, l)
         IN  /\ Kept(l, u)
             /\ u.ok => HeldOnce(l, u)
             /\ ByAci(l) = None => u = t
<1> DEFINE u == MergeE164IntoAci(t, l)
           a == ByAci(l)
           e == ByE164(l)
           idle == a = None \/ e = None \/ a = e
           alone == rows[e].aci = None /\ rows[e].pni = None
           other == l.pni # None /\ rows[e].pni # l.pni
           g1 == SetE164(t, a, None)
           emptied == IF rows[a].e164 # None THEN g1 ELSE t
           g2 == SetE164(emptied, e, None)
           g3 == SetE164(g2, a, l.e164)
           g4 == Merge(g3, e, a)
           h1 == SetPni(t, a, None)
           cleared == IF rows[a].pni # None THEN h1 ELSE t
           checked == Unwrap(cleared, rows[a].e164)
           h2 == SetE164(checked, a, None)
           h3 == IF rows[a].e164 # l.e164 THEN h2 ELSE checked
           h4 == Merge(h3, e, a)
           k1 == SetE164(t, e, None)
           k2 == SetE164(k1, a, l.e164)
           k3 == IF l.certain THEN k2 ELSE t
           After(v) == Kept(l, v) /\ (v.ok => HeldOnce(l, v))
<1>1. u = IF idle THEN t ELSE IF alone THEN g4 ELSE IF other THEN h4 ELSE k3
  BY DEF MergeE164IntoAci, When
<1>2. After(t)
  OBVIOUS
<1>3. ASSUME ~idle
      PROVE  l.e164 # None /\ a \in Matches(l) /\ e \in Matches(l) /\ a # e /\ a # None
  BY <1>3, MatchFacts DEF Matches
<1>4. ASSUME ~idle, NEW v, After(v), NEW x \in {a, e}, NEW y \in {None, l.e164}
      PROVE  After(SetE164(v, x, y))
  <2> DEFINE w == SetE164(v, x, y)
  <2>1. Kept(l, w) /\ (w.ok => v.ok) /\ Holders(l, w) \subseteq Holders(l, v)
    BY <1>3, <1>4, NumberWritten
  <2> HIDE DEF w
  <2>2. After(w)
    BY <1>4, <2>1 DEF HeldOnce
  <2> QED
    BY <2>2 DEF w
<1>5. ASSUME ~idle, NEW v, After(v)
      PROVE  After(Merge(v, e, a))
  <2> DEFINE w == Merge(v, e, a)
  <2>1. Kept(l, w) /\ (w.ok => v.ok) /\ Holders(l, w) \subseteq Holders(l, v)
    BY <1>3, <1>5, Merged
  <2> HIDE DEF w
  <2>2. After(w)
    BY <1>5, <2>1 DEF HeldOnce
  <2> QED
    BY <2>2 DEF w
<1>6. ASSUME ~idle PROVE After(h1)
  <2>1. /\ Kept(l, h1) /\ (h1.ok => t.ok)
        /\ h1.ok /\ None # l.pni => Holders(l, h1) \subseteq Holders(l, t) \ {a}
    BY <1>3, <1>6, PniWritten
  <2> HIDE DEF h1
  <2>2. After(h1)
    BY <1>2, <2>1 DEF HeldOnce
  <2> QED
    BY <2>2
<1> HIDE DEF g1, g2, g3, g4, h1, h2, h4, k1, k2, checked
<1>7. CASE ~idle /\ alone
  <2>1. After(g1)
    BY <1>2, <1>4, <1>7 DEF g1
  <2>2. After(emptied)
    BY <1>2, <2>1
  <2> HIDE DEF emptied
  <2>3. After(g2)
    BY <1>4, <1>7, <2>2 DEF g2
  <2>4. After(g3)
    BY <1>4, <1>7, <2>3 DEF g3
  <2>5. After(g4)
    BY <1>5, <1>7, <2>4 DEF g4
  <2> QED
    BY <1>1, <1>7, <2>5
<1>8. CASE ~idle /\ ~alone /\ other
  <2>1. After(cleared)
    BY <1>2, <1>6, <1>8
  <2> HIDE DEF cleared
  <2>2. After(checked)
    <3>1. /\ Kept(l, checked) /\ checked.rows = cleared.rows
          /\ checked.ok => cleared.ok
      BY <2>1, UnwrapKeeps DEF checked
    <3> QED
      BY <2>1, <3>1 DEF HeldOnce, Holders
  <2>3. After(h2)
    BY <1>4, <1>8, <2>2 DEF h2
  <2>4. After(h3)
    BY <2>2, <2>3
  <2> HIDE DEF h3
  <2>5. After(h4)
    BY <1>5, <1>8, <2>4 DEF h4
  <2> QED
    BY <1>1, <1>8, <2>5
<1>9. CASE ~idle /\ ~alone /\ ~other
  <2>1. After(k1)
    BY <1>2, <1>4, <1>9 DEF k1
  <2>2. After(k2)
    BY <1>4, <1>9, <2>1 DEF k2
  <2>3. After(k3)
    BY <1>2, <2>2
  <2> QED
    BY <1>1, <1>9, <2>3
<1>10. CASE idle
  BY <1>1, <1>2, <1>10
<1> QED
  BY <1>7, <1>8, <1>9, <1>10

-----------------------------------------------------------------------------
(* What the lookup returns.                                                *)

LEMMA Returned ==
  ASSUME IInv, NEW l \in Lookups, NEW t, Kept(l, t), Result(t.rows, l) # None
  PROVE  Result(t.rows, l) \in DOMAIN t.rows /\ OnSide(t.rows[Result(t.rows, l)], l)
<1> DEFINE c == Result(t.rows, l)
<1>1. None \notin DOMAIN t.rows
  BY TableFacts DEF Kept
<1>2. /\ c \in DOMAIN t.rows
      /\ \/ l.aci # None /\ t.rows[c].aci = l.aci
         \/ l.pni # None /\ t.rows[c].pni = l.pni
         \/ l.e164 # None /\ t.rows[c].e164 = l.e164
  BY <1>1, Found DEF Result
<1> HIDE DEF c
<1>3. PICK x \in Idents(t.rows[c]) : x \in Idents(l)
  BY <1>2 DEF Idents
<1>4. x \in Self <=> Own(l) # {}
  BY <1>3, LookupFacts DEF OnSide
<1>5. OnSide(t.rows[c], l)
  <2>1. CASE OnSide(t.rows[c], l)
    BY <2>1
  <2>2. CASE c \in DOMAIN rows /\ t.rows[c] = rows[c]
    <3>1. Idents(rows[c]) \subseteq Self \/ Idents(rows[c]) \cap Self = {}
      BY <2>2 DEF IInv, Pure
    <3> QED
      BY <1>3, <1>4, <2>2, <3>1 DEF OnSide
  <2> QED
    BY <1>2, <2>1, <2>2 DEF Kept
<1> QED
  BY <1>2, <1>5 DEF c

LEMMA OnSideWritten ==
  ASSUME NEW l \in Lookups, NEW row \in Row, OnSide(row, l)
  PROVE  /\ OnSide([row EXCEPT !.aci = l.aci], l)
         /\ OnSide([row EXCEPT !.e164 = l.e164], l)
<1>1. OnSide(l, l)
  BY LookupFacts
<1>2. /\ [row EXCEPT !.aci = l.aci].aci = l.aci
      /\ [row EXCEPT !.aci = l.aci].pni = row.pni
      /\ [row EXCEPT !.aci = l.aci].e164 = row.e164
  BY DEF Row
<1>3. /\ [row EXCEPT !.e164 = l.e164].aci = row.aci
      /\ [row EXCEPT !.e164 = l.e164].pni = row.pni
      /\ [row EXCEPT !.e164 = l.e164].e164 = l.e164
  BY DEF Row
<1>4. OnSide([row EXCEPT !.aci = l.aci], l)
  BY <1>1, <1>2 DEF OnSide, Idents
<1>5. OnSide([row EXCEPT !.e164 = l.e164], l)
  BY <1>1, <1>3 DEF OnSide, Idents
<1> QED
  BY <1>4, <1>5

LEMMA Completed ==
  ASSUME IInv, NEW l \in Lookups, NEW t, Kept(l, t), t.ok => HeldOnce(l, t) /\ Settled(l, t)
  PROVE  LET u == Complete(t, l)
         IN  u.ok => Kept(l, u) /\ HeldOnce(l, u)
<1> DEFINE c == Result(t.rows, l)
           missingAci == l.aci # None /\ Find(t.rows, "aci", l.aci) = None
           missingE164 == l.e164 # None /\ Find(t.rows, "e164", l.e164) = None
           missingPni == l.pni # None /\ Find(t.rows, "pni", l.pni) = None
           s1 == SetAci(t, c, l.aci)
           t1 == IF missingAci THEN s1 ELSE t
           s2 == SetE164(t1, c, l.e164)
           t2 == IF missingE164 THEN s2 ELSE t1
           s3 == SetPni(t2, c, l.pni)
           t3 == IF missingPni THEN s3 ELSE t2
           u == Complete(t, l)
<1>1. u = IF c = None THEN [t EXCEPT !.ok = FALSE] ELSE t3
  BY DEF Complete, When
<1>2. CASE c = None
  <2>1. u = [t EXCEPT !.ok = FALSE] /\ t \in Table
    BY <1>1, <1>2 DEF Kept
  <2>2. ~u.ok
    BY <2>1 DEF Table
  <2> QED
    BY <2>2
<1>3. CASE c # None
  <2>1. c \in DOMAIN t.rows /\ OnSide(t.rows[c], l)
    BY <1>3, Returned
  <2>2. missingAci /\ t.ok => t.rows[c].aci = None
    <3>1. missingAci => \A i \in DOMAIN t.rows : t.rows[i].aci # l.aci
      BY Found, TableFacts DEF Kept
    <3> QED
      BY <1>3, <3>1 DEF Settled
  <2>3. missingPni => Holders(l, t) = {}
    BY Found, TableFacts DEF Kept, Holders
  <2>4. /\ l.aci \in Acis \cup {None} /\ l.pni \in Pnis \cup {None}
        /\ l.e164 \in E164s \cup {None} /\ t \in Table
    BY LookupFacts DEF Kept
  <2>5. Writes(t, s1, c, [t.rows[c] EXCEPT !.aci = l.aci])
    BY <2>4, SetAciShape
  <2>6. s1.ok /\ missingAci => t.ok /\ Kept(l, s1)
    <3>1. s1.ok => t.ok
      BY <2>5 DEF Writes
    <3> QED
      BY <2>1, <2>2, <3>1, SetAciKeeps
  <2> HIDE DEF s1, c
  <2>7. /\ t1 \in Table /\ DOMAIN t1.rows = DOMAIN t.rows
        /\ t1.ok => t.ok /\ Kept(l, t1) /\ OnSide(t1.rows[c], l)
        /\ Holders(l, t1) = Holders(l, t)
    <3>1. /\ t.rows[c] \in Row
          /\ [t.rows[c] EXCEPT !.aci = l.aci].pni = t.rows[c].pni
      BY <2>1, <2>4, TableFacts DEF Row
    <3>2. OnSide([t.rows[c] EXCEPT !.aci = l.aci], l)
      BY <2>1, <3>1, OnSideWritten
    <3>3. s1.rows[c].pni = t.rows[c].pni /\ (s1.ok => OnSide(s1.rows[c], l))
      BY <2>1, <2>5, <3>1, <3>2 DEF Writes
    <3>4. Holders(l, s1) = Holders(l, t)
      BY <2>5, <3>3 DEF Writes, Holders
    <3> QED
      BY <2>1, <2>4, <2>5, <2>6, <3>3, <3>4 DEF Writes
  <2> HIDE DEF t1
  <2>8. Writes(t1, s2, c, [t1.rows[c] EXCEPT !.e164 = l.e164])
    BY <2>4, <2>7, SetE164Shape
  <2>9. s2.ok => t1.ok /\ Kept(l, s2)
    <3>1. s2.ok => t1.ok
      BY <2>8 DEF Writes
    <3> QED
      BY <2>7, <3>1, SetE164Keeps
  <2> HIDE DEF s2
  <2>10. /\ t2 \in Table /\ DOMAIN t2.rows = DOMAIN t.rows
         /\ t2.ok => t1.ok /\ Kept(l, t2) /\ OnSide(t2.rows[c], l)
         /\ Holders(l, t2) = Holders(l, t)
    <3>1. /\ t1.rows[c] \in Row
          /\ [t1.rows[c] EXCEPT !.e164 = l.e164].pni = t1.rows[c].pni
      BY <2>1, <2>7, TableFacts DEF Row
    <3>2. t1.ok => OnSide([t1.rows[c] EXCEPT !.e164 = l.e164], l)
      BY <2>7, <3>1, OnSideWritten
    <3>3. s2.rows[c].pni = t1.rows[c].pni /\ (s2.ok => OnSide(s2.rows[c], l))
      BY <2>1, <2>7, <2>8, <3>1, <3>2 DEF Writes
    <3>4. Holders(l, s2) = Holders(l, t1)
      BY <2>8, <3>3 DEF Writes, Holders
    <3> QED
      BY <2>7, <2>8, <2>9, <3>3, <3>4 DEF Writes
  <2> HIDE DEF t2
  <2>11. Writes(t2, s3, c, [t2.rows[c] EXCEPT !.pni = l.pni])
    BY <2>4, <2>10, SetPniShape
  <2>12. s3.ok => t2.ok /\ Kept(l, s3)
    <3>1. s3.ok => t2.ok
      BY <2>11 DEF Writes
    <3> QED
      BY <2>10, <3>1, SetPniKeeps
  <2>13. Holders(l, s3) \subseteq Holders(l, t2) \cup {c}
    BY <2>11 DEF Writes, Holders
  <2> HIDE DEF s3, missingPni, missingE164, missingAci
  <2>14. t3.ok => Kept(l, t3) /\ HeldOnce(l, t3)
    <3>1. CASE missingPni
      <4>1. Holders(l, s3) \subseteq {c}
        BY <2>3, <2>10, <2>13, <3>1
      <4> QED
        BY <2>12, <3>1, <4>1 DEF HeldOnce
    <3>2. CASE ~missingPni
      <4>1. t2.ok => HeldOnce(l, t2)
        BY <2>7, <2>10 DEF HeldOnce
      <4> QED
        BY <2>10, <3>2, <4>1
    <3> QED
      BY <3>1, <3>2
  <2> QED
    BY <1>1, <1>3, <2>14
<1> QED
  BY <1>2, <1>3

-----------------------------------------------------------------------------
(* Every statement of a lookup succeeds, and messages and numbers end up    *)
(* where they belong.  Rows that the lookup's PNI joins are only the user's *)
(* own (AllThree), and rows with an ACI are never merged into others.       *)

MembersThere == \A i \in members : i \in DOMAIN rows /\ rows[i].aci # None
HeldThere == \A m \in Messages : held[m] # None => held[m] \in DOMAIN rows

Running == IInv /\ NeverPanics /\ MembersThere /\ HeldThere

\* A message stays in the conversation of a row that has an ACI.
HeldStays(t) ==
  \A m \in Messages :
    /\ t.held[m] # None => t.held[m] \in DOMAIN t.rows
    /\ held[m] # None => /\ t.held[m] # None
                         /\ rows[held[m]].aci # None => t.held[m] = held[m]

Fine(t) == t \in Table /\ t.ok /\ HeldStays(t)

\* One row at most has the ACI and the number that are looked up.
Joined(l, t) ==
  l.aci # None /\ l.e164 # None =>
    \A i, j \in DOMAIN t.rows : t.rows[i].aci = l.aci /\ t.rows[j].e164 = l.e164 => i = j

\* What the last step of a lookup needs.
Ready(l, t) == Fine(t) /\ Result(t.rows, l) # None /\ (l.certain => Joined(l, t))

\* The rows are those that were there, with their ACIs and numbers.
Moved(t) ==
  /\ Fine(t)
  /\ DOMAIN t.rows = DOMAIN rows
  /\ \A i \in DOMAIN rows : t.rows[i].aci = rows[i].aci /\ t.rows[i].e164 = rows[i].e164

LEMMA PniSet ==
  ASSUME NEW t, Fine(t), NEW x \in DOMAIN t.rows, NEW p \in Pnis \cup {None}
  PROVE  LET u == SetPni(t, x, p)
         IN  /\ Fine(u) /\ DOMAIN u.rows = DOMAIN t.rows
             /\ \A i \in DOMAIN t.rows : i # x => u.rows[i] = t.rows[i]
             /\ \A i \in DOMAIN t.rows :
                  u.rows[i].aci = t.rows[i].aci /\ u.rows[i].e164 = t.rows[i].e164
             /\ u.rows[x].pni = p
<1> DEFINE u == SetPni(t, x, p)
<1>1. t \in Table /\ t.ok /\ t.rows[x] \in Row
  BY TableFacts DEF Fine
<1>2. Writes(t, u, x, [t.rows[x] EXCEPT !.pni = p])
  BY <1>1, SetPniShape
<1>3. u.ok /\ u.held = t.held
  BY <1>1 DEF SetPni, Present, Table
<1> HIDE DEF u
<1>4. /\ u \in Table /\ DOMAIN u.rows = DOMAIN t.rows
      /\ \A i \in DOMAIN t.rows : i # x => u.rows[i] = t.rows[i]
      /\ u.rows[x].pni = p
      /\ u.rows[x].aci = t.rows[x].aci /\ u.rows[x].e164 = t.rows[x].e164
  BY <1>1, <1>2, <1>3 DEF Writes, Row
<1>5. HeldStays(u)
  BY <1>3, <1>4 DEF Fine, HeldStays
<1> QED
  BY <1>3, <1>4, <1>5 DEF Fine, u

LEMMA AciSet ==
  ASSUME NEW t, Fine(t), NEW x \in DOMAIN t.rows, NEW v \in Acis \cup {None},
         \A i \in DOMAIN t.rows : i # x => t.rows[i].aci # v
  PROVE  LET u == SetAci(t, x, v)
         IN  /\ Fine(u) /\ DOMAIN u.rows = DOMAIN t.rows
             /\ \A i \in DOMAIN t.rows : i # x => u.rows[i] = t.rows[i]
             /\ \A i \in DOMAIN t.rows :
                  u.rows[i].pni = t.rows[i].pni /\ u.rows[i].e164 = t.rows[i].e164
             /\ u.rows[x].aci = v
<1> DEFINE u == SetAci(t, x, v)
<1>1. t \in Table /\ t.ok /\ t.rows[x] \in Row
  BY TableFacts DEF Fine
<1>2. Writes(t, u, x, [t.rows[x] EXCEPT !.aci = v])
  BY <1>1, SetAciShape
<1>3. u.ok /\ u.held = t.held
  <2>1. With(t.rows, "aci", v) \ {x} = {}
    BY DEF With
  <2> QED
    BY <1>1, <2>1 DEF SetAci, Present, Table
<1> HIDE DEF u
<1>4. /\ u \in Table /\ DOMAIN u.rows = DOMAIN t.rows
      /\ \A i \in DOMAIN t.rows : i # x => u.rows[i] = t.rows[i]
      /\ u.rows[x].aci = v
      /\ u.rows[x].pni = t.rows[x].pni /\ u.rows[x].e164 = t.rows[x].e164
  BY <1>1, <1>2, <1>3 DEF Writes, Row
<1>5. HeldStays(u)
  BY <1>3, <1>4 DEF Fine, HeldStays
<1> QED
  BY <1>3, <1>4, <1>5 DEF Fine, u

LEMMA NumberSet ==
  ASSUME NEW t, Fine(t), NEW x \in DOMAIN t.rows, NEW v \in E164s \cup {None},
         v # None => \A i \in DOMAIN t.rows : i # x => t.rows[i].e164 # v
  PROVE  LET u == SetE164(t, x, v)
         IN  /\ Fine(u) /\ DOMAIN u.rows = DOMAIN t.rows
             /\ \A i \in DOMAIN t.rows : i # x => u.rows[i] = t.rows[i]
             /\ \A i \in DOMAIN t.rows :
                  u.rows[i].aci = t.rows[i].aci /\ u.rows[i].pni = t.rows[i].pni
             /\ u.rows[x].e164 = v
<1> DEFINE u == SetE164(t, x, v)
<1>1. t \in Table /\ t.ok /\ t.rows[x] \in Row
  BY TableFacts DEF Fine
<1>2. Writes(t, u, x, [t.rows[x] EXCEPT !.e164 = v])
  BY <1>1, SetE164Shape
<1>3. u.ok /\ u.held = t.held
  <2>1. v = None \/ With(t.rows, "e164", v) \ {x} = {}
    BY DEF With
  <2> QED
    BY <1>1, <2>1 DEF SetE164, Present, Table
<1> HIDE DEF u
<1>4. /\ u \in Table /\ DOMAIN u.rows = DOMAIN t.rows
      /\ \A i \in DOMAIN t.rows : i # x => u.rows[i] = t.rows[i]
      /\ u.rows[x].e164 = v
      /\ u.rows[x].aci = t.rows[x].aci /\ u.rows[x].pni = t.rows[x].pni
  BY <1>1, <1>2, <1>3 DEF Writes, Row
<1>5. HeldStays(u)
  BY <1>3, <1>4 DEF Fine, HeldStays
<1> QED
  BY <1>3, <1>4, <1>5 DEF Fine, u

LEMMA RowCreated ==
  ASSUME NEW t, Fine(t), NEW n \in Ids, n \notin DOMAIN t.rows,
         NEW a \in Acis \cup {None}, NEW p \in Pnis \cup {None}, NEW e \in E164s \cup {None},
         a = None \/ With(t.rows, "aci", a) = {},
         e = None \/ With(t.rows, "e164", e) = {}
  PROVE  LET u == Create(t, n, a, p, e)
         IN  /\ Fine(u) /\ DOMAIN u.rows = DOMAIN t.rows \cup {n}
             /\ \A i \in DOMAIN t.rows : u.rows[i] = t.rows[i]
             /\ u.rows[n].aci = a /\ u.rows[n].pni = p /\ u.rows[n].e164 = e
<1> DEFINE u == Create(t, n, a, p, e)
<1>1. t \in Table /\ t.ok
  BY DEF Fine
<1>2. u.ok /\ u.held = t.held
  BY <1>1 DEF Create, Table
<1>3. /\ u \in Table /\ DOMAIN u.rows = DOMAIN t.rows \cup {n}
      /\ \A i \in DOMAIN t.rows : u.rows[i] = t.rows[i]
      /\ u.rows[n] = [aci |-> a, pni |-> p, e164 |-> e]
  BY <1>1, <1>2, CreateShape
<1> HIDE DEF u
<1>4. HeldStays(u)
  BY <1>2, <1>3 DEF Fine, HeldStays
<1>5. u.rows[n].aci = a /\ u.rows[n].pni = p /\ u.rows[n].e164 = e
  BY <1>3
<1> QED
  BY <1>2, <1>3, <1>4, <1>5 DEF Fine, u

\* Row s, which is merged into d, had no ACI when the lookup began.
LEMMA RowMerged ==
  ASSUME NEW t, Fine(t), NEW s \in DOMAIN t.rows, NEW d \in DOMAIN t.rows, s # d,
         s \in DOMAIN rows, rows[s].aci = None
  PROVE  LET u == Merge(t, s, d)
         IN  /\ Fine(u)
             /\ DOMAIN t.rows \ {s} \subseteq DOMAIN u.rows
             /\ DOMAIN u.rows \subseteq DOMAIN t.rows
             /\ \A i \in DOMAIN u.rows : u.rows[i] = t.rows[i]
             /\ t.rows[s].pni # None => DOMAIN u.rows = DOMAIN t.rows
<1> DEFINE u == Merge(t, s, d)
           moved == [m \in Messages |-> IF t.held[m] = s THEN d ELSE t.held[m]]
           left == IF t.rows[s] = [aci |-> None, pni |-> None, e164 |-> None]
                   THEN [i \in DOMAIN t.rows \ {s} |-> t.rows[i]]
                   ELSE t.rows
<1>1. t \in Table /\ t.ok /\ d \in Ids
  BY TableFacts DEF Fine
<1>2. u = [t EXCEPT !.held = moved, !.rows = left]
  BY <1>1 DEF Merge, Present
<1>3. u.ok /\ u.held = moved /\ u.rows = left
  BY <1>1, <1>2 DEF Table
<1>4. /\ DOMAIN t.rows \ {s} \subseteq DOMAIN left /\ DOMAIN left \subseteq DOMAIN t.rows
      /\ \A i \in DOMAIN left : left[i] = t.rows[i]
      /\ t.rows[s].pni # None => DOMAIN left = DOMAIN t.rows
  OBVIOUS
<1>5. u \in Table
  BY <1>1, MergeShape
<1> HIDE DEF u, left
<1>6. HeldStays(u)
  BY <1>1, <1>3, <1>4, TableFacts DEF Fine, HeldStays
<1> QED
  BY <1>3, <1>4, <1>5, <1>6 DEF Fine, u

LEMMA StartFine ==
  ASSUME Running
  PROVE  Moved(Start) /\ Start.rows = rows
<1>1. Start \in Table /\ Start.rows = rows /\ Start.ok /\ Start.held = held
  BY DEF Running, IInv, TypeOK, Start, Table
<1> HIDE DEF Start
<1>2. HeldStays(Start)
  BY <1>1 DEF Running, HeldThere, HeldStays
<1> QED
  BY <1>1, <1>2 DEF Moved, Fine

LEMMA ResultExists ==
  ASSUME NEW t \in Table, NEW l, NEW i \in DOMAIN t.rows,
         \/ l.aci # None /\ t.rows[i].aci = l.aci
         \/ l.pni # None /\ t.rows[i].pni = l.pni
         \/ l.e164 # None /\ t.rows[i].e164 = l.e164
  PROVE  Result(t.rows, l) # None
<1>1. None \notin DOMAIN t.rows
  BY TableFacts
<1> QED
  BY <1>1, Found DEF Result

\* After the blocks for one row or none.
LEMMA FirstBlocksFine ==
  ASSUME Running, NEW l \in Lookups, NEW n \in Ids \ DOMAIN rows, NEW c, Matches(l) \subseteq {c}
  PROVE  Ready(l, UpdateCommon(CreateNew(Start, l, n), l, n))
<1> DEFINE u == UpdateCommon(CreateNew(Start, l, n), l, n)
<1>1. IInv /\ Fine(Start) /\ Start.rows = rows /\ n \in Ids /\ n \notin DOMAIN rows
  BY StartFine DEF Running, Moved
<1>2. /\ l.aci \in Acis \cup {None} /\ l.pni \in Pnis \cup {None}
      /\ l.e164 \in E164s \cup {None}
      /\ l.aci # None \/ l.pni # None \/ l.e164 # None
  BY LookupFacts DEF Lookups, Named
<1> HIDE DEF Start
<1>3. CASE Matches(l) = {}
  <2> DEFINE e == IF l.certain \/ l.aci = None THEN l.e164 ELSE None
             v == Create(Start, n, l.aci, l.pni, e)
  <2>1. u = v
    BY <1>3, OneMatch DEF UpdateCommon, CreateNew, When
  <2>2. \A i \in DOMAIN rows :
          /\ l.aci # None => rows[i].aci # l.aci
          /\ l.pni # None => rows[i].pni # l.pni
          /\ l.e164 # None => rows[i].e164 # l.e164
    BY <1>1, <1>3, MatchFacts DEF Matches
  <2>3. /\ Fine(v) /\ DOMAIN v.rows = DOMAIN rows \cup {n}
        /\ \A i \in DOMAIN rows : v.rows[i] = rows[i]
        /\ v.rows[n].aci = l.aci /\ v.rows[n].pni = l.pni /\ v.rows[n].e164 = e
    <3>1. e \in E164s \cup {None} /\ (e # None => e = l.e164)
      BY <1>2
    <3> HIDE DEF e
    <3>2. /\ l.aci = None \/ With(Start.rows, "aci", l.aci) = {}
          /\ e = None \/ With(Start.rows, "e164", e) = {}
      BY <1>1, <2>2, <3>1 DEF With
    <3>3. Fine(Start) /\ n \in Ids /\ n \notin DOMAIN Start.rows
      BY <1>1
    <3>4. l.aci \in Acis \cup {None} /\ l.pni \in Pnis \cup {None} /\ e \in E164s \cup {None}
      BY <1>2, <3>1
    <3>5. /\ Fine(v) /\ DOMAIN v.rows = DOMAIN Start.rows \cup {n}
          /\ \A i \in DOMAIN Start.rows : v.rows[i] = Start.rows[i]
          /\ v.rows[n].aci = l.aci /\ v.rows[n].pni = l.pni /\ v.rows[n].e164 = e
      BY <3>2, <3>3, <3>4, RowCreated
    <3> QED
      BY <1>1, <3>5
  <2> HIDE DEF v, u
  <2>4. Result(v.rows, l) # None
    <3>1. v \in Table /\ n \in DOMAIN v.rows
      BY <2>3 DEF Fine
    <3>2. l.aci = None => v.rows[n].e164 = l.e164
      BY <2>3
    <3> QED
      BY <1>2, <2>3, <3>1, <3>2, ResultExists
  <2>5. Joined(l, v)
    BY <2>2, <2>3 DEF Joined
  <2>6. Ready(l, v)
    BY <2>3, <2>4, <2>5 DEF Ready
  <2> QED
    BY <2>1, <2>6 DEF u
<1>4. CASE Matches(l) = {c}
  <2> DEFINE splits == l.aci # None /\ rows[c].aci # None /\ l.aci # rows[c].aci
  <2>1. CreateNew(Start, l, n) = Start
    BY <1>4 DEF CreateNew, When
  <2>2. u = IF splits THEN SplitCommon(Start, l, n, c) ELSE AmendCommon(Start, l, c)
    BY <1>4, <2>1, OneMatch DEF UpdateCommon
  <2>3. /\ c \in DOMAIN rows
        /\ \/ l.aci # None /\ rows[c].aci = l.aci
           \/ l.pni # None /\ rows[c].pni = l.pni
           \/ l.e164 # None /\ rows[c].e164 = l.e164
    BY <1>1, <1>4, MatchFacts DEF Matches
  <2>4. \A i \in DOMAIN rows : i # c =>
          /\ l.aci # None => rows[i].aci # l.aci
          /\ l.pni # None => rows[i].pni # l.pni
          /\ l.e164 # None => rows[i].e164 # l.e164
    BY <1>1, <1>4, OthersDiffer
  <2>5. CASE splits
    <3> DEFINE stolen == l.e164 # None /\ l.e164 = rows[c].e164
               lostPni == stolen \/ (l.pni # None /\ l.pni = rows[c].pni)
               s1 == SetE164(Start, c, None)
               t1 == IF stolen THEN s1 ELSE Start
               s2 == SetPni(t1, c, None)
               t2 == IF lostPni THEN s2 ELSE t1
               v == Create(t2, n, None, l.pni, l.e164)
    <3>1. SplitCommon(Start, l, n, c) = v
      BY DEF SplitCommon, When
    <3>2. /\ Fine(s1) /\ DOMAIN s1.rows = DOMAIN rows
          /\ \A i \in DOMAIN rows : i # c => s1.rows[i] = rows[i]
          /\ s1.rows[c].aci = rows[c].aci /\ s1.rows[c].e164 = None
      BY <1>1, <2>3, NumberSet
    <3> HIDE DEF s1
    <3>3. /\ Fine(t1) /\ DOMAIN t1.rows = DOMAIN rows
          /\ \A i \in DOMAIN rows : i # c => t1.rows[i] = rows[i]
          /\ t1.rows[c].aci = rows[c].aci
          /\ l.e164 # None => t1.rows[c].e164 # l.e164
      BY <1>1, <3>2
    <3> HIDE DEF t1
    <3>4. /\ Fine(s2) /\ DOMAIN s2.rows = DOMAIN rows
          /\ \A i \in DOMAIN rows : i # c => s2.rows[i] = rows[i]
          /\ s2.rows[c].aci = rows[c].aci
          /\ l.e164 # None => s2.rows[c].e164 # l.e164
      BY <2>3, <3>3, PniSet
    <3> HIDE DEF s2
    <3>5. /\ Fine(t2) /\ DOMAIN t2.rows = DOMAIN rows
          /\ \A i \in DOMAIN rows : l.aci # None => t2.rows[i].aci # l.aci
          /\ \A i \in DOMAIN rows : l.e164 # None => t2.rows[i].e164 # l.e164
      BY <2>4, <2>5, <3>3, <3>4
    <3> HIDE DEF t2
    <3>6. /\ Fine(v) /\ DOMAIN v.rows = DOMAIN rows \cup {n}
          /\ \A i \in DOMAIN rows : v.rows[i] = t2.rows[i]
          /\ v.rows[n].aci = None /\ v.rows[n].pni = l.pni /\ v.rows[n].e164 = l.e164
      <4>1. n \notin DOMAIN t2.rows
        BY <1>1, <3>5
      <4>2. l.e164 = None \/ With(t2.rows, "e164", l.e164) = {}
        BY <3>5 DEF With
      <4> QED
        BY <1>1, <1>2, <3>5, <4>1, <4>2, RowCreated
    <3> HIDE DEF v
    <3>7. Result(v.rows, l) # None
      BY <2>3, <2>5, <3>6, ResultExists DEF Fine
    <3>8. Joined(l, v)
      BY <3>5, <3>6 DEF Joined
    <3>9. Ready(l, v)
      BY <3>6, <3>7, <3>8 DEF Ready
    <3> QED
      BY <2>2, <2>5, <3>1, <3>9
  <2>6. CASE ~splits
    <3> DEFINE s1 == SetE164(Start, c, l.e164)
               t1 == IF l.e164 # None /\ l.e164 # rows[c].e164 /\ l.certain THEN s1 ELSE Start
               s2 == SetPni(t1, c, l.pni)
               t2 == IF l.pni # None /\ l.pni # rows[c].pni THEN s2 ELSE t1
               s3 == SetAci(t2, c, l.aci)
               v == IF l.aci # None /\ rows[c].aci = None THEN s3 ELSE t2
    <3>1. AmendCommon(Start, l, c) = v
      BY DEF AmendCommon, When
    <3>2. l.e164 # None =>
            /\ Fine(s1) /\ DOMAIN s1.rows = DOMAIN rows
            /\ \A i \in DOMAIN rows : i # c => s1.rows[i] = rows[i]
            /\ s1.rows[c].aci = rows[c].aci /\ s1.rows[c].pni = rows[c].pni
            /\ s1.rows[c].e164 = l.e164
      BY <1>1, <1>2, <2>3, <2>4, NumberSet
    <3> HIDE DEF s1
    <3>3. /\ Fine(t1) /\ DOMAIN t1.rows = DOMAIN rows
          /\ \A i \in DOMAIN rows : i # c => t1.rows[i] = rows[i]
          /\ t1.rows[c].aci = rows[c].aci /\ t1.rows[c].pni = rows[c].pni
          /\ t1.rows[c].e164 \in {rows[c].e164, l.e164}
      BY <1>1, <3>2
    <3> HIDE DEF t1
    <3>4. /\ Fine(s2) /\ DOMAIN s2.rows = DOMAIN rows
          /\ \A i \in DOMAIN rows : i # c => s2.rows[i] = rows[i]
          /\ s2.rows[c].aci = rows[c].aci /\ s2.rows[c].pni = l.pni
          /\ s2.rows[c].e164 \in {rows[c].e164, l.e164}
      BY <1>2, <2>3, <3>3, PniSet
    <3> HIDE DEF s2
    <3>5. /\ Fine(t2) /\ DOMAIN t2.rows = DOMAIN rows
          /\ \A i \in DOMAIN rows : i # c => t2.rows[i] = rows[i]
          /\ t2.rows[c].aci = rows[c].aci /\ t2.rows[c].pni \in {rows[c].pni, l.pni}
          /\ t2.rows[c].e164 \in {rows[c].e164, l.e164}
      BY <3>3, <3>4
    <3> HIDE DEF t2
    <3>6. l.aci # None =>
            /\ Fine(s3) /\ DOMAIN s3.rows = DOMAIN rows
            /\ \A i \in DOMAIN rows : i # c => s3.rows[i] = rows[i]
            /\ s3.rows[c].aci = l.aci /\ s3.rows[c].pni \in {rows[c].pni, l.pni}
            /\ s3.rows[c].e164 \in {rows[c].e164, l.e164}
      BY <1>2, <2>3, <2>4, <3>5, AciSet
    <3> HIDE DEF s3
    <3>7. /\ Fine(v) /\ DOMAIN v.rows = DOMAIN rows
          /\ \A i \in DOMAIN rows : i # c => v.rows[i] = rows[i]
          /\ v.rows[c].aci \in {rows[c].aci, l.aci} /\ v.rows[c].pni \in {rows[c].pni, l.pni}
          /\ v.rows[c].e164 \in {rows[c].e164, l.e164}
      BY <3>5, <3>6
    <3> HIDE DEF v
    <3>8. Result(v.rows, l) # None
      BY <2>3, <3>7, ResultExists DEF Fine
    <3>9. Joined(l, v)
      BY <2>4, <3>7 DEF Joined
    <3>10. Ready(l, v)
      BY <3>7, <3>8, <3>9 DEF Ready
    <3> QED
      BY <2>2, <2>6, <3>1, <3>10
  <2> QED
    BY <2>5, <2>6
<1> QED
  BY <1>3, <1>4

\* Of the rows that the user's own lookup finds, each has only what it was found by.
LEMMA OwnMatches ==
  ASSUME IInv, NEW l \in Lookups, l.aci # None, l.pni # None, l.e164 # None,
         NEW x \in Matches(l)
  PROVE  /\ x # ByAci(l) => rows[x].aci = None
         /\ x # ByPni(l) => rows[x].pni = None
         /\ x # ByE164(l) => rows[x].e164 = None
<1>1. x \in DOMAIN rows /\ OnSide(rows[x], l) /\ rows[x] \in Row
  BY MatchFacts
<1>2. rows[x].aci \in {None, l.aci} /\ rows[x].e164 \in {None, l.e164} /\ rows[x].pni \in {None, l.pni}
  BY <1>1, OwnRow
<1>3. x # ByAci(l) => rows[x].aci # l.aci
  BY <1>1, MatchFacts DEF IInv, AciUnique
<1>4. x # ByPni(l) => rows[x].pni # l.pni
  BY <1>1, MatchFacts DEF IInv, PniUnique
<1>5. x # ByE164(l) => rows[x].e164 # l.e164
  BY <1>1, MatchFacts DEF IInv, E164Unique
<1> QED
  BY <1>2, <1>3, <1>4, <1>5

LEMMA PniMoved ==
  ASSUME NEW t, Moved(t), NEW x \in DOMAIN rows, NEW p \in Pnis \cup {None}
  PROVE  LET u == SetPni(t, x, p)
         IN  /\ Moved(u)
             /\ \A i \in DOMAIN rows : i # x => u.rows[i] = t.rows[i]
             /\ u.rows[x].pni = p
<1>1. Fine(t) /\ x \in DOMAIN t.rows
  BY DEF Moved
<1> DEFINE u == SetPni(t, x, p)
<1>2. /\ Fine(u) /\ DOMAIN u.rows = DOMAIN t.rows
      /\ \A i \in DOMAIN t.rows : i # x => u.rows[i] = t.rows[i]
      /\ \A i \in DOMAIN t.rows :
           u.rows[i].aci = t.rows[i].aci /\ u.rows[i].e164 = t.rows[i].e164
      /\ u.rows[x].pni = p
  BY <1>1, PniSet
<1> HIDE DEF u
<1>3. Moved(u)
  BY <1>2 DEF Moved
<1> QED
  BY <1>2, <1>3 DEF Moved, u

\* A row that still has a PNI is not dropped.
LEMMA MergeMoved ==
  ASSUME NEW t, Moved(t), NEW s \in DOMAIN rows, NEW d \in DOMAIN rows, s # d,
         rows[s].aci = None, t.rows[s].pni # None
  PROVE  LET u == Merge(t, s, d)
         IN  Moved(u) /\ \A i \in DOMAIN rows : u.rows[i] = t.rows[i]
<1> DEFINE u == Merge(t, s, d)
<1>1. Fine(t) /\ s \in DOMAIN t.rows /\ d \in DOMAIN t.rows
  BY DEF Moved
<1>2. /\ Fine(u) /\ DOMAIN u.rows = DOMAIN t.rows
      /\ \A i \in DOMAIN u.rows : u.rows[i] = t.rows[i]
  BY <1>1, RowMerged
<1> HIDE DEF u
<1>3. Moved(u)
  BY <1>2 DEF Moved
<1> QED
  BY <1>2, <1>3 DEF Moved, u

LEMMA PniIntoE164Fine ==
  ASSUME Running, NEW l \in Lookups
  PROVE  LET u == MergePniIntoE164(Start, l)
         IN  /\ Moved(u)
             /\ ByAci(l) # None /\ ByPni(l) # None /\ ByAci(l) # ByPni(l)
                  => u.rows[ByPni(l)].pni = l.pni
<1> DEFINE a == ByAci(l)
           e == ByE164(l)
           p == ByPni(l)
           idle == e = None \/ p = None \/ e = p
           alone == rows[p].aci = None /\ rows[p].e164 = None
           m1 == SetPni(Start, e, None)
           m2 == Merge(m1, p, e)
           s1 == SetPni(Start, p, None)
           s2 == SetPni(s1, e, l.pni)
           u == MergePniIntoE164(Start, l)
<1>1. u = IF idle THEN Start ELSE IF alone THEN m2 ELSE s2
  BY DEF MergePniIntoE164
<1>2. IInv /\ Moved(Start) /\ Start.rows = rows /\ l.pni \in Pnis \cup {None}
  BY StartFine, LookupFacts DEF Running
<1>3. p # None => p \in DOMAIN rows /\ rows[p].pni = l.pni /\ l.pni # None
  BY <1>2, MatchFacts
<1>4. e # None => e \in DOMAIN rows /\ l.e164 # None /\ e \in Matches(l)
  BY <1>2, MatchFacts DEF Matches
<1> HIDE DEF Start
<1>5. CASE idle
  <2>1. u = Start
    BY <1>1, <1>5
  <2> HIDE DEF u
  <2>2. Moved(u) /\ (p # None => u.rows[p].pni = l.pni)
    BY <1>2, <1>3, <2>1
  <2> QED
    BY <2>2 DEF u
<1>6. CASE ~idle /\ alone
  <2>1. Moved(m1) /\ m1.rows[p].pni = l.pni
    <3>1. Moved(m1) /\ \A i \in DOMAIN rows : i # e => m1.rows[i] = Start.rows[i]
      BY <1>2, <1>4, <1>6, PniMoved
    <3> QED
      BY <1>2, <1>3, <1>6, <3>1
  <2> HIDE DEF m1
  <2>2. Moved(m2) /\ \A i \in DOMAIN rows : m2.rows[i] = m1.rows[i]
    BY <1>3, <1>4, <1>6, <2>1, MergeMoved
  <2> HIDE DEF m2
  <2>3. u = m2
    BY <1>1, <1>6
  <2> HIDE DEF u
  <2>4. Moved(u) /\ u.rows[p].pni = l.pni
    BY <1>3, <1>6, <2>1, <2>2, <2>3
  <2> QED
    BY <2>4 DEF u
<1>7. CASE ~idle /\ ~alone
  <2>1. Moved(s1)
    BY <1>2, <1>3, <1>7, PniMoved
  <2> HIDE DEF s1
  <2>2. Moved(s2)
    BY <1>2, <1>4, <1>7, <2>1, PniMoved
  <2> HIDE DEF s2
  <2>3. ~(a # None /\ a # p)
    <3> SUFFICES ASSUME a # None, a # p
                 PROVE  FALSE
      OBVIOUS
    <3>1. l.aci # None /\ l.pni # None /\ l.e164 # None /\ p \in Matches(l)
      BY <1>2, <1>3, <1>4, <1>7, MatchFacts DEF Matches
    <3> QED
      BY <1>2, <1>7, <3>1, OwnMatches
  <2>4. u = s2
    BY <1>1, <1>7
  <2> HIDE DEF u
  <2>5. Moved(u)
    BY <2>2, <2>4
  <2> QED
    BY <2>3, <2>5 DEF u
<1> QED
  BY <1>5, <1>6, <1>7

LEMMA PniIntoAciFine ==
  ASSUME Running, NEW l \in Lookups, NEW t, Moved(t),
         ByAci(l) # None /\ ByPni(l) # None /\ ByAci(l) # ByPni(l)
           => t.rows[ByPni(l)].pni = l.pni
  PROVE  Moved(MergePniIntoAci(t, l))
<1> DEFINE a == ByAci(l)
           p == ByPni(l)
           idle == a = None \/ p = None \/ a = p
           alone == rows[p].aci = None /\ rows[p].e164 = None
           same == rows[p].aci = None /\ (l.e164 = None \/ rows[p].e164 = l.e164)
           number == IF rows[p].e164 # None THEN rows[p].e164 ELSE l.e164
           cleared == SetPni(t, a, None)
           m1 == IF rows[a].pni # None THEN cleared ELSE t
           m2 == Merge(m1, p, a)
           n1 == SetE164(cleared, a, None)
           n2 == IF number # None /\ rows[a].e164 = None THEN n1 ELSE cleared
           n3 == Merge(n2, p, a)
           s1 == SetPni(t, p, None)
           swapped == SetPni(s1, a, l.pni)
           f1 == SetE164(swapped, p, None)
           freed == IF rows[p].e164 = l.e164 THEN f1 ELSE swapped
           s2 == SetE164(freed, a, l.e164)
           s3 == IF l.e164 # None /\ rows[a].e164 # l.e164 THEN s2 ELSE swapped
           u == MergePniIntoAci(t, l)
<1>1. u = IF idle THEN t ELSE IF alone THEN m2 ELSE IF same THEN n3 ELSE s3
  BY DEF MergePniIntoAci, When
<1>2. IInv /\ l.pni \in Pnis \cup {None}
  BY LookupFacts DEF Running
<1>3. ASSUME ~idle
      PROVE  /\ a \in DOMAIN rows /\ p \in DOMAIN rows /\ a # p
             /\ l.aci # None /\ l.pni # None /\ p \in Matches(l)
             /\ t.rows[p].pni = l.pni
  BY <1>2, <1>3, MatchFacts DEF Matches
<1>4. ASSUME ~idle
      PROVE  Moved(cleared) /\ cleared.rows[p].pni = l.pni
  <2>1. Moved(cleared) /\ \A i \in DOMAIN rows : i # a => cleared.rows[i] = t.rows[i]
    BY <1>3, <1>4, PniMoved
  <2> QED
    BY <1>3, <1>4, <2>1
<1> HIDE DEF cleared
<1>5. CASE idle
  BY <1>1, <1>5
<1>6. CASE ~idle /\ alone
  <2>1. Moved(m1) /\ m1.rows[p].pni = l.pni
    BY <1>3, <1>4, <1>6
  <2> HIDE DEF m1
  <2>2. Moved(m2)
    BY <1>3, <1>6, <2>1, MergeMoved
  <2> QED
    BY <1>1, <1>6, <2>2
<1>7. CASE ~idle /\ ~alone /\ same
  <2>1. rows[a].e164 = None => Moved(n1) /\ n1.rows[p].pni = l.pni
    <3> SUFFICES ASSUME rows[a].e164 = None
                 PROVE  Moved(n1) /\ n1.rows[p].pni = l.pni
      OBVIOUS
    <3>1. Fine(cleared) /\ a \in DOMAIN cleared.rows
      BY <1>3, <1>4, <1>7 DEF Moved
    <3>2. /\ Fine(n1) /\ DOMAIN n1.rows = DOMAIN cleared.rows
          /\ \A i \in DOMAIN cleared.rows : i # a => n1.rows[i] = cleared.rows[i]
          /\ \A i \in DOMAIN cleared.rows :
               n1.rows[i].aci = cleared.rows[i].aci /\ n1.rows[i].pni = cleared.rows[i].pni
          /\ n1.rows[a].e164 = None
      BY <3>1, NumberSet
    <3> HIDE DEF n1
    <3> QED
      BY <1>3, <1>4, <1>7, <3>2 DEF Moved
  <2>2. Moved(n2) /\ n2.rows[p].pni = l.pni
    BY <1>4, <1>7, <2>1
  <2> HIDE DEF n2
  <2>3. Moved(n3)
    BY <1>3, <1>7, <2>2, MergeMoved
  <2> QED
    BY <1>1, <1>7, <2>3
<1>8. CASE ~idle /\ ~alone /\ ~same
  <2>1. l.e164 = None
    <3> SUFFICES ASSUME l.e164 # None
                 PROVE  FALSE
      OBVIOUS
    <3>1. /\ rows[p].aci = None
          /\ p # ByE164(l) => rows[p].e164 = None
      BY <1>2, <1>3, <1>8, OwnMatches
    <3>2. p = ByE164(l) => rows[p].e164 = l.e164
      BY <1>2, <1>8, MatchFacts
    <3> QED
      BY <1>8, <3>1, <3>2
  <2>2. Moved(s1)
    BY <1>3, <1>8, PniMoved
  <2> HIDE DEF s1
  <2>3. Moved(swapped)
    BY <1>2, <1>3, <1>8, <2>2, PniMoved
  <2> QED
    BY <1>1, <1>8, <2>1, <2>3
<1> QED
  BY <1>5, <1>6, <1>7, <1>8

\* The number goes to the ACI's row: the row that had it is the only one.
LEMMA E164IntoAciFine ==
  ASSUME Running, NEW l \in Lookups, NEW t, Moved(t), ByAci(l) # None
  PROVE  Ready(l, MergeE164IntoAci(t, l))
<1> DEFINE a == ByAci(l)
           e == ByE164(l)
           idle == e = None \/ a = e
           alone == rows[e].aci = None /\ rows[e].pni = None
           other == l.pni # None /\ rows[e].pni # l.pni
           g1 == SetE164(t, a, None)
           emptied == IF rows[a].e164 # None THEN g1 ELSE t
           g2 == SetE164(emptied, e, None)
           g3 == SetE164(g2, a, l.e164)
           g4 == Merge(g3, e, a)
           k1 == SetE164(t, e, None)
           k2 == SetE164(k1, a, l.e164)
           u == MergeE164IntoAci(t, l)
<1>1. ~idle => /\ alone => u = g4
               /\ ~alone /\ ~other => u = IF l.certain THEN k2 ELSE t
  BY DEF MergeE164IntoAci, When
<1>2. idle => u = t
  BY DEF MergeE164IntoAci
<1>3. /\ IInv /\ l.e164 \in E164s \cup {None} /\ None \notin DOMAIN rows
      /\ a \in DOMAIN rows /\ rows[a].aci = l.aci /\ l.aci # None
      /\ \A i \in DOMAIN rows : rows[i].aci = l.aci => i = a
      /\ l.e164 # None => \A i \in DOMAIN rows : rows[i].e164 = l.e164 => i = e
  <2>1. IInv
    BY DEF Running
  <2>2. a \in DOMAIN rows /\ rows[a].aci = l.aci /\ l.aci # None
    BY <2>1, MatchFacts
  <2>3. \A i \in DOMAIN rows : rows[i].aci = l.aci => i = a
    BY <2>1, <2>2 DEF IInv, AciUnique
  <2>4. l.e164 # None => \A i \in DOMAIN rows : rows[i].e164 = l.e164 => i = e
    BY <2>1, MatchFacts DEF IInv, E164Unique
  <2> QED
    BY <2>1, <2>2, <2>3, <2>4, LookupFacts, MatchFacts
<1>4. e # None => e \in DOMAIN rows /\ rows[e].e164 = l.e164 /\ l.e164 # None /\ e \in Matches(l)
  BY <1>3, MatchFacts DEF Matches
<1>5. /\ Fine(t) /\ DOMAIN t.rows = DOMAIN rows
      /\ \A i \in DOMAIN rows : t.rows[i].aci = rows[i].aci /\ t.rows[i].e164 = rows[i].e164
  BY DEF Moved
<1>6. ASSUME NEW v, Fine(v), a \in DOMAIN v.rows, v.rows[a].aci = l.aci, l.certain => Joined(l, v)
      PROVE  Ready(l, v)
  <2>1. Result(v.rows, l) # None
    BY <1>3, <1>6, ResultExists DEF Fine
  <2> QED
    BY <1>6, <2>1 DEF Ready
<1> HIDE DEF u
\* Nothing happens: nobody else has the number, or the row has both.
<1>7. CASE idle
  <2>1. Joined(l, t)
    BY <1>3, <1>5, <1>7 DEF Joined
  <2> QED
    BY <1>2, <1>3, <1>5, <1>6, <1>7, <2>1 DEF u
<1>8. ASSUME NEW v, Fine(v), NEW w,
             DOMAIN v.rows = DOMAIN rows, DOMAIN w.rows \subseteq DOMAIN rows,
             \A i \in DOMAIN w.rows : w.rows[i] = v.rows[i],
             \A i \in DOMAIN rows : v.rows[i].aci = rows[i].aci,
             \A i \in DOMAIN rows : i # a => v.rows[i].e164 # l.e164
      PROVE  Joined(l, w)
  BY <1>3, <1>8 DEF Joined
\* The number alone is merged with its row.
<1>9. CASE ~idle /\ alone
  <2>1. /\ Fine(g1) /\ DOMAIN g1.rows = DOMAIN rows
        /\ \A i \in DOMAIN rows : i # a => g1.rows[i] = t.rows[i]
        /\ \A i \in DOMAIN rows : g1.rows[i].aci = rows[i].aci
    BY <1>3, <1>5, NumberSet
  <2> HIDE DEF g1
  <2>2. /\ Fine(emptied) /\ DOMAIN emptied.rows = DOMAIN rows
        /\ \A i \in DOMAIN rows : i # a => emptied.rows[i] = t.rows[i]
        /\ \A i \in DOMAIN rows : emptied.rows[i].aci = rows[i].aci
    BY <1>5, <2>1
  <2> HIDE DEF emptied
  <2>3. /\ Fine(g2) /\ DOMAIN g2.rows = DOMAIN rows
        /\ \A i \in DOMAIN rows : i # e => g2.rows[i] = emptied.rows[i]
        /\ \A i \in DOMAIN rows : g2.rows[i].aci = rows[i].aci
        /\ g2.rows[e].e164 = None
    BY <1>4, <1>9, <2>2, NumberSet
  <2> HIDE DEF g2
  <2>4. \A i \in DOMAIN rows : i # a => g2.rows[i].e164 # l.e164
    BY <1>3, <1>4, <1>5, <1>9, <2>2, <2>3
  <2>5. /\ Fine(g3) /\ DOMAIN g3.rows = DOMAIN rows
        /\ \A i \in DOMAIN rows : i # a => g3.rows[i] = g2.rows[i]
        /\ \A i \in DOMAIN rows : g3.rows[i].aci = rows[i].aci
    BY <1>3, <2>3, <2>4, NumberSet
  <2> HIDE DEF g3
  <2>6. /\ Fine(g4)
        /\ DOMAIN rows \ {e} \subseteq DOMAIN g4.rows /\ DOMAIN g4.rows \subseteq DOMAIN rows
        /\ \A i \in DOMAIN g4.rows : g4.rows[i] = g3.rows[i]
    BY <1>3, <1>4, <1>9, <2>5, RowMerged
  <2> HIDE DEF g4
  <2>7. \A i \in DOMAIN rows : i # a => g3.rows[i].e164 # l.e164
    BY <2>4, <2>5
  <2>8. Joined(l, g4)
    BY <1>8, <2>5, <2>6, <2>7
  <2>9. a \in DOMAIN g4.rows /\ g4.rows[a].aci = l.aci
    BY <1>3, <1>9, <2>5, <2>6
  <2> QED
    BY <1>1, <1>6, <1>9, <2>6, <2>8, <2>9 DEF u
\* The number's row has another identifier, which it keeps.
<1>10. CASE ~idle /\ ~alone
  <2>1. ~other
    <3> SUFFICES ASSUME other
                 PROVE  FALSE
      OBVIOUS
    <3>1. rows[e].aci = None /\ (e # ByPni(l) => rows[e].pni = None)
      BY <1>3, <1>4, <1>10, OwnMatches
    <3>2. e = ByPni(l) => rows[e].pni = l.pni
      BY <1>3, <1>10, MatchFacts
    <3> QED
      BY <1>10, <3>1, <3>2
  <2>2. ~l.certain => Ready(l, t)
    BY <1>3, <1>5, <1>6
  <2>3. /\ Fine(k1) /\ DOMAIN k1.rows = DOMAIN rows
        /\ \A i \in DOMAIN rows : i # e => k1.rows[i] = t.rows[i]
        /\ \A i \in DOMAIN rows : k1.rows[i].aci = rows[i].aci
        /\ k1.rows[e].e164 = None
    BY <1>4, <1>5, <1>10, NumberSet
  <2> HIDE DEF k1
  <2>4. \A i \in DOMAIN rows : i # a => k1.rows[i].e164 # l.e164
    BY <1>3, <1>4, <1>5, <1>10, <2>3
  <2>5. /\ Fine(k2) /\ DOMAIN k2.rows = DOMAIN rows
        /\ \A i \in DOMAIN rows : i # a => k2.rows[i] = k1.rows[i]
        /\ \A i \in DOMAIN rows : k2.rows[i].aci = rows[i].aci
    BY <1>3, <2>3, <2>4, NumberSet
  <2> HIDE DEF k2
  <2>6. \A i \in DOMAIN rows : i # a => k2.rows[i].e164 # l.e164
    BY <2>4, <2>5
  <2>7. Joined(l, k2)
    BY <1>8, <2>5, <2>6
  <2>8. Ready(l, k2)
    BY <1>3, <1>6, <2>5, <2>7
  <2> QED
    BY <1>1, <1>10, <2>1, <2>2, <2>8 DEF u
<1> QED
  BY <1>7, <1>9, <1>10

\* The last step succeeds, and leaves the ACI and the number in one row.
LEMMA CompletedFine ==
  ASSUME NEW l \in Lookups, NEW t, Ready(l, t)
  PROVE  LET u == Complete(t, l)
         IN  /\ Fine(u)
             /\ l.certain /\ l.aci # None /\ l.e164 # None =>
                  \E i \in DOMAIN u.rows : u.rows[i].aci = l.aci /\ u.rows[i].e164 = l.e164
<1> DEFINE c == Result(t.rows, l)
           missingAci == l.aci # None /\ Find(t.rows, "aci", l.aci) = None
           missingE164 == l.e164 # None /\ Find(t.rows, "e164", l.e164) = None
           missingPni == l.pni # None /\ Find(t.rows, "pni", l.pni) = None
           s1 == SetAci(t, c, l.aci)
           t1 == IF missingAci THEN s1 ELSE t
           s2 == SetE164(t1, c, l.e164)
           t2 == IF missingE164 THEN s2 ELSE t1
           s3 == SetPni(t2, c, l.pni)
           t3 == IF missingPni THEN s3 ELSE t2
           u == Complete(t, l)
           both == l.certain /\ l.aci # None /\ l.e164 # None
<1>1. Fine(t) /\ t \in Table /\ c # None /\ None \notin DOMAIN t.rows
  BY TableFacts DEF Ready, Fine
<1>2. u = t3
  BY <1>1 DEF Complete, When
<1>3. c \in DOMAIN t.rows
  BY <1>1, Found DEF Result
<1>4. /\ missingAci => \A i \in DOMAIN t.rows : t.rows[i].aci # l.aci
      /\ missingE164 => \A i \in DOMAIN t.rows : t.rows[i].e164 # l.e164
  BY <1>1, Found
\* The row returned has the ACI, or else the number, if any row does.
<1>5. both => /\ missingAci \/ t.rows[c].aci = l.aci
              /\ missingE164 \/ t.rows[c].e164 = l.e164
  <2> SUFFICES ASSUME both
               PROVE  /\ missingAci \/ t.rows[c].aci = l.aci
                      /\ missingE164 \/ t.rows[c].e164 = l.e164
    OBVIOUS
  <2> DEFINE a == Find(t.rows, "aci", l.aci)
             e == Find(t.rows, "e164", l.e164)
  <2>1. /\ a # None => a \in DOMAIN t.rows /\ t.rows[a].aci = l.aci
        /\ e # None => e \in DOMAIN t.rows /\ t.rows[e].e164 = l.e164
    BY <1>1, Found
  <2>2. a # None /\ e # None => a = e
    BY <2>1 DEF Ready, Joined
  <2>3. c = IF a # None THEN a ELSE IF e # None THEN e ELSE Find(t.rows, "pni", l.pni)
    BY DEF Result
  <2> HIDE DEF a, e, c
  <2>4. (missingAci <=> a = None) /\ (missingE164 <=> e = None)
    BY DEF a, e
  <2> QED
    BY <2>1, <2>2, <2>3, <2>4
<1>6. l.aci \in Acis \cup {None} /\ l.pni \in Pnis \cup {None} /\ l.e164 \in E164s \cup {None}
  BY LookupFacts
<1> HIDE DEF c, missingPni, u
<1>7. missingAci => /\ Fine(s1) /\ DOMAIN s1.rows = DOMAIN t.rows
                    /\ \A i \in DOMAIN t.rows : s1.rows[i].e164 = t.rows[i].e164
                    /\ s1.rows[c].aci = l.aci
  BY <1>1, <1>3, <1>4, <1>6, AciSet
<1> HIDE DEF s1, missingAci
<1>8. /\ Fine(t1) /\ DOMAIN t1.rows = DOMAIN t.rows
      /\ \A i \in DOMAIN t.rows : t1.rows[i].e164 = t.rows[i].e164
      /\ both => t1.rows[c].aci = l.aci
  BY <1>1, <1>5, <1>7
<1> HIDE DEF t1
<1>9. missingE164 => /\ Fine(s2) /\ DOMAIN s2.rows = DOMAIN t.rows
                     /\ \A i \in DOMAIN t.rows : s2.rows[i].aci = t1.rows[i].aci
                     /\ s2.rows[c].e164 = l.e164
  BY <1>3, <1>4, <1>6, <1>8, NumberSet
<1> HIDE DEF s2, missingE164
<1>10. /\ Fine(t2) /\ DOMAIN t2.rows = DOMAIN t.rows
       /\ both => t2.rows[c].aci = l.aci /\ t2.rows[c].e164 = l.e164
  BY <1>3, <1>5, <1>8, <1>9
<1> HIDE DEF t2
<1>11. /\ Fine(s3) /\ DOMAIN s3.rows = DOMAIN t.rows
       /\ \A i \in DOMAIN t.rows :
            s3.rows[i].aci = t2.rows[i].aci /\ s3.rows[i].e164 = t2.rows[i].e164
  BY <1>3, <1>6, <1>10, PniSet
<1> HIDE DEF s3
<1>12. /\ Fine(t3) /\ DOMAIN t3.rows = DOMAIN t.rows
       /\ both => t3.rows[c].aci = l.aci /\ t3.rows[c].e164 = l.e164
  BY <1>3, <1>10, <1>11
<1> HIDE DEF t3
<1>13. Fine(u) /\ (both => \E i \in DOMAIN u.rows : u.rows[i].aci = l.aci /\ u.rows[i].e164 = l.e164)
  BY <1>2, <1>3, <1>12
<1> QED
  BY <1>13 DEF u

LEMMA LookedUpFine ==
  ASSUME Running, NEW l \in Lookups, NEW n \in Ids \ DOMAIN rows
  PROVE  LET u == Looked(l, n)
         IN  /\ Fine(u)
             /\ l.certain /\ l.aci # None /\ l.e164 # None =>
                  \E i \in DOMAIN u.rows : u.rows[i].aci = l.aci /\ u.rows[i].e164 = l.e164
<1> DEFINE t1 == UpdateCommon(CreateNew(Start, l, n), l, n)
           t2 == MergePniIntoE164(t1, l)
           t3 == MergePniIntoAci(t2, l)
           t4 == MergeE164IntoAci(t3, l)
           a == ByAci(l)
           e == ByE164(l)
           p == ByPni(l)
<1>1. Looked(l, n) = Complete(t4, l)
  BY DEF Looked, Start
<1>2. IInv
  BY DEF Running
<1>3. Ready(l, t4)
  \* The blocks that merge have nothing to do.
  <2>1. CASE \E c : Matches(l) \subseteq {c}
    <3>1. PICK c : Matches(l) \subseteq {c}
      BY <2>1
    <3>2. Ready(l, t1)
      BY <3>1, FirstBlocksFine
    <3> HIDE DEF t1
    <3>3. /\ e = None \/ p = None \/ e = p
          /\ a = None \/ p = None \/ a = p
          /\ a = None \/ e = None \/ a = e
      BY <3>1 DEF Matches
    <3>4. t2 = t1
      BY <3>3 DEF MergePniIntoE164
    <3>5. t3 = t2
      BY <3>3 DEF MergePniIntoAci
    <3>6. t4 = t3
      BY <3>3 DEF MergeE164IntoAci
    <3> QED
      BY <3>2, <3>4, <3>5, <3>6
  \* The blocks for one row have.
  <2>2. CASE \A c : ~(Matches(l) \subseteq {c})
    <3>1. t1 = Start
      BY <1>2, <2>2, FirstBlocks
    <3>2. Moved(t2) /\ (a # None /\ p # None /\ a # p => t2.rows[p].pni = l.pni)
      BY <3>1, PniIntoE164Fine
    <3> HIDE DEF t2
    <3>3. Moved(t3)
      BY <3>2, PniIntoAciFine
    <3>4. CASE a # None
      <4> HIDE DEF t3
      <4> QED
        BY <3>3, <3>4, E164IntoAciFine
    <3>5. CASE a = None
      <4>1. t3 = t2
        BY <3>5 DEF MergePniIntoAci
      <4> HIDE DEF t3
      <4>2. t4 = t3
        BY <3>5 DEF MergeE164IntoAci
      <4>3. /\ e \in DOMAIN rows /\ rows[e].e164 = l.e164 /\ l.e164 # None
            /\ l.aci # None => \A i \in DOMAIN rows : rows[i].aci # l.aci
        <5>1. e # None
          BY <2>2, <3>5 DEF Matches
        <5> QED
          BY <1>2, <3>5, <5>1, MatchFacts
      <4>4. Result(t3.rows, l) # None
        BY <3>3, <4>3, ResultExists DEF Moved, Fine
      <4>5. Joined(l, t3)
        BY <3>3, <4>3 DEF Moved, Joined
      <4>6. Ready(l, t3)
        BY <3>3, <4>4, <4>5 DEF Moved, Ready
      <4> QED
        BY <4>2, <4>6
    <3> QED
      BY <3>4, <3>5
  <2> QED
    BY <2>1, <2>2
<1> HIDE DEF t4
<1> QED
  BY <1>1, <1>3, CompletedFine
-----------------------------------------------------------------------------
(* Steps.                                                                  *)

LEMMA LookedUp ==
  ASSUME IInv, NEW l \in Lookups, NEW n \in Ids \ DOMAIN rows
  PROVE  Looked(l, n).ok => Kept(l, Looked(l, n)) /\ HeldOnce(l, Looked(l, n))
<1> DEFINE t1 == UpdateCommon(CreateNew(Start, l, n), l, n)
           t2 == MergePniIntoE164(t1, l)
           t3 == MergePniIntoAci(t2, l)
           t4 == MergeE164IntoAci(t3, l)
<1>1. Looked(l, n) = Complete(t4, l)
  BY DEF Looked, Start
<1>2. /\ Kept(l, t1)
      /\ t1.ok => HeldOnce(l, t1)
      /\ Matches(l) # {} /\ (\A c : Matches(l) # {c}) => t1 = Start
      /\ t1.ok /\ ByAci(l) = None /\ (l.pni = None \/ l.e164 = None) => Settled(l, t1)
  BY FirstBlocks
<1> HIDE DEF t1
<1>3. /\ Kept(l, t2)
      /\ t2.ok => HeldOnce(l, t2)
      /\ ByE164(l) = None \/ ByPni(l) = None => t2 = t1
      /\ t2.ok /\ ByAci(l) # None /\ ByPni(l) # None /\ ByAci(l) # ByPni(l) => PniAtHand(l, t2)
  BY <1>2, PniIntoE164
<1> HIDE DEF t2
<1>4. Kept(l, t3) /\ (t3.ok => HeldOnce(l, t3)) /\ (ByAci(l) = None => t3 = t2)
  BY <1>3, PniIntoAci
<1> HIDE DEF t3
<1>5. Kept(l, t4) /\ (t4.ok => HeldOnce(l, t4)) /\ (ByAci(l) = None => t4 = t3)
  BY <1>4, E164IntoAci
<1> HIDE DEF t4
<1>6. t4.ok => Settled(l, t4)
  <2>1. CASE l.aci = None
    BY <2>1 DEF Settled
  <2>2. CASE ByAci(l) # None
    <3>1. ByAci(l) \in DOMAIN rows /\ rows[ByAci(l)].aci = l.aci /\ l.aci # None
      BY <2>2, MatchFacts
    <3>2. ByAci(l) \in DOMAIN t4.rows /\ t4.rows[ByAci(l)].aci = l.aci
      BY <1>5, <3>1 DEF Kept, AcisStay
    <3> QED
      BY <3>2 DEF Settled
  <2>3. CASE ByAci(l) = None /\ (l.pni = None \/ l.e164 = None)
    <3>1. ByE164(l) = None \/ ByPni(l) = None
      BY <2>3, MatchFacts
    <3>2. t4 = t1
      BY <1>3, <1>4, <1>5, <2>3, <3>1
    <3> QED
      BY <1>2, <2>3, <3>2
  <2>4. CASE l.aci # None /\ l.pni # None /\ l.e164 # None
    <3>1. SUFFICES ASSUME Result(t4.rows, l) # None,
                          \A i \in DOMAIN t4.rows : t4.rows[i].aci # l.aci
                   PROVE  t4.rows[Result(t4.rows, l)].aci = None
      BY DEF Settled
    <3> DEFINE c == Result(t4.rows, l)
    <3>2. c \in DOMAIN t4.rows /\ OnSide(t4.rows[c], l)
      BY <1>5, <3>1, Returned
    <3>3. t4.rows[c] \in Row
      BY <1>5, <3>2, TableFacts DEF Kept
    <3> HIDE DEF c
    <3>4. t4.rows[c].aci \in {None, l.aci}
      BY <2>4, <3>2, <3>3, OwnRow
    <3>5. t4.rows[c].aci = None
      BY <3>1, <3>2, <3>4
    <3> QED
      BY <3>5 DEF c
  <2> QED
    BY <2>1, <2>2, <2>3, <2>4
<1> QED
  BY <1>1, <1>5, <1>6, Completed

LEMMA Initially == Init => IInv
<1> SUFFICES ASSUME Init PROVE IInv
  OBVIOUS
<1>1. rows = [i \in {} |-> None] /\ DOMAIN rows = {}
  BY DEF Init
<1>2. \E D \in SUBSET Ids : rows \in [D -> Row]
  BY <1>1
<1>3. TypeOK
  BY <1>2 DEF Init, TypeOK
<1> QED
  BY <1>1, <1>3 DEF IInv, PniUnique, AciUnique, E164Unique, Pure

LEMMA LookupStep ==
  ASSUME IInv, NEW l \in Lookups, NEW n \in Ids \ DOMAIN rows, MergeAndFetch(l, n)
  PROVE  IInv' /\ AcisStay(rows, rows')
<1> DEFINE t == Looked(l, n)
<1>1. t.ok => Kept(l, t) /\ HeldOnce(l, t)
  BY LookedUp
<1> HIDE DEF t
<1>2. CASE Commits(t)
  <2>1. rows' = t.rows /\ held' = t.held /\ UNCHANGED <<members, panicked>>
    BY <1>2 DEF MergeAndFetch, t
  <2>2. Kept(l, t) /\ HeldOnce(l, t)
    BY <1>1, <1>2 DEF Commits
  <2>3. TypeOK'
    <3>1. t \in Table
      BY <2>2 DEF Kept
    <3>2. t.held \in [Messages -> Ids \cup {None}]
      BY <3>1, TableFacts
    <3>3. \E D \in SUBSET Ids : t.rows \in [D -> Row]
      BY <3>1, TableFacts
    <3> QED
      BY <2>1, <3>2, <3>3 DEF IInv, TypeOK
  <2>4. PniUnique'
    <3> SUFFICES ASSUME NEW i \in DOMAIN t.rows, NEW j \in DOMAIN t.rows,
                        t.rows[i].pni = t.rows[j].pni, t.rows[i].pni # None
                 PROVE  i = j
      BY <2>1 DEF PniUnique
    <3>1. CASE t.rows[i].pni = l.pni
      <4>1. {i, j} \subseteq Holders(l, t) /\ l.pni # None
        BY <3>1 DEF Holders
      <4>2. PICK x : Holders(l, t) \subseteq {x}
        BY <2>2, <4>1 DEF HeldOnce
      <4> QED
        BY <4>1, <4>2
    <3>2. CASE t.rows[i].pni # l.pni
      <4>1. /\ i \in DOMAIN rows /\ t.rows[i].pni = rows[i].pni
            /\ j \in DOMAIN rows /\ t.rows[j].pni = rows[j].pni
        BY <2>2, <3>2 DEF Kept
      <4> QED
        BY <4>1 DEF IInv, PniUnique
    <3> QED
      BY <3>1, <3>2
  <2>5. AciUnique(rows)' /\ E164Unique(rows)'
    BY <2>1, <2>2 DEF Kept, AciUnique, E164Unique
  <2>6. Pure(rows)'
    <3> SUFFICES ASSUME NEW i \in DOMAIN t.rows
                 PROVE  Idents(t.rows[i]) \subseteq Self \/ Idents(t.rows[i]) \cap Self = {}
      BY <2>1 DEF Pure
    <3>1. OnSide(t.rows[i], l) \/ (i \in DOMAIN rows /\ t.rows[i] = rows[i])
      BY <2>2 DEF Kept
    <3> QED
      BY <3>1 DEF OnSide, IInv, Pure
  <2>7. AcisStay(rows, rows')
    BY <2>1, <2>2 DEF Kept
  <2> QED
    BY <2>3, <2>4, <2>5, <2>6, <2>7 DEF IInv
<1>3. CASE ~Commits(t)
  <2>1. UNCHANGED <<rows, held, members>> /\ panicked' = TRUE
    BY <1>3 DEF MergeAndFetch, t
  <2> QED
    BY <2>1 DEF IInv, TypeOK, PniUnique, AciUnique, E164Unique, Pure, AcisStay
<1> QED
  BY <1>2, <1>3

LEMMA InsertStep ==
  ASSUME IInv, NEW n \in Ids \ DOMAIN rows, NEW f, NEW x, FetchOrInsert(f, x, n),
         \/ f = "aci" /\ x \in Acis
         \/ f = "pni" /\ x \in Pnis
         \/ f = "e164" /\ x \in E164s
  PROVE  IInv' /\ AcisStay(rows, rows')
<1> DEFINE new == [[aci |-> None, pni |-> None, e164 |-> None] EXCEPT ![f] = x]
<1>1. /\ new \in Row /\ x # None
      /\ new.aci = IF f = "aci" THEN x ELSE None
      /\ new.pni = IF f = "pni" THEN x ELSE None
      /\ new.e164 = IF f = "e164" THEN x ELSE None
  <2>1. CASE f = "aci"
    BY <2>1, IdentifierAssumption DEF Row
  <2>2. CASE f = "pni"
    BY <2>2, IdentifierAssumption DEF Row
  <2>3. CASE f = "e164"
    BY <2>3, IdentifierAssumption DEF Row
  <2> QED
    BY <2>1, <2>2, <2>3
<1>2. rows' = InsertRow(rows, n, new) /\ UNCHANGED <<held, members, panicked>>
  BY DEF FetchOrInsert
<1> HIDE DEF new
<1>3. PICK D \in SUBSET Ids : rows \in [D -> Row]
  BY DEF IInv, TypeOK
<1>4. /\ DOMAIN rows = D /\ rows' \in [D \cup {n} -> Row] /\ D \cup {n} \in SUBSET Ids
      /\ rows'[n] = new /\ \A i \in D : rows'[i] = rows[i]
  BY <1>1, <1>2, <1>3 DEF InsertRow
<1>5. TypeOK'
  BY <1>2, <1>4 DEF IInv, TypeOK
<1>6. \A i \in D : rows[i][f] # x
  BY <1>4 DEF FetchOrInsert, With
<1>7. /\ f = "aci" => \A i \in D : rows[i].aci # x
      /\ f = "pni" => \A i \in D : rows[i].pni # x
      /\ f = "e164" => \A i \in D : rows[i].e164 # x
  BY <1>6
<1>8. PniUnique'
  BY <1>1, <1>4, <1>7 DEF IInv, PniUnique
<1>9. AciUnique(rows)' /\ E164Unique(rows)'
  BY <1>1, <1>4, <1>7 DEF IInv, AciUnique, E164Unique
<1>10. Pure(rows)'
  <2>1. Idents(new) \subseteq {x}
    BY <1>1 DEF Idents
  <2> QED
    BY <1>4, <2>1 DEF IInv, Pure
<1>11. AcisStay(rows, rows')
  BY <1>4 DEF AcisStay
<1> QED
  BY <1>5, <1>8, <1>9, <1>10, <1>11 DEF IInv

\* Steps that leave the rows alone.
LEMMA RowsStay ==
  ASSUME IInv, UNCHANGED <<rows, panicked>>,
         held' \in [Messages -> Ids \cup {None}], members' \subseteq Ids
  PROVE  IInv' /\ AcisStay(rows, rows')
BY DEF IInv, TypeOK, PniUnique, AciUnique, E164Unique, Pure, AcisStay

LEMMA Step == IInv /\ [Next]_vars => IInv' /\ AcisStay(rows, rows')
<1> SUFFICES ASSUME IInv, [Next]_vars PROVE IInv' /\ AcisStay(rows, rows')
  OBVIOUS
<1>1. DOMAIN rows \subseteq Ids /\ held \in [Messages -> Ids \cup {None}] /\ members \subseteq Ids
  BY DEF IInv, TypeOK
<1>2. ASSUME NEW l \in Lookups, NEW n \in Ids \ DOMAIN rows, MergeAndFetch(l, n)
      PROVE  IInv' /\ AcisStay(rows, rows')
  BY <1>2, LookupStep
<1>3. ASSUME NEW n \in Ids \ DOMAIN rows,
             \/ \E a \in Acis : FetchOrInsert("aci", a, n)
             \/ \E p \in Pnis : FetchOrInsert("pni", p, n)
             \/ \E e \in E164s : FetchOrInsert("e164", e, n)
      PROVE  IInv' /\ AcisStay(rows, rows')
  BY <1>3, InsertStep
<1>4. ASSUME NEW m \in Messages, NEW i \in DOMAIN rows, CreateMessage(m, i)
      PROVE  IInv' /\ AcisStay(rows, rows')
  <2>1. held' \in [Messages -> Ids \cup {None}] /\ UNCHANGED <<rows, members, panicked>>
    BY <1>1, <1>4 DEF CreateMessage
  <2> QED
    BY <1>1, <2>1, RowsStay
<1>5. ASSUME NEW a \in Acis, AddGroupMember(a)
      PROVE  IInv' /\ AcisStay(rows, rows')
  <2>1. members' \subseteq Ids /\ UNCHANGED <<rows, held, panicked>>
    BY <1>1, <1>5 DEF AddGroupMember, With
  <2> QED
    BY <1>1, <2>1, RowsStay
<1>6. CASE UNCHANGED vars
  BY <1>1, <1>6, RowsStay DEF vars
<1> QED
  BY <1>2, <1>3, <1>4, <1>5, <1>6 DEF Next

-----------------------------------------------------------------------------
(* Steps of a process that runs.                                           *)

\* What a step does to the messages that are in a conversation.
HistoryKept ==
  \A m \in Messages : held[m] # None =>
    /\ held'[m] \in DOMAIN rows'
    /\ rows[held[m]].aci # None => held'[m] = held[m]

\* The lookup commits.
LEMMA LookupRuns ==
  ASSUME Running, NEW l \in Lookups, NEW n \in Ids \ DOMAIN rows, MergeAndFetch(l, n)
  PROVE  /\ Running' /\ HistoryKept
         /\ l.certain /\ l.aci # None /\ l.e164 # None =>
              \E i \in DOMAIN rows' : rows'[i].aci = l.aci /\ rows'[i].e164 = l.e164
<1> DEFINE t == Looked(l, n)
<1>1. IInv /\ IInv' /\ AcisStay(rows, rows')
  BY LookupStep DEF Running
<1>2. /\ Fine(t) /\ Kept(l, t)
      /\ l.certain /\ l.aci # None /\ l.e164 # None =>
           \E i \in DOMAIN t.rows : t.rows[i].aci = l.aci /\ t.rows[i].e164 = l.e164
  BY <1>1, LookedUp, LookedUpFine DEF Fine
<1>3. Commits(t)
  BY <1>2 DEF Commits, Fine, Kept, AcisStay, Running, MembersThere
<1>4. rows' = t.rows /\ held' = t.held /\ members' = members /\ panicked' = panicked
  BY <1>3 DEF MergeAndFetch
<1> HIDE DEF t
<1>5. HistoryKept
  BY <1>2, <1>4 DEF HistoryKept, Fine, HeldStays
<1>6. MembersThere'
  BY <1>1, <1>4 DEF Running, MembersThere, AcisStay
<1>7. HeldThere'
  BY <1>2, <1>4 DEF HeldThere, Fine, HeldStays
<1> QED
  BY <1>1, <1>2, <1>4, <1>5, <1>6, <1>7 DEF Running, NeverPanics

\* No other step removes a row or takes a message out of a conversation.
LEMMA RowsRemain ==
  ASSUME Running, IInv', AcisStay(rows, rows'), panicked' = panicked,
         DOMAIN rows \subseteq DOMAIN rows',
         \A m \in Messages : held[m] # None => held'[m] = held[m],
         HeldThere', MembersThere'
  PROVE  Running' /\ HistoryKept
<1>1. HistoryKept
  BY DEF Running, HeldThere, HistoryKept
<1> QED
  BY <1>1 DEF Running, NeverPanics

LEMMA RunningStep == Running /\ [Next]_vars => Running' /\ HistoryKept
<1> SUFFICES ASSUME Running, [Next]_vars PROVE Running' /\ HistoryKept
  OBVIOUS
<1>1. IInv' /\ AcisStay(rows, rows') /\ MembersThere /\ HeldThere
  BY Step DEF Running
<1>2. ASSUME NEW l \in Lookups, NEW n \in Ids \ DOMAIN rows, MergeAndFetch(l, n)
      PROVE  Running' /\ HistoryKept
  BY <1>2, LookupRuns
<1>3. ASSUME NEW n \in Ids \ DOMAIN rows, NEW f, NEW x, FetchOrInsert(f, x, n)
      PROVE  Running' /\ HistoryKept
  <2>1. DOMAIN rows \subseteq DOMAIN rows' /\ UNCHANGED <<held, members, panicked>>
    BY <1>3 DEF FetchOrInsert, InsertRow
  <2>2. HeldThere'
    BY <1>1, <2>1 DEF HeldThere
  <2>3. MembersThere'
    BY <1>1, <2>1 DEF MembersThere, AcisStay
  <2> QED
    BY <1>1, <2>1, <2>2, <2>3, RowsRemain
<1>4. ASSUME NEW m \in Messages, NEW i \in DOMAIN rows, CreateMessage(m, i)
      PROVE  Running' /\ HistoryKept
  <2>1. /\ UNCHANGED <<rows, members, panicked>>
        /\ held[m] = None /\ held' = [held EXCEPT ![m] = i]
    BY <1>4 DEF CreateMessage
  <2>2. held \in [Messages -> Ids \cup {None}]
    BY DEF Running, IInv, TypeOK
  <2>3. \A k \in Messages : held[k] # None => held'[k] = held[k]
    BY <2>1, <2>2
  <2>4. HeldThere'
    BY <1>1, <2>1, <2>2 DEF HeldThere
  <2>5. MembersThere'
    BY <1>1, <2>1 DEF MembersThere
  <2> QED
    BY <1>1, <2>1, <2>3, <2>4, <2>5, RowsRemain
<1>5. ASSUME NEW a \in Acis, AddGroupMember(a)
      PROVE  Running' /\ HistoryKept
  <2>1. UNCHANGED <<rows, held, panicked>> /\ members' = members \cup With(rows, "aci", a)
    BY <1>5 DEF AddGroupMember
  <2>2. HeldThere'
    BY <1>1, <2>1 DEF HeldThere
  <2>3. MembersThere'
    BY <1>1, <1>5, <2>1, IdentifierAssumption DEF MembersThere, With
  <2> QED
    BY <1>1, <2>1, <2>2, <2>3, RowsRemain
<1>6. CASE UNCHANGED vars
  <2>1. UNCHANGED <<rows, held, members, panicked>>
    BY <1>6 DEF vars
  <2>2. HeldThere' /\ MembersThere'
    BY <1>1, <2>1 DEF HeldThere, MembersThere
  <2> QED
    BY <1>1, <2>1, <2>2, RowsRemain
<1>7. CASE \E n \in Ids \ DOMAIN rows :
             \/ \E a \in Acis : FetchOrInsert("aci", a, n)
             \/ \E p \in Pnis : FetchOrInsert("pni", p, n)
             \/ \E e \in E164s : FetchOrInsert("e164", e, n)
  BY <1>3, <1>7
<1> QED
  BY <1>2, <1>4, <1>5, <1>6, <1>7 DEF Next

LEMMA RunningInitially == Init => Running
<1> SUFFICES ASSUME Init PROVE Running
  OBVIOUS
<1>1. MembersThere /\ HeldThere /\ NeverPanics
  BY DEF Init, MembersThere, HeldThere, NeverPanics
<1> QED
  BY <1>1, Initially DEF Running

LEMMA Runs == Spec => []Running
BY RunningInitially, RunningStep, PTL DEF Spec

-----------------------------------------------------------------------------
LEMMA Invariant == Spec => []IInv
BY Initially, Step, PTL DEF Spec

\* Every row holds an identifier of each kind or none, and messages and
\* memberships hold row numbers, whatever the lookups did in their transactions.
THEOREM TypeCorrect == Spec => []TypeOK
<1>1. IInv => TypeOK
  BY DEF IInv
<1> QED
  BY <1>1, Invariant, PTL

\* No sequence of lookups gives two rows the same PNI, although the table has
\* no constraint that would reject the second (merge_and_fetch_recipient).
THEOREM PnisAreUnique == Spec => []PniUnique
<1>1. IInv => PniUnique
  BY DEF IInv
<1> QED
  BY <1>1, Invariant, PTL

\* No lookup removes a row that has an ACI or gives it another, whichever rows
\* it merges or splits: a contact's conversation stays that contact's.
THEOREM AcisAreStable == Spec => AciStays
<1>1. IInv /\ [Next]_vars =>
        [\A i \in DOMAIN rows : rows[i].aci # None =>
           i \in DOMAIN rows' /\ rows'[i].aci = rows[i].aci]_vars
  BY Step DEF AcisStay
<1> QED
  BY <1>1, Invariant, PTL DEF Spec, AciStays

\* A lookup never fails: whatever was learned before, and in whichever order, no
\* statement meets a second row with the same ACI or number or a row that is gone,
\* and no membership loses its row, so the expect() of the callers never panics
\* (merge_and_fetch_recipient and merge_recipients).
THEOREM NothingPanics == Spec => []NeverPanics
<1>1. Running => NeverPanics
  BY DEF Running
<1> QED
  BY <1>1, Runs, PTL

\* No merge loses a message: the row whose conversation holds it is always there,
\* and while that row has an ACI the message stays with it (merge_recipients).
THEOREM NoHistoryIsLost == Spec => HistoryStays
<1>1. Running /\ [Next]_vars =>
        [\A m \in Messages : held[m] # None =>
           /\ held'[m] \in DOMAIN rows'
           /\ rows[held[m]].aci # None => held'[m] = held[m]]_vars
  BY RunningStep DEF HistoryKept
<1> QED
  BY <1>1, Runs, PTL DEF Spec, HistoryStays

\* After a trusted lookup of an ACI and a number one row has both, whichever rows
\* had either before (merge_and_fetch_recipient_inner).
THEOREM TrustedNumbersAreStored == Spec => NumberFollowsAci
<1>1. Running =>
        [\A l \in Lookups, n \in Ids \ DOMAIN rows :
           l.certain /\ l.aci # None /\ l.e164 # None /\ MergeAndFetch(l, n)
             => \E i \in DOMAIN rows' : rows'[i].aci = l.aci /\ rows'[i].e164 = l.e164]_vars
  BY LookupRuns
<1> QED
  BY <1>1, Runs, PTL DEF Spec, NumberFollowsAci
=============================================================================
