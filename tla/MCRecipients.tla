---------------------------- MODULE MCRecipients ----------------------------
(* A small instance of Recipients: the user and two contacts. *)
EXTENDS Recipients, TLC

CONSTANTS a1, a2, a3, p1, p2, p3, e1, e2, e3

MCAcis == {a1, a2, a3}
MCPnis == {p1, p2, p3}
MCE164s == {e1, e2, e3}

\* Row numbers, and the identifiers of the contacts, are interchangeable.
Symmetry ==
  Permutations(Ids) \cup Permutations({a2, a3}) \cup Permutations({p2, p3})
    \cup Permutations({e2, e3})
=============================================================================
