----------------------------- MODULE PrefixSet -----------------------------
(***************************************************************************)
(* What a trie promises its owner: a set of prefixes.  An insertion adds   *)
(* its prefix and says whether it was there, or finds no memory and adds   *)
(* nothing; a removal takes its prefix out if it is there.                 *)
(***************************************************************************)
CONSTANT Prefixes

VARIABLES stored,   \* the prefixes in the trie
          ret       \* what the last call returned
vars == <<stored, ret>>

Init == stored = {} /\ ret = "none"

Insert(p) == \/ p \notin stored /\ stored' = stored \cup {p} /\ ret' = "inserted"
             \/ p \in stored /\ UNCHANGED stored /\ ret' = "present"
             \/ UNCHANGED stored /\ ret' = "nomem"

Remove(p) == \/ p \in stored /\ stored' = stored \ {p} /\ ret' = "removed"
             \/ p \notin stored /\ UNCHANGED stored /\ ret' = "absent"

Clear == stored' = {} /\ ret' = "none"

Next == Clear \/ \E p \in Prefixes : Insert(p) \/ Remove(p)

Spec == Init /\ [][Next]_vars
=============================================================================
