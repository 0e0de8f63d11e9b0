----------------------------- MODULE UpdateDoc -----------------------------
(***************************************************************************)
(* What writing an UPDATE promises its client: a document of three lists.  *)
(* Opening a list empties it and closes the one that was open; items are   *)
(* appended to the open list; the other lists stay as they are, wherever   *)
(* they lie in the message; and the message delivered at the end is the    *)
(* document, unless a call failed: then nothing is delivered.              *)
(***************************************************************************)
EXTENDS Sequences

CONSTANT Items

Lists == {"withdrawn", "attrs", "nlri"}
Docs == [Lists -> Seq(Items)]
Blank == [l \in Lists |-> <<>>]

VARIABLES phase,    \* "closed", "writing" or "delivered"
          doc,      \* the three lists
          current,  \* the open list, or "none"
          failed    \* a call of this message failed
vars == <<phase, doc, current, failed>>

Init == phase = "closed" /\ doc = Blank /\ current = "none" /\ failed = FALSE

Create == /\ phase = "closed" /\ phase' = "writing"
          /\ doc' = Blank /\ current' = "none" /\ failed' = FALSE

Writing == phase = "writing" /\ ~failed /\ UNCHANGED <<phase, failed>>

Open(l) == Writing /\ current' = l /\ doc' = [doc EXCEPT ![l] = <<>>]

Put(x) == /\ Writing /\ current \in Lists /\ UNCHANGED current
          /\ doc' = [doc EXCEPT ![current] = Append(@, x)]

Close == Writing /\ current' = "none" /\ UNCHANGED doc

Replace(l) == /\ Writing /\ current = "none" /\ UNCHANGED current
              /\ doc' \in Docs /\ \A k \in Lists \ {l} : doc'[k] = doc[k]

ReplaceAll == Writing /\ doc' \in Docs /\ current' = "none"

Deliver == /\ phase = "writing" /\ ~failed /\ phase' = "delivered"
           /\ current' = "none" /\ UNCHANGED <<doc, failed>>

Fail == /\ phase # "closed" /\ UNCHANGED phase
        /\ failed' = TRUE /\ doc' = Blank /\ current' = "none"

Discard == /\ phase # "closed" /\ phase' = "closed"
           /\ doc' = Blank /\ current' = "none" /\ failed' = FALSE

Next == \/ Create \/ Close \/ ReplaceAll \/ Deliver \/ Fail \/ Discard
        \/ \E l \in Lists : Open(l) \/ Replace(l)
        \/ \E x \in Items : Put(x)

Spec == Init /\ [][Next]_vars
=============================================================================
