---------------------------- MODULE FieldCursor ----------------------------
(***************************************************************************)
(* What reading a message promises its client, whatever the field: an      *)
(* iteration returns the items of its field in their order, each once,     *)
(* then nothing; only one iteration is pending at a time, and starting one *)
(* ends the other; a lookup in between changes nothing; and a read fails   *)
(* only when the message is damaged or the call is not allowed, for good.  *)
(***************************************************************************)
EXTENDS Sequences

CONSTANTS Docs,      \* the messages: each maps a kind of iteration to its items
          NoDoc,     \* no message is open
          Field,     \* the field a kind of iteration reads
          Damage     \* the item that stands for bytes that cannot be read

Kinds == DOMAIN Field
Fields == {Field[k] : k \in Kinds}

VARIABLES doc,       \* the open message
          field,     \* the pending iteration, or "none"
          rest,      \* its items not returned yet
          got,       \* what the last call returned
          failed     \* "no", "damaged" or "misused"
vars == <<doc, field, rest, got, failed>>

IsDamaged(items) == \E i \in DOMAIN items : items[i] = Damage

Idle == field' = "none" /\ rest' = <<>> /\ got' = <<>>

Init == doc = NoDoc /\ field = "none" /\ rest = <<>> /\ got = <<>> /\ failed = "no"

Open  == doc = NoDoc /\ doc' \in Docs /\ failed' = "no" /\ Idle
Close == doc # NoDoc /\ doc' = NoDoc /\ failed' = "no" /\ Idle

Usable == doc # NoDoc /\ failed = "no" /\ UNCHANGED doc

Start == /\ Usable
         /\ \E k \in Kinds : field' = Field[k] /\ rest' = doc[k]
         /\ got' = <<>>
         /\ UNCHANGED failed

Read == /\ Usable
        /\ rest # <<>> /\ Head(rest) # Damage
        /\ got' = <<Head(rest)>>
        /\ rest' = Tail(rest)
        /\ UNCHANGED <<field, failed>>

ReadNothing == /\ Usable
               /\ rest = <<>> /\ got' = <<>>
               /\ UNCHANGED <<field, rest, failed>>

\* A call that is not part of an iteration of its own.
Forget == Usable /\ got' = <<>> /\ UNCHANGED <<field, rest, failed>>

End == Usable /\ Idle /\ UNCHANGED failed

Break == /\ Usable
         /\ \E k \in Kinds : IsDamaged(doc[k])
         /\ failed' = "damaged"
         /\ Idle

Misuse == Usable /\ failed' = "misused" /\ Idle

Failed == failed # "no" /\ Idle /\ UNCHANGED <<doc, failed>>

Next == \/ Open \/ Close \/ Start \/ Read \/ ReadNothing \/ Forget \/ End
        \/ Break \/ Misuse \/ Failed

Spec == Init /\ [][Next]_vars
=============================================================================
