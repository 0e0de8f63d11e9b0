----------------------------- MODULE MCBgpOpen -----------------------------
(* Instances of BgpOpen for TLC. *)
EXTENDS BgpOpen

\* Of no and of two bytes, and one a byte longer than a capability may be.
MCCaps == {<<1, 0>>, <<3, 2, 2, 1>>, <<1, 6, 0, 0, 0, 0, 0, 0>>}

Param(code, caps) == [code |-> code, caps |-> caps, excess |-> 0]

Small == {Param(2, <<>>), Param(2, << <<1, 0>> >>), Param(2, << <<3, 0>>, <<2, 1, 2>> >>),
          Param(1, <<>>), Param(1, << <<2, 0>> >>)}

\* Lists of up to three parameters that fit in a list, whole or with a length
\* too long in the last one.
MCLists ==
    LET Whole3 == {l \in {<<>>} \cup {<<p>> : p \in Small}
                         \cup {<<p, q>> : p, q \in Small}
                         \cup {<<p, q, r>> : p, q, r \in Small} : Len(Encode(l)) <= ByteMax}
        Damaged(l) == [l EXCEPT ![Len(l)].excess = 2]
    IN  Whole3 \cup {Damaged(l) : l \in Whole3 \ {<<>>}}

MCRawLists == {<<>>, <<2, 2, 1, 0>>}
MCOpens == {"o"}
=============================================================================
