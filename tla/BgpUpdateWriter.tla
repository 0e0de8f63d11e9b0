-------------------------- MODULE BgpUpdateWriter --------------------------
(***************************************************************************)
(* Writing one BGP message through a bgp_msg_t: setbgpwrite, the start, put *)
(* and end calls of the three fields of an UPDATE, the set calls that      *)
(* replace a field or the whole body, and bgpfinish.                       *)
(*                                                                         *)
(* The body is laid out as in the packet, in cells: the length of the      *)
(* withdrawn routes, the routes, the length of the attributes, the         *)
(* attributes, the NLRI.  A route, an attribute and a length take one cell *)
(* each.  Opening a field sets aside the cells behind it; closing it puts  *)
(* them back behind what was written.                                      *)
(*                                                                         *)
(* Pointers into the buffer are an offset and the number of the allocation *)
(* they point into: growing the buffer moves it.  What the program does    *)
(* after it used a pointer into a buffer that is gone, or wrote behind the *)
(* end of one, is not modelled: the message is stray from then on.         *)
(***************************************************************************)
EXTENDS Integers, Sequences

CONSTANTS Items,      \* routes and attributes, encoded
          Bodies,     \* bodies given to setbgpdata
          Data,       \* fields given to setwithdrawn and setnlri
          FastSize,   \* cells in fastbuf
          FastPres,   \* cells in fastpresbuf
          GrowStep,   \* BGPGROWSTEP
          MaxSize,    \* UINT16_MAX
          MaxLen,     \* bound: the client writes no longer message
          SetsNlri    \* whether the client calls setnlri on any message

HeaderLen == 1   \* BASE_PACKET_LENGTH
Lengths == 0..MaxSize
Cells == Items \cup Lengths

ASSUME ItemsAssumption == Items \cap Int = {}
ASSUME SizesAssumption ==
    /\ FastSize \in Nat /\ FastPres \in Nat /\ GrowStep \in Nat
    /\ MaxSize \in Nat /\ FastSize <= MaxSize
    /\ MaxLen \in 2..MaxSize
    /\ SetsNlri \in BOOLEAN

\* A body that is laid out as that of an UPDATE is.
WellFormed(b) ==
    /\ b # <<>> /\ b[1] \in Lengths /\ b[1] + 2 <= Len(b)
    /\ b[b[1] + 2] \in Lengths /\ b[1] + 2 + b[b[1] + 2] <= Len(b)
    /\ \A i \in DOMAIN b \ {1, b[1] + 2} : b[i] \in Items

ASSUME DataAssumption == Data \subseteq Seq(Items)
ASSUME BodiesAssumption == \A b \in Bodies : b \in Seq(Cells) /\ WellFormed(b)

-----------------------------------------------------------------------------
FieldFlags == {"F_WITHDRN", "F_PATTR", "F_NLRI"}

VARIABLE msg

Messages ==
    [type   : {"UPDATE", "OTHER"},
     flags  : SUBSET (FieldFlags \cup {"F_RD", "F_WR"}),
     err    : {"ENOERR", "EINVOP", "ENOMEM"},
     cells  : Seq(Cells),      \* what was written to buf, behind the header
     pktlen : Nat,
     bufsiz : Nat,
     alloc  : Nat,             \* buf: 0 is fastbuf, then one for every realloc
     at     : Nat,             \* the allocation ustart and uptr point into
     ustart : Nat,
     uptr   : Nat,
     pres   : Seq(Cells),      \* presbuf
     stray  : BOOLEAN]

Closed == [type |-> "OTHER", flags |-> {}, err |-> "ENOERR", cells |-> <<>>,
           pktlen |-> 0, bufsiz |-> FastSize, alloc |-> 0,
           at |-> 0, ustart |-> 0, uptr |-> 0, pres |-> <<>>, stray |-> FALSE]

\* memcpy of cells t to offset off.
Copy(s, off, t) ==
    [i \in 1..(IF off + Len(t) > Len(s) THEN off + Len(t) ELSE Len(s)) |->
        IF off < i /\ i <= off + Len(t) THEN t[i - off] ELSE s[i]]

Allowed(m, need) == m.err = "ENOERR" /\ need \subseteq m.flags
IsUpdate(m) == m.type = "UPDATE"
Refuse(m) == [m EXCEPT !.err = IF @ = "ENOERR" THEN "EINVOP" ELSE @]

Smaller(a, b) == IF a < b THEN a ELSE b

\* The buffer moved to a larger one.  Only what pktlen counts is sure to be
\* copied.
Grown(m, n) ==
    [m EXCEPT !.bufsiz = Smaller(m.pktlen + n + GrowStep, MaxSize),
              !.alloc  = @ + 1,
              !.cells  = SubSeq(@, 1, Smaller(m.pktlen, Len(@)))]

\* The outcomes of bgpensure for n more cells: realloc may fail.
bgpensure(m, n) ==
    IF m.pktlen + n <= m.bufsiz
      THEN {m}
      ELSE {Grown(m, n), [m EXCEPT !.err = "ENOMEM"]}
-----------------------------------------------------------------------------
\* Where a field is, by the lengths in the buffer; offsets count from 0.
WithdrawnLen(m) == m.cells[1]
AttribsAt(m) == WithdrawnLen(m) + 2
AttribsLen(m) == m.cells[AttribsAt(m)]
NlriAt(m) == AttribsAt(m) + AttribsLen(m)

Section(m, f) ==
    CASE f = "F_WITHDRN" -> [ptr |-> 1, n |-> WithdrawnLen(m)]
      [] f = "F_PATTR"   -> [ptr |-> AttribsAt(m), n |-> AttribsLen(m)]
      [] f = "F_NLRI"    -> [ptr |-> NlriAt(m), n |-> m.pktlen - NlriAt(m)]

\* bgprestore, for a cursor that still points into the buffer, and the length
\* of the field that has been written.
Restored(m) ==
    LET n == m.pktlen - m.uptr
    IN  IF m.at # m.alloc \/ n \notin 0..Len(m.pres) \/ m.pktlen > m.bufsiz
          THEN [m EXCEPT !.stray = TRUE]
          ELSE [m EXCEPT !.cells = Copy(Copy(@, m.uptr, SubSeq(m.pres, 1, n)),
                                        m.ustart - 1, <<m.uptr - m.ustart>>),
                         !.pres  = <<>>]

\* Variant of EndField: the attributes are left without their length.
EndFieldNoLength(m, f) ==
    [(CASE f = "F_NLRI"    -> m
        [] f = "F_PATTR"   -> [m EXCEPT !.cells = Copy(@, m.uptr, m.pres)]
        [] f = "F_WITHDRN" -> Restored(m)) EXCEPT !.flags = @ \ {f}]

EndField(m, f) ==
    [(IF f = "F_NLRI" THEN m ELSE Restored(m)) EXCEPT !.flags = @ \ {f}]

Pending(m) == m.flags \cap FieldFlags

EndPending(m) ==
    IF Pending(m) = {} THEN m ELSE EndField(m, CHOOSE f \in Pending(m) : TRUE)

\* Variant of Opened: the cells of the field are still counted.
OpenedKeepsLength(m, f) ==
    LET s == Section(m, f)
    IN  [m EXCEPT !.flags = @ \cup {f},
                  !.at = m.alloc, !.ustart = s.ptr, !.uptr = s.ptr,
                  !.pres = SubSeq(m.cells, s.ptr + s.n + 1, m.pktlen)]

\* Variant of Opened: the previous NLRI is not forgotten.
OpenedKeepsNlri(m, f) ==
    LET s == Section(m, f)
    IN  [OpenedKeepsLength(m, f) EXCEPT !.pktlen = IF f = "F_NLRI" THEN @ ELSE @ - s.n]

\* The cursor on an emptied field, with the cells behind it set aside.
Opened(m, f) ==
    LET s    == Section(m, f)
        rest == SubSeq(m.cells, s.ptr + s.n + 1, m.pktlen)
    IN  [m EXCEPT !.pktlen = @ - s.n, !.flags = @ \cup {f},
                  !.at = m.alloc, !.ustart = s.ptr, !.uptr = s.ptr,
                  !.pres = IF f = "F_NLRI" THEN <<>> ELSE rest]

\* The outcomes of a start call: the cells set aside may need a malloc.
StartField(m, f) ==
    LET s == Section(m, f)
    IN  {Opened(m, f)} \cup
        IF f # "F_NLRI" /\ m.pktlen - (s.ptr + s.n) > FastPres
          THEN {[m EXCEPT !.err = "ENOMEM"]} ELSE {}

\* One cell written at the cursor.
Written(m, x) ==
    IF m.at # m.alloc \/ m.uptr >= m.bufsiz
      THEN [m EXCEPT !.stray = TRUE]
      ELSE [m EXCEPT !.cells = Copy(@, m.uptr, <<x>>), !.uptr = @ + 1, !.pktlen = @ + 1]

\* The outcomes of a put call.  putbgpattrib does not call bgpensure.
PutItem(m, f, x) ==
    IF f = "F_PATTR" THEN {Written(m, x)}
    ELSE {IF e.err = "ENOERR" THEN Written(e, x) ELSE e : e \in bgpensure(m, 1)}

\* The outcomes of replacing the withdrawn routes by s: the cells behind them
\* move.  The pointers into the buffer are taken before it may grow.
ReplaceWithdrawn(m, s) ==
    LET old  == WithdrawnLen(m)
        n    == Len(s)
        rest == SubSeq(m.cells, old + 2, m.pktlen)
        Put(e) == [e EXCEPT !.cells  = Copy(@, 0, <<n>> \o s \o rest),
                            !.pktlen = @ - old + n]
    IN  {CASE e.err # "ENOERR"   -> e
           [] e.alloc # m.alloc  -> [e EXCEPT !.stray = TRUE]
           [] OTHER              -> Put(e)
         : e \in IF n > old THEN bgpensure(m, n - old) ELSE {m}}

\* The outcomes of replacing the NLRI by s, which writes a length before it.
ReplaceNlri(m, s) ==
    LET sec == Section(m, "F_NLRI")
        n   == Len(s)
        Put(e) == [e EXCEPT !.cells  = Copy(@, sec.ptr - 1, <<n>> \o s),
                            !.pktlen = @ - sec.n + n]
    IN  {CASE e.err # "ENOERR"   -> e
           [] e.alloc # m.alloc  -> [e EXCEPT !.stray = TRUE]
           [] OTHER              -> Put(e)
         : e \in IF n > sec.n THEN bgpensure(m, n - sec.n) ELSE {m}}

\* The outcomes of setting the whole body to b.  The room asked for counts the
\* body of before and a header as well, and whether it was found is not looked
\* at.
ReplaceBody(m, b) ==
    {IF Len(b) > e.bufsiz
       THEN [e EXCEPT !.stray = TRUE]
       ELSE [e EXCEPT !.cells = Copy(@, 0, b), !.pktlen = Len(b)]
     : e \in bgpensure(EndPending(m), Len(b) + HeaderLen)}
-----------------------------------------------------------------------------
\* The calls.  The client writes messages of MaxLen cells at most (Fits), and
\* replaces a field when no field is open.
Usable == msg.flags # {} /\ ~msg.stray
Fits(n) == n <= MaxLen

Init == msg = Closed

setbgpwrite(type) ==
    /\ msg.flags = {}
    /\ msg' = [Closed EXCEPT !.type = type, !.flags = {"F_WR"},
                             !.cells  = IF type = "UPDATE" THEN <<0, 0>> ELSE <<>>,
                             !.pktlen = IF type = "UPDATE" THEN 2 ELSE 0]

\* startwithdrawn, startbgpattribs, startnlri.  On a message that is finished
\* these calls begin to read it.
Starts(f) ==
    /\ Usable /\ "F_RD" \notin msg.flags
    /\ msg' \in IF Allowed(msg, {}) /\ IsUpdate(msg)
                   THEN StartField(EndPending(msg), f) ELSE {Refuse(msg)}

\* putwithdrawn, putbgpattrib, putnlri.
Puts(f, x) ==
    /\ Usable /\ Fits(msg.pktlen + 1)
    /\ msg' \in IF Allowed(msg, {"F_WR", f}) THEN PutItem(msg, f, x) ELSE {Refuse(msg)}

\* endwithdrawn, endbgpattribs, endnlri.
Ends(f) ==
    /\ Usable
    /\ msg' = IF Allowed(msg, {f}) THEN EndField(msg, f) ELSE Refuse(msg)

setwithdrawn(s) ==
    /\ Usable /\ Pending(msg) = {} /\ Fits(msg.pktlen + Len(s))
    /\ msg' \in IF Allowed(msg, {"F_WR"}) /\ IsUpdate(msg)
                   THEN ReplaceWithdrawn(msg, s) ELSE {Refuse(msg)}

\* The one use of setnlri that writes no more than the NLRI.
ClearsNlri(s) ==
    s = <<>> /\ (Allowed(msg, {"F_WR"}) /\ IsUpdate(msg) => AttribsLen(msg) = 0)

setnlri(s) ==
    /\ Usable /\ "F_RD" \notin msg.flags
    /\ Pending(msg) = {} /\ Fits(msg.pktlen + Len(s))
    /\ SetsNlri \/ ClearsNlri(s)
    /\ msg' \in IF Allowed(msg, {}) /\ IsUpdate(msg)
                   THEN ReplaceNlri(msg, s) ELSE {Refuse(msg)}

setbgpdata(b) ==
    /\ Usable /\ Fits(Len(b))
    /\ msg' \in IF Allowed(msg, {"F_WR"}) THEN ReplaceBody(msg, b) ELSE {Refuse(msg)}

bgpfinish ==
    /\ Usable
    /\ msg' = IF Allowed(msg, {"F_WR"})
                THEN [EndPending(msg) EXCEPT !.flags = (@ \ {"F_WR"}) \cup {"F_RD"}]
                ELSE Refuse(msg)

bgpclose == Usable /\ msg' = Closed

Next ==
    \/ \E type \in {"UPDATE", "OTHER"} : setbgpwrite(type)
    \/ \E f \in FieldFlags : Starts(f)
    \/ \E f \in FieldFlags, x \in Items : Puts(f, x)
    \/ \E f \in FieldFlags : Ends(f)
    \/ \E s \in Data : setwithdrawn(s)
    \/ \E s \in Data : setnlri(s)
    \/ \E b \in Bodies : setbgpdata(b)
    \/ bgpfinish
    \/ bgpclose

Spec == Init /\ [][Next]_msg
-----------------------------------------------------------------------------
\* Types, and that the message lies within its buffer.
TypeOK ==
    /\ msg \in Messages
    /\ msg.pktlen <= msg.bufsiz
    /\ Pending(msg) = {} => msg.pktlen <= Len(msg.cells)

\* No call reads or writes memory that is not the message's: bgprestore finds
\* as many cells as were set aside, and no pointer outlives its buffer.
NeverStrays == ~msg.stray

\* The lengths in the buffer and those that follow from the cursor and the
\* cells set aside agree at every moment between two calls, so that each start
\* call finds its field and each end call restores what was behind it.
FieldsAreFramed ==
    LET body == SubSeq(msg.cells, 1, msg.pktlen)
        upto == SubSeq(msg.cells, 1, msg.uptr)
    IN  IsUpdate(msg) /\ msg.err = "ENOERR" /\ NeverStrays =>
            CASE Pending(msg) = {}            -> WellFormed(body)
              [] Pending(msg) = {"F_WITHDRN"} ->
                    /\ msg.ustart = 1
                    /\ msg.pktlen = msg.uptr + Len(msg.pres)
                    /\ WellFormed(<<0>> \o msg.pres)
              [] Pending(msg) = {"F_PATTR"}   ->
                    /\ msg.ustart = AttribsAt(msg)
                    /\ msg.pktlen = msg.uptr + Len(msg.pres)
              [] Pending(msg) = {"F_NLRI"}    ->
                    /\ msg.ustart = NlriAt(msg)
                    /\ msg.pktlen = msg.uptr
                    /\ WellFormed(upto)

\* setnlri leaves the attributes as they are: bgp.c says the NLRI has no length
\* of its own.
NlriHasNoLength ==
    [][msg.err = "ENOERR" /\ IsUpdate(msg) /\ (\E s \in Data : setnlri(s)) =>
          msg'.stray \/ SubSeq(msg'.cells, 1, NlriAt(msg)) = SubSeq(msg.cells, 1, NlriAt(msg))]_msg
-----------------------------------------------------------------------------
\* The document a message stands for: a field that is open is what lies between
\* the start of the field and the cursor, one behind it is set aside.
Between(s, from, to) == SubSeq(s, from + 1, to)

Parsed(b) == [withdrawn |-> Between(b, 1, b[1] + 1),
              attrs     |-> Between(b, b[1] + 2, b[1] + 2 + b[b[1] + 2]),
              nlri      |-> Between(b, b[1] + 2 + b[b[1] + 2], Len(b))]

Failed(m) == m.err # "ENOERR"

Phase(m) ==
    CASE m.flags = {}                          -> "closed"
      [] m.flags # {} /\ "F_RD" \in m.flags    -> "delivered"
      [] m.flags # {} /\ "F_RD" \notin m.flags -> "writing"

Current(m) ==
    IF Failed(m) \/ Pending(m) = {} THEN "none"
    ELSE CASE Pending(m) = {"F_WITHDRN"} -> "withdrawn"
           [] Pending(m) = {"F_PATTR"}   -> "attrs"
           [] Pending(m) = {"F_NLRI"}    -> "nlri"

Document(m) ==
    LET written == Between(m.cells, m.ustart, m.uptr)
        front   == SubSeq(m.cells, 1, m.ustart - 1)
    IN  IF Failed(m) \/ ~IsUpdate(m)
          THEN [withdrawn |-> <<>>, attrs |-> <<>>, nlri |-> <<>>]
        ELSE IF Pending(m) \in {{}, {"F_NLRI"}}
          THEN Parsed(SubSeq(m.cells, 1, m.pktlen))
          ELSE Parsed(front \o <<Len(written)>> \o written \o m.pres)

Doc == INSTANCE UpdateDoc WITH
    phase <- Phase(msg), doc <- Document(msg), current <- Current(msg),
    failed <- Failed(msg)

\* The message delivered is the one the calls describe.
WritesTheDocument == Doc!Spec
=============================================================================
