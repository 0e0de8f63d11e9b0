------------------------------- MODULE BgpOpen -------------------------------
(***************************************************************************)
(* Reading and writing the capabilities of a BGP OPEN message: a list of    *)
(* parameters, each a code, a length and a body, in which the parameters of *)
(* code CAPABILITY_CODE hold a list of capabilities of the same shape.      *)
(*                                                                         *)
(* Offsets count from PARAMS_OFFSET.  The bytes go from 0 to ByteMax, so    *)
(* that a length that does not fit in its byte can be told from one that    *)
(* does; what ByteMax stands for is 255.                                    *)
(***************************************************************************)
EXTENDS Integers, Sequences, SequencesExt

CONSTANTS ByteMax,    \* UINT8_MAX
          BufSize,    \* bytes of buf behind PARAMS_OFFSET; the client writes no more
          Caps,       \* capabilities the client writes, as bytes
          Lists,      \* parameter lists of the messages that are read
          RawLists,   \* parameter lists given to setbgpparams, as bytes
          Opens,      \* the fixed fields of an OPEN
          MaxPuts,    \* bound: capabilities put in one message
          Junk        \* the byte an earlier message left all over the buffer

CAPABILITY_CODE == 2
PARAM_HEADER_SIZE == 2
CAPABILITY_HEADER_SIZE == 2
CAPABILITY_SIZE_MAX == ByteMax
PARAM_LENGTH_MAX == ByteMax

Byte == 0..ByteMax

\* A capability is its code, its length and as many bytes.
IsCapability(c) == c \in Seq(Byte) /\ Len(c) >= 2 /\ c[2] = Len(c) - 2

\* A parameter as it was meant: its code, its capabilities, and by how many
\* bytes its length goes beyond them.
IsParam(p) ==
    /\ p.code \in Byte /\ p.excess \in Nat
    /\ \A i \in DOMAIN p.caps : IsCapability(p.caps[i])

ASSUME BytesAssumption == ByteMax \in Nat \ {0, 1}
ASSUME BufAssumption == BufSize \in Nat /\ BufSize > 2 * (ByteMax + 2)
ASSUME CapsAssumption ==
    \A c \in Caps : c \in Seq(Byte \cup {ByteMax + 1}) /\ Len(c) >= 2 /\ Len(c) = c[2] + 2
ASSUME ListsAssumption == \A l \in Lists : \A i \in DOMAIN l : IsParam(l[i])
ASSUME RawListsAssumption == \A l \in RawLists : l \in Seq(Byte) /\ Len(l) <= ByteMax

ASSUME JunkAssumption == Junk \subseteq Byte
ASSUME BoundAssumption == MaxPuts \in Nat

-----------------------------------------------------------------------------
VARIABLES
    msg,    \* the message
    says,   \* history: the capabilities the message should hold
    got     \* history: what nextbgpcap returned since startbgpcaps, and its end

vars == <<msg, says, got>>

None == "None"

Messages ==
    [type   : {"OPEN", "OTHER"},
     flags  : SUBSET {"F_RD", "F_WR", "F_PM"},
     err    : {"ENOERR", "EINVOP", "EBADPARAMLEN"},
     buf    : [0..BufSize - 1 -> Byte],
     plen   : Byte,        \* the byte at PARAMS_LENGTH_OFFSET
     marker : BOOLEAN,     \* the marker is whole
     length : Nat,         \* the length in the header, from PARAMS_OFFSET on
     pktlen : Nat,         \* pktlen, from PARAMS_OFFSET on
     params : Nat,
     pptr   : Nat,
     open   : Opens \cup {None}]

\* `own' is whether this program wrote the message, `whole' whether the list
\* was set by setbgpparams or begun again after a capability was put, `ends'
\* whether the parameters end where the list does.
Meanings == [caps : Seq(Seq(Byte)), own : BOOLEAN, whole : BOOLEAN, ends : BOOLEAN]

Gots == [caps : Seq(Seq(Byte)), null : BOOLEAN]

Nothing == [caps |-> <<>>, null |-> FALSE]

Filled(byte) == [i \in 0..BufSize - 1 |-> byte]

\* A message that is not in use; nothing of it is read before it is set.
Unused == [type |-> "OTHER", flags |-> {}, err |-> "ENOERR", buf |-> Filled(0),
           plen |-> 0, marker |-> TRUE, length |-> 0, pktlen |-> 0,
           params |-> 0, pptr |-> 0, open |-> None]

Unsaid == [caps |-> <<>>, own |-> TRUE, whole |-> FALSE, ends |-> TRUE]

Init == msg = Unused /\ says = Unsaid /\ got = Nothing

\* memcpy of the bytes s to offset off of buffer b.
Copied(b, off, s) ==
    [i \in DOMAIN b |-> IF off < i + 1 /\ i < off + Len(s) THEN s[i - off + 1] ELSE b[i]]

\* A byte behind the buffer is never looked at by a list of ByteMax bytes.
At(m, i) == IF i \in DOMAIN m.buf THEN m.buf[i] ELSE 0

Bytes(m, off, n) == [i \in 1..n |-> At(m, off + i - 1)]

Closed == msg.flags = {}

\* The CHECK macros.
Allowed(need) == msg.err = "ENOERR" /\ need \subseteq msg.flags
IsOpen == msg.type = "OPEN"
Refuse(m) == [m EXCEPT !.err = IF @ = "ENOERR" THEN "EINVOP" ELSE @]

-----------------------------------------------------------------------------
EncodeParam(p) ==
    LET body == FlattenSeq(p.caps)
    IN  <<p.code, Len(body) + p.excess>> \o body

Encode(list) == FlattenSeq([i \in DOMAIN list |-> EncodeParam(list[i])])

CapsOf(list) ==
    FlattenSeq([i \in DOMAIN list |->
        IF list[i].code = CAPABILITY_CODE THEN list[i].caps ELSE <<>>])

\* A message is read.  What lies behind it in the buffer is of no message.
setbgpread ==
    /\ Closed
    /\ \E list \in Lists, op \in Opens, junk \in Junk :
         LET bytes == Encode(list)
         IN  /\ msg' = [Unused EXCEPT !.type = "OPEN", !.flags = {"F_RD"},
                            !.buf = Copied(Filled(junk), 0, bytes), !.plen = Len(bytes),
                            !.length = Len(bytes), !.pktlen = Len(bytes), !.open = op]
             /\ says' = [caps |-> CapsOf(list), own |-> FALSE, whole |-> FALSE,
                         ends |-> \A i \in DOMAIN list : list[i].excess = 0]
    /\ UNCHANGED got

setbgpwrite(type) ==
    /\ Closed
    /\ \E junk \in Junk :
         msg' = [Unused EXCEPT !.type = type, !.flags = {"F_WR"}, !.buf = Filled(junk)]
    /\ UNCHANGED <<says, got>>

bgpclose ==
    /\ ~Closed
    /\ msg' = Unused /\ says' = Unsaid /\ got' = Nothing

-----------------------------------------------------------------------------
getbgpopen ==
    /\ ~Closed
    /\ ~(IsOpen /\ Allowed({"F_RD"}))
    /\ msg' = Refuse(msg)
    /\ UNCHANGED <<says, got>>

setbgpopen ==
    /\ ~Closed
    /\ IF IsOpen /\ Allowed({"F_WR"})
         THEN \E op \in Opens : msg' = [msg EXCEPT !.open = op]
         ELSE msg' = Refuse(msg)
    /\ UNCHANGED <<says, got>>

getbgpparams ==
    /\ ~Closed
    /\ ~(IsOpen /\ Allowed({}))
    /\ msg' = Refuse(msg)
    /\ UNCHANGED <<says, got>>

\* The length goes to PARAM_LENGTH_OFFSET, which is in the marker.
setbgpparams ==
    /\ ~Closed
    /\ IF IsOpen /\ Allowed({"F_WR"})
         THEN \E s \in RawLists :
                /\ msg' = [msg EXCEPT !.marker = Len(s) = ByteMax,
                               !.buf = Copied(@, 0, s), !.pktlen = Len(s)]
                /\ says' = [says EXCEPT !.whole = TRUE]
         ELSE msg' = Refuse(msg) /\ UNCHANGED says
    /\ UNCHANGED got
-----------------------------------------------------------------------------
\* Variant of EndCaps: the length of the list is not written.
EndCapsNoLength(m) ==
    IF m.err # "ENOERR" \/ "F_PM" \notin m.flags THEN Refuse(m)
    ELSE LET n == m.pptr - m.params - PARAM_HEADER_SIZE
         IN  [m EXCEPT !.flags = @ \ {"F_PM"},
                       !.buf = IF "F_WR" \in m.flags
                                 THEN Copied(@, m.params + 1, <<n % (ByteMax + 1)>>) ELSE @]

\* endbgpcaps on a message.
EndCaps(m) ==
    IF m.err # "ENOERR" \/ "F_PM" \notin m.flags THEN Refuse(m)
    ELSE IF "F_WR" \notin m.flags THEN [m EXCEPT !.flags = @ \ {"F_PM"}]
    ELSE LET n == m.pptr - m.params - PARAM_HEADER_SIZE
             e == [m EXCEPT !.buf = Copied(@, m.params + 1, <<n % (ByteMax + 1)>>)]
         IN  IF m.pptr > PARAM_LENGTH_MAX
               THEN [e EXCEPT !.err = "EINVOP"]
               ELSE [e EXCEPT !.plen = m.pptr, !.flags = @ \ {"F_PM"}]

EndPending(m) == IF "F_PM" \in m.flags THEN EndCaps(m) ELSE m

\* The result of endpending is ignored, and so is an error it meets.
startbgpcaps ==
    /\ ~Closed
    /\ IF IsOpen /\ Allowed({})
         THEN LET e == EndPending(msg)
              IN  /\ msg' = [e EXCEPT !.flags = @ \cup {"F_PM"}, !.params = 0, !.pptr = 0]
                  /\ says' = [says EXCEPT !.whole = @ \/ ("F_WR" \in msg.flags /\ says.caps # <<>>)]
                  /\ got' = Nothing
         ELSE msg' = Refuse(msg) /\ UNCHANGED <<says, got>>

endbgpcaps ==
    /\ ~Closed
    /\ msg' = EndCaps(msg)
    /\ UNCHANGED <<says, got>>

\* putbgpcap: the first one puts the header of the parameter in front.
Put(m, cap) ==
    LET first == m.pptr = m.params
        ptr   == IF first THEN m.pptr + PARAM_HEADER_SIZE ELSE m.pptr
        n     == CAPABILITY_HEADER_SIZE + cap[2]
        h     == [m EXCEPT !.buf = IF first THEN Copied(@, m.pptr, <<CAPABILITY_CODE, 0>>)
                                            ELSE @,
                           !.pktlen = @ + (ptr - m.pptr)]
    IN  IF n > CAPABILITY_SIZE_MAX
          THEN [h EXCEPT !.err = "EINVOP"]
          ELSE [h EXCEPT !.buf = Copied(@, ptr, cap), !.pptr = ptr + n, !.pktlen = @ + n]

\* The code has no test of the room left in buf: the client writes no more.
putbgpcap ==
    /\ ~Closed
    /\ \E cap \in Caps :
         IF Allowed({"F_WR", "F_PM"})
           THEN /\ msg.pptr + Len(cap) + PARAM_HEADER_SIZE <= BufSize
                /\ Len(says.caps) < MaxPuts
                /\ msg' = Put(msg, cap)
                /\ says' = IF msg'.err = "ENOERR" THEN [says EXCEPT !.caps = Append(@, cap)]
                                                  ELSE says
           ELSE msg' = Refuse(msg) /\ UNCHANGED says
    /\ UNCHANGED got
-----------------------------------------------------------------------------
\* The parameter at ptr, which is also msg->params, or the first one behind it
\* that holds capabilities, and where the reader believes it to end.
Skip(m, ptr, end) ==
    LET Ends(p) == p + PARAM_HEADER_SIZE + At(m, p + 1)
        Stops(p) == p >= m.plen \/ At(m, p) = CAPABILITY_CODE
        stop[p \in 0..2 * BufSize] == IF Stops(p) THEN p ELSE stop[Ends(p)]
        Found(p, e) == [over |-> p >= m.plen, params |-> p, end |-> e]
    IN  IF Stops(ptr) THEN Found(ptr, end) ELSE Found(stop[end], Ends(stop[end]))

\* Where nextbgpcap looks for a capability.  At the end of a parameter
\* msg->params moves on and the local `end' does not.
Place(m) ==
    LET end == m.params + PARAM_HEADER_SIZE + At(m, m.params + 1)
        pm  == IF m.pptr = end THEN end ELSE m.params
        w   == IF m.pptr = pm THEN Skip(m, pm, end)
                              ELSE [over |-> FALSE, params |-> pm, end |-> end]
    IN  [over |-> w.over, params |-> w.params, end |-> w.end,
         ptr |-> IF m.pptr = pm THEN w.params + PARAM_HEADER_SIZE ELSE m.pptr]

Taken(m, p) ==
    LET n == CAPABILITY_HEADER_SIZE + At(m, p.ptr + 1)
    IN  [msg |-> [m EXCEPT !.params = p.params, !.pptr = p.ptr + n],
         cap |-> Bytes(m, p.ptr, n)]

NoMore(m, p, err) ==
    [msg |-> [m EXCEPT !.params = p.params, !.err = err], cap |-> <<>>]

\* Variant of Next1: a parameter that runs past the list is not an error.
Next1Lenient(m) ==
    LET p == Place(m)
        n == CAPABILITY_HEADER_SIZE + At(m, p.ptr + 1)
    IN  IF p.over \/ p.ptr + n > p.end
          THEN NoMore(m, p, IF p.over THEN "ENOERR" ELSE "EBADPARAMLEN")
          ELSE Taken(m, p)

\* nextbgpcap: the message it leaves and the capability, none if <<>>.
Next1(m) ==
    LET p   == Place(m)
        n   == CAPABILITY_HEADER_SIZE + At(m, p.ptr + 1)
        bad == IF p.over THEN p.params > m.plen ELSE p.ptr + n > p.end
    IN  IF bad \/ p.over THEN NoMore(m, p, IF bad THEN "EBADPARAMLEN" ELSE "ENOERR")
                         ELSE Taken(m, p)

\* The client asks for no capability behind the last: msg->params may have moved
\* past msg->pptr by then.
nextbgpcap ==
    /\ ~Closed /\ ~got.null
    /\ IF Allowed({"F_RD", "F_PM"})
         THEN LET r == Next1(msg)
              IN  /\ msg' = r.msg
                  /\ got' = IF r.cap = <<>> THEN [got EXCEPT !.null = TRUE]
                                            ELSE [got EXCEPT !.caps = Append(@, r.cap)]
         ELSE msg' = Refuse(msg) /\ UNCHANGED got
    /\ UNCHANGED says

bgpfinish ==
    /\ ~Closed
    /\ IF Allowed({"F_WR"})
         THEN LET e == EndPending(msg)
              IN  msg' = [e EXCEPT !.length = e.pktlen,
                              !.flags = (@ \ {"F_WR"}) \cup {"F_RD"}]
         ELSE msg' = Refuse(msg)
    /\ UNCHANGED <<says, got>>

Next ==
    \/ setbgpread
    \/ \E type \in {"OPEN", "OTHER"} : setbgpwrite(type)
    \/ bgpclose \/ bgpfinish
    \/ getbgpopen \/ setbgpopen \/ getbgpparams \/ setbgpparams
    \/ startbgpcaps \/ nextbgpcap \/ putbgpcap \/ endbgpcaps

Spec == Init /\ [][Next]_vars
-----------------------------------------------------------------------------
(* The variables keep their types: what nextbgpcap_r and putbgpcap_r         *)
(* (bgp.c:863-940) store are bytes, and the pointers stay in the buffer.      *)
TypeOK ==
    /\ DOMAIN msg.buf = 0..BufSize - 1 /\ \A i \in DOMAIN msg.buf : msg.buf[i] \in Byte
    /\ [msg EXCEPT !.buf = Filled(0)] \in Messages
    /\ msg.params <= BufSize /\ msg.pptr <= BufSize
    /\ says \in Meanings /\ got \in Gots

(* nextbgpcap_r (bgp.c:863) returns the capabilities of the message in their  *)
(* order, skipping none and inventing none, over parameters of other codes,   *)
(* several parameters, and whatever a length byte is mistaken for; only when  *)
(* the last parameter runs past the list is anything returned behind them.    *)
(* When it says without an error that there are no more, none is missing and  *)
(* the last parameter ended where the list did.                               *)
CapsAreInOrder ==
    ~says.whole /\ "F_RD" \in msg.flags =>
        /\ \/ IsPrefix(got.caps, says.caps)
           \/ ~says.ends /\ IsPrefix(says.caps, got.caps)
        /\ got.null /\ msg.err = "ENOERR" => got.caps = says.caps /\ says.ends

(* What putbgpcap_r and endbgpcaps_r (bgp.c:912-968) leave behind, however    *)
(* calls were mixed: a message finished without error has a list as long as   *)
(* its header says, its marker, and can be read back without an error.        *)
WrittenIsReadable ==
    ~says.whole /\ says.own /\ "F_RD" \in msg.flags =>
        /\ msg.err # "EBADPARAMLEN"
        /\ msg.err = "ENOERR" /\ IsOpen =>
               msg.marker /\ msg.plen = msg.pktlen /\ msg.length = msg.pktlen

(* An iteration that has returned a capability of a well-formed list meets no *)
(* error behind it (the comment at bgp.c:873 has the iterator move to the     *)
(* next parameter).                                                           *)
EveryCapabilityIsRead ==
    says.ends /\ got.caps # <<>> /\ "F_RD" \in msg.flags => msg.err # "EBADPARAMLEN"
=============================================================================
