----------------------------- MODULE BgpFromMrt -----------------------------
(***************************************************************************)
(* rebuildbgpfrommrt: an UPDATE is rebuilt from the attributes that an MRT *)
(* table dump keeps of a route and from the prefix of the route.           *)
(*                                                                         *)
(* The dump is external.  It keeps the attributes of the route, with AS    *)
(* paths of 32 bits, or of 16 bits in the legacy format; and of MP_REACH   *)
(* its next hop only, but for the variation that keeps it whole.           *)
(*                                                                         *)
(* Attributes are a code and the bytes of their value, with the length     *)
(* that their header announces; one step is one turn of the loop over      *)
(* them.  Whether the message has room for them is not modelled.           *)
(***************************************************************************)
EXTENDS Integers, Sequences, SequencesExt, FiniteSets

CONSTANTS Routes,   \* what is dumped
          Damaged,  \* attribute lists that no dump holds, with their route
          ByteMax   \* 255: a longer value needs an extended length

Formats == {"std", "full", "legacy"}
FlagNames == {"ADDPATH", "ASN32BIT", "STDMRT", "FULLMPREACH", "STRIPUNREACH", "LEGACYMRT"}

AS_PATH_CODE == 2
MP_REACH_NLRI_CODE == 14
MP_UNREACH_NLRI_CODE == 15
NotableCodes == {1, 2, 3, 4, 6, 7, 8, 14, 15, 16, 17, 18, 32}
NotFound == -1

AFI == [v4 |-> <<0, 1>>, v6 |-> <<0, 2>>]
SAFI_UNICAST == 1

\* Every byte of a value is at most ByteMax, and a prefix fills its bits.
ASSUME RouteAssumption == \A r \in Routes : r.family \in {"v4", "v6"}

VARIABLES route,   \* nlri, and the attributes of the route that was dumped
          format,  \* of the dump; "none" for a damaged list
          flags,   \* of the call
          left,    \* the attributes not read yet
          out,     \* the attributes written
          nlri,    \* the NLRI behind them
          offtab,  \* where the notable attributes are, as written
          res      \* "running", then "ENOERR", "EBADATTR", or "stray"

vars == <<route, format, flags, left, out, nlri, offtab, res>>

-----------------------------------------------------------------------------
(* Values *)
Attr(code, data) == [code |-> code, data |-> data, len |-> Len(data), ext |-> Len(data) > ByteMax]

\* The AS path: segments of ASes, each four bytes or the last two of them.
Segment(s, wide) ==
    <<s.type, Len(s.asns)>> \o
    FlattenSeq([i \in DOMAIN s.asns |-> IF wide THEN s.asns[i] ELSE SubSeq(s.asns[i], 3, 4)])
PathBytes(path, wide) == FlattenSeq([i \in DOMAIN path |-> Segment(path[i], wide)])

\* The prefix, in the NLRI and in MP_REACH.
PathId(r, addpath) == IF addpath THEN r.pathid ELSE <<>>
Prefix(r, addpath) == PathId(r, addpath) \o <<r.bitlen>> \o r.bytes
Hop(nh) == <<Len(nh)>> \o nh
Reach(r, hop, addpath) ==
    AFI[r.family] \o <<SAFI_UNICAST>> \o hop \o <<0>> \o Prefix(r, addpath)

\* What a dump keeps of an attribute.
Dumped(r, a, form) ==
    CASE a.code = AS_PATH_CODE -> Attr(a.code, PathBytes(a.path, form # "legacy"))
      [] a.code = MP_REACH_NLRI_CODE /\ form = "std" -> Attr(a.code, Hop(a.nh))
      [] a.code = MP_REACH_NLRI_CODE /\ form # "std" -> Attr(a.code, Reach(r, Hop(a.nh), FALSE))
      [] OTHER -> Attr(a.code, a.data)
Dump(r, form) == [i \in DOMAIN r.attrs |-> Dumped(r, r.attrs[i], form)]

\* An AS of more than 16 bits.
Wide(r) == \E i \in DOMAIN r.attrs : r.attrs[i].code = AS_PATH_CODE /\
               \E s \in Range(r.attrs[i].path) : \E n \in Range(s.asns) : SubSeq(n, 1, 2) # <<0, 0>>

-----------------------------------------------------------------------------
(* The flags of the call, and those of the message *)
Legacy == "LEGACYMRT" \in flags
Effective == IF Legacy THEN (flags \ {"ASN32BIT", "ADDPATH", "STDMRT"}) \cup {"FULLMPREACH"}
             ELSE flags
Is(flag) == flag \in Effective

Init ==
    /\ flags \in SUBSET FlagNames
    /\ \/ /\ route \in Routes /\ format \in Formats /\ (format = "legacy" => ~Wide(route))
          /\ left = Dump(route, format)
       \/ /\ format = "none"
          /\ \E d \in Damaged : route = d.route /\ left = d.attrs
    /\ out = <<>> /\ nlri = <<>> /\ res = "running"
    /\ offtab = [c \in NotableCodes |-> NotFound]

\* Bytes of an attribute as written, of all attributes.
SizeOf(a) == (IF a.ext THEN 4 ELSE 3) + Len(a.data)
Size(attrs) == FoldSeq(LAMBDA a, n : n + SizeOf(a), 0, attrs)

\* ismrttruncated, with its guess for when no flag tells.
ismrttruncated(data) == SubSeq(data, 1, 3) # AFI.v6 \o <<SAFI_UNICAST>>
Truncated(data) ==
    ~Is("FULLMPREACH") /\ (Is("STDMRT") \/ ismrttruncated(data))

\* A value that is read past its end: what follows is not modelled.
Strays(data) == ~Truncated(data) /\ (Len(data) < 4 \/ Len(data) < 4 + data[4])

\* Variant of NextHop: the length is left out.
NextHopNoLength(data) == IF Truncated(data) THEN data ELSE SubSeq(data, 5, 4 + data[4])

\* The next hop and its length: all of the data, or what is behind its family.
NextHop(data) == IF Truncated(data) THEN data ELSE SubSeq(data, 4, 4 + data[4])

\* The AS path with its ASes cut to 16 bits, from the byte i on; none when a
\* segment is not whole or an AS has more bits.
Narrow(data) ==
    LET narrow[i \in 1..Len(data) + 1] ==
        LET next == i + 2 + 4 * data[i + 1]
            ases == [k \in 1..data[i + 1] |-> SubSeq(data, i - 2 + 4 * k, i + 1 + 4 * k)]
        IN  CASE i > Len(data) -> {<<>>}
              [] i = Len(data) -> {}
              [] i < Len(data) /\ next > Len(data) + 1 -> {}
              [] OTHER ->
                   IF \E k \in DOMAIN ases : SubSeq(ases[k], 1, 2) # <<0, 0>> THEN {}
                   ELSE {SubSeq(data, i, i + 1)
                             \o FlattenSeq([k \in DOMAIN ases |-> SubSeq(ases[k], 3, 4)]) \o rest :
                         rest \in narrow[next]}
    IN  narrow[1]

\* Variant of Kept: an attribute that is stripped leaves its offset.
KeptStripped(c) == c \in NotableCodes

\* Whether the offset table keeps where an attribute went.
Kept(c) == c \in NotableCodes /\ ~(c = MP_UNREACH_NLRI_CODE /\ Is("STRIPUNREACH"))

\* What is written for an attribute, none when it is wrong.
Rewritten(a) ==
    CASE a.code = MP_REACH_NLRI_CODE ->
            {<<Attr(a.code, Reach(route, NextHop(a.data), Is("ADDPATH")))>>}
      [] a.code = MP_UNREACH_NLRI_CODE -> {IF Is("STRIPUNREACH") THEN <<>> ELSE <<a>>}
      [] a.code = AS_PATH_CODE /\ ~Is("ASN32BIT") /\ ~Legacy ->
            {<<[a EXCEPT !.data = d, !.len = Len(d)]>> : d \in Narrow(a.data)}
      [] OTHER -> {<<a>>}

\* bgpclose behind the label error.
Fail == res' = "EBADATTR" /\ left' = <<>> /\ UNCHANGED <<out, nlri, offtab>>

Attribute ==
    /\ res = "running" /\ left # <<>>
    /\ LET a == Head(left) IN
       IF a.len # Len(a.data) THEN Fail
       ELSE IF a.code = MP_REACH_NLRI_CODE /\ Strays(a.data)
       THEN res' = "stray" /\ UNCHANGED <<left, out, nlri, offtab>>
       ELSE IF Rewritten(a) = {} THEN Fail
       ELSE \E new \in Rewritten(a) :
               /\ out' = out \o new /\ left' = Tail(left)
               /\ offtab' = IF a.code \notin NotableCodes THEN offtab
                            ELSE [offtab EXCEPT ![a.code] = IF Kept(a.code) THEN Size(out)
                                                                            ELSE NotFound]
               /\ UNCHANGED <<nlri, res>>
    /\ UNCHANGED <<route, format, flags>>

\* A prefix of IPv6 is in MP_REACH, one of IPv4 behind the attributes.
Finish ==
    /\ res = "running" /\ left = <<>>
    /\ IF route.family = "v6" /\ \A i \in DOMAIN out : out[i].code # MP_REACH_NLRI_CODE
       THEN Fail
       ELSE /\ res' = "ENOERR"
            /\ nlri' = IF route.family = "v4" THEN Prefix(route, Is("ADDPATH")) ELSE <<>>
            /\ UNCHANGED <<left, out, offtab>>
    /\ UNCHANGED <<route, format, flags>>

Next == Attribute \/ Finish

Spec == Init /\ [][Next]_vars
-----------------------------------------------------------------------------
(* The flags that tell the format as it is; without one, the guess is right    *)
(* for IPv6.                                                                   *)
Suits ==
    CASE format = "legacy" -> Legacy
      [] format = "std"    -> ~Legacy /\ "FULLMPREACH" \notin flags
      [] format = "full"   -> /\ ~Legacy
                              /\ \/ "FULLMPREACH" \in flags
                                 \/ "STDMRT" \notin flags /\ route.family = "v6"
      [] OTHER -> FALSE

\* The attributes of the UPDATE that announced the route.
Announced(a) ==
    CASE a.code = AS_PATH_CODE -> Attr(a.code, PathBytes(a.path, Is("ASN32BIT")))
      [] a.code = MP_REACH_NLRI_CODE -> Attr(a.code, Reach(route, Hop(a.nh), Is("ADDPATH")))
      [] OTHER -> Attr(a.code, a.data)
Meant == SelectSeq(route.attrs, LAMBDA a : a.code # MP_UNREACH_NLRI_CODE \/ ~Is("STRIPUNREACH"))
Told(a) == [code |-> a.code, data |-> a.data, len |-> a.len]

HasReach == \E i \in DOMAIN route.attrs : route.attrs[i].code = MP_REACH_NLRI_CODE

(* The UPDATE that is rebuilt is the one that announced the route: with its    *)
(* attributes and lengths that their headers can hold, its path as wide as the *)
(* message says, its next hop, and its prefix once; and there is one unless an *)
(* AS does not fit or an IPv6 route has no MP_REACH (bgp.c:366-606).  An IPv4  *)
(* prefix that came with MP_REACH is announced twice (bgp.c:583).              *)
RebuildsTheRoute ==
    Suits /\ res # "running" =>
        /\ res = "ENOERR" <=> /\ Wide(route) => Is("ASN32BIT")
                              /\ route.family = "v6" => HasReach
        /\ res = "ENOERR" =>
             /\ [i \in DOMAIN out |-> Told(out[i])] = [i \in DOMAIN Meant |-> Told(Announced(Meant[i]))]
             /\ \A i \in DOMAIN out : out[i].len > ByteMax => out[i].ext
             /\ nlri = IF route.family = "v4" THEN Prefix(route, Is("ADDPATH")) ELSE <<>>

(* The offset table that is filled while writing, and that reading trusts, is  *)
(* true of what was written: an attribute is found where it is, and the last   *)
(* of its kind; one that is not there is known not to be (bgp.c:420-427).      *)
OffsetsAreTrue ==
    \A c \in NotableCodes :
        LET at == {i \in DOMAIN out : out[i].code = c}
        IN  IF at = {} THEN offtab[c] = NotFound
            ELSE \E i \in at : /\ \A j \in at : j <= i
                               /\ offtab[c] = Size(SubSeq(out, 1, i - 1))
=============================================================================
