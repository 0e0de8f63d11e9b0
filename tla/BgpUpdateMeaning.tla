-------------------------- MODULE BgpUpdateMeaning -------------------------
(***************************************************************************)
(* What a packet says, independently of how bgp.c reads it, and the reader *)
(* as an implementation of FieldCursor over that meaning.                  *)
(***************************************************************************)
EXTENDS BgpUpdateReader, SequencesExt

Damage == [family |-> "damage", id |-> 0]

Stray(cut) == IF cut THEN <<Damage>> ELSE <<>>

\* The first attribute of a code, or 0.
FirstOf(p, c) ==
    LET s == {i \in DOMAIN p.attrs : p.attrs[i].code = c}
    IN  IF s = {} THEN 0 ELSE Min(s)

\* What f says of the attribute of code c; a damaged attribute list hides the
\* attributes that are not found in it.
OfAttr(p, c, f(_)) ==
    IF FirstOf(p, c) # 0 THEN f(p.attrs[FirstOf(p, c)])
    ELSE Stray(p.attrscut)

Routes(family, part) ==
    [i \in DOMAIN part.items |-> [family |-> family, id |-> part.items[i]]]
        \o Stray(part.cut)

MpRoutes(p, c) ==
    OfAttr(p, c, LAMBDA a : IF a.afi = "bad" THEN <<Damage>> ELSE Routes(a.afi, a))

Hops(family, ids) == [i \in DOMAIN ids |-> [family |-> family, id |-> ids[i]]]

NextHops(p) ==
    OfAttr(p, "NEXT_HOP", LAMBDA a : Hops("v4", a.nh))
      \o OfAttr(p, "MP_REACH_NLRI",
                LAMBDA a : IF a.afi = "bad" \/ a.nh = <<>> THEN <<Damage>>
                           ELSE Hops(a.afi, a.nh) \o Stray(a.nhcut))

Communities(p, c) ==
    OfAttr(p, c, LAMBDA a : [i \in DOMAIN a.items |-> [code |-> c, id |-> a.items[i]]]
                                \o Stray(a.cut))

\* The elements of a path, with the number of the segment each is in.
PathElements(path, wide) ==
    FlattenSeq([s \in DOMAIN path.segs |->
        [a \in DOMAIN path.segs[s].ases |->
            [as |-> path.segs[s].ases[a], type |-> path.segs[s].type,
             segno |-> s - 1, wide |-> wide]]]) \o Stray(path.cut)

AsPath(p, c, wide) == OfAttr(p, c, LAMBDA a : PathElements(a.path, wide))

\* The part of a path before its n-th element, then another path whose segments
\* are numbered on from the segment of that element.
Spliced(old, n, new) ==
    LET seg == IF new = <<>> THEN 0 ELSE old[n].segno + 1
    IN  SubSeq(old, 1, n - 1) \o [i \in DOMAIN new |-> [new[i] EXCEPT !.segno = @ + seg]]

\* RFC 6793, 4.2.3, for paths of AS_SEQUENCEs: as many elements of AS_PATH as
\* AS4_PATH is shorter, then AS4_PATH, unless AGGREGATOR says to ignore it.
RealPath(p) ==
    LET plain == AsPath(p, "AS_PATH", p.asn32)
        aggr  == FirstOf(p, "AGGREGATOR")
        aggr4 == FirstOf(p, "AS4_AGGREGATOR")
        as4   == FirstOf(p, "AS4_PATH")
        path  == p.attrs[FirstOf(p, "AS_PATH")].path
        old   == PathElements(path, FALSE)
        new   == PathElements(p.attrs[as4].path, TRUE)
    IN  IF p.asn32 \/ FirstOf(p, "AS_PATH") = 0                  THEN plain
        ELSE IF p.attrscut /\ (aggr = 0 \/ aggr4 = 0)            THEN <<Damage>>
        ELSE IF aggr # 0 /\ aggr4 # 0 /\ p.attrs[aggr].as # AS_TRANS THEN plain
        ELSE IF as4 = 0                                          THEN plain \o Stray(p.attrscut)
        ELSE IF path.cut \/ p.attrs[as4].path.cut                THEN <<Damage>>
        ELSE IF Len(old) < Len(new)                              THEN plain
        ELSE Spliced(old, Len(old) - Len(new) + 1, new)

Kinds == [withdrawn    |-> "F_WITHDRN",  allwithdrawn |-> "F_WITHDRN",
          mpunreach    |-> "F_WITHDRN",  nlri         |-> "F_NLRI",
          allnlri      |-> "F_NLRI",     mpreach      |-> "F_NLRI",
          attribs      |-> "F_PATTR",    aspath       |-> "F_ASPATH",
          as4path      |-> "F_ASPATH",   realaspath   |-> "F_ASPATH",
          nhop         |-> "F_NHOP",     community    |-> "F_COMMUNITY",
          excommunity  |-> "F_COMMUNITY", largecommunity |-> "F_COMMUNITY"]

Meaning(p) ==
    [withdrawn    |-> Routes("v4", p.withdrawn),
     mpunreach    |-> MpRoutes(p, "MP_UNREACH_NLRI"),
     allwithdrawn |-> Routes("v4", p.withdrawn) \o MpRoutes(p, "MP_UNREACH_NLRI"),
     nlri         |-> Routes("v4", p.nlri),
     mpreach      |-> MpRoutes(p, "MP_REACH_NLRI"),
     allnlri      |-> Routes("v4", p.nlri) \o MpRoutes(p, "MP_REACH_NLRI"),
     attribs      |-> [i \in DOMAIN p.attrs |-> [at |-> i]] \o Stray(p.attrscut),
     aspath       |-> AsPath(p, "AS_PATH", p.asn32),
     as4path      |-> AsPath(p, "AS4_PATH", TRUE),
     realaspath   |-> RealPath(p),
     nhop         |-> NextHops(p),
     community      |-> Communities(p, "COMMUNITY"),
     excommunity    |-> Communities(p, "EXTENDED_COMMUNITY"),
     largecommunity |-> Communities(p, "LARGE_COMMUNITY")]
\* The meaning of every packet, computed once.
Meanings == [p \in Packets |-> Meaning(p)]
Says(p) == Meanings[p]
-----------------------------------------------------------------------------
\* The refinement mapping: what is left of the pending iteration.
From(items, n) == SubSeq(items, n + 1, Len(items))

CursorLeft(k) ==
    LET u   == msg.uit
        own == CASE u.field = k.own -> Says(pkt)[k.own]
                 [] OTHER -> IF u.at = 0 THEN <<>>
                             ELSE Routes(pkt.attrs[u.at].afi, pkt.attrs[u.at])
    IN  From(own, u.pos) \o (IF k.all \in msg.flags THEN MpRoutes(pkt, k.code) ELSE <<>>)

PathLeft ==
    LET asp  == msg.iter
        segs == <<[asp.seg EXCEPT !.ases = From(@, asp.segi)]>> \o asp.rest
        left == [i \in DOMAIN PathElements([segs |-> segs, cut |-> FALSE], asp.wide) |->
                    [PathElements([segs |-> segs, cut |-> FALSE], asp.wide)[i]
                        EXCEPT !.segno = @ + asp.segno]]
    IN  IF asp.ascount = Unchecked
          THEN left \o Stray(asp.cut)
          ELSE Spliced(left, asp.ascount + 1, PathElements(asp.as4, TRUE))

HopsLeft ==
    Hops(msg.family, msg.iter.rest) \o Stray(msg.iter.cut)
      \o (IF ~msg.iter.mp THEN <<>>
          ELSE IF msg.iter.mprest = <<>> THEN <<Damage>>
          ELSE Hops(msg.iter.mpfamily, msg.iter.mprest) \o Stray(msg.iter.mpcut))

PendingField == IF Pending(msg) = {} THEN "none" ELSE CHOOSE f \in Pending(msg) : TRUE

Left ==
    CASE PendingField = "none"        -> <<>>
      [] PendingField = "F_WITHDRN"   -> CursorLeft(WithdrawnKind)
      [] PendingField = "F_NLRI"      -> CursorLeft(NlriKind)
      [] PendingField = "F_PATTR"     -> From(Says(pkt).attribs, msg.uit.pos)
      [] PendingField = "F_ASPATH"    -> PathLeft
      [] PendingField = "F_NHOP"      -> HopsLeft
      [] PendingField = "F_COMMUNITY" ->
            IF msg.uit.at = 0 THEN <<>> ELSE From(Communities(pkt, msg.iter.ccode), msg.uit.pos)

Usable == open /\ msg.err = "ENOERR"

\* A packet is open whose iterations the client does not nest.  With nested ones
\* there is no single iteration pending, which FieldCursor promises: while such
\* a packet is read no message counts as open.
Reading == open /\ pkt \notin Nested

AllDocs == {Meanings[p] : p \in Packets}

FC == INSTANCE FieldCursor WITH
        Docs   <- AllDocs,
        NoDoc  <- [closed |-> TRUE],
        Field  <- Kinds,
        Damage <- Damage,
        doc    <- IF Reading THEN Says(pkt) ELSE [closed |-> TRUE],
        field  <- IF Reading /\ Usable THEN PendingField ELSE "none",
        rest   <- IF Reading /\ Usable THEN Left ELSE <<>>,
        got    <- IF Reading /\ Usable THEN got ELSE <<>>,
        failed <- CASE ~Reading \/ msg.err = "ENOERR" -> "no"
                    [] Reading /\ msg.err = "EINVOP"  -> "misused"
                    [] OTHER                          -> "damaged"

\* Every iteration of the reader, with lookups at any moment and starts at any
\* moment, returns the items its field holds: the switch to the multiprotocol
\* attribute, the lookups behind it, the merge of AS_PATH and AS4_PATH and the
\* two sources of next hops lose, repeat, reorder or mislabel nothing, and a
\* call fails only on a damaged message or when it is not allowed.  (It says
\* nothing of the Nested packets, whose iterations share one cursor.)
ReadsWhatThePacketSays == FC!Spec
-----------------------------------------------------------------------------
\* The attribute a lookup must return.
Expected(p, c) ==
    IF c = "REAL_AGGREGATOR"
      THEN LET aggr  == FirstOf(p, "AGGREGATOR")
               aggr4 == FirstOf(p, "AS4_AGGREGATOR")
           IN  IF aggr # 0 /\ aggr4 # 0 /\ p.attrs[aggr].as = AS_TRANS THEN aggr4 ELSE aggr
      ELSE FirstOf(p, c)

\* The attribute of which code a lookup is named for.
NamedFor(call) == IF call = As4AggregatorOfThread THEN "AS4_AGGREGATOR" ELSE call

\* What a lookup finds is the attribute it is named for.
Finds(call) ==
    LET l == Lookup(msg, Sought(call))
    IN  l.msg.err = "ENOERR" => l.at = Expected(pkt, NamedFor(call))

\* At any moment a lookup returns the attribute it is named for, however many
\* lookups and iterations filled the offset table before, and NULL only if the
\* packet has none or the attribute list is damaged: every lookup but
\* getbgpas4aggregator(), which returns AGGREGATOR (bgp.c:2091).  (Packets that
\* repeat a notable attribute are left out of the run that checks it: there the
\* answer depends on what was read before.)
LookupsAreRight ==
    Usable =>
        /\ \A call \in Lookups \ {As4AggregatorOfThread} : Finds(call)
        /\ LET l == RealAggregator(msg)
           IN  l.msg.err = "ENOERR" => l.at = Expected(pkt, "REAL_AGGREGATOR")

\* So does every lookup (bgp.h:576-613 declares them side by side).  Does not
\* hold: getbgpas4aggregator() returns AGGREGATOR.
EveryLookupIsRight == Usable => \A call \in Lookups : Finds(call)
=============================================================================
