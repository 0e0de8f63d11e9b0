------------------------- MODULE MCBgpUpdateReader -------------------------
(***************************************************************************)
(* The packets TLC reads.                                                  *)
(***************************************************************************)
EXTENDS BgpUpdateMeaning

Whole(items) == [items |-> items, cut |-> FALSE]
Broken(items) == [items |-> items, cut |-> TRUE]

Attr(c) == [code |-> c, afi |-> "v4", items |-> <<>>, cut |-> FALSE,
            nh |-> <<>>, nhcut |-> FALSE, path |-> EmptyPath, as |-> 0]
Mp(c, afi, items) == [Attr(c) EXCEPT !.afi = afi, !.items = items, !.nh = <<7, 8>>]
Comm(c, items) == [Attr(c) EXCEPT !.items = items]
Seg(ases) == [type |-> AS_SEGMENT_SEQ, ases |-> ases]
Path(c, segs) == [Attr(c) EXCEPT !.path = [segs |-> segs, cut |-> FALSE]]
Aggr(c, as) == [Attr(c) EXCEPT !.as = as]
Hop == [Attr("NEXT_HOP") EXCEPT !.nh = <<9>>]

Update(withdrawn, attrs, nlri) ==
    [update |-> TRUE, asn32 |-> FALSE, withdrawn |-> withdrawn,
     attrs |-> attrs, attrscut |-> FALSE, nlri |-> nlri]

Empty == Update(Whole(<<>>), <<>>, Whole(<<>>))

\* Both address families, next hops in both places, the lookups of one
\* iteration finding the attributes of another.
DualStack ==
    Update(Whole(<<1>>),
           <<Mp("MP_UNREACH_NLRI", "v6", <<2>>), Attr("ORIGIN"), Attr("OTHER"),
             Hop, Mp("MP_REACH_NLRI", "v6", <<4, 5>>)>>,
           Whole(<<3>>))

\* An OLD speaker's path with AS4_PATH and the two aggregators.
OldSpeaker ==
    Update(Whole(<<>>),
           <<Aggr("AS4_AGGREGATOR", 6), Aggr("AGGREGATOR", AS_TRANS),
             Path("AS_PATH", <<Seg(<<1>>), Seg(<<AS_TRANS>>)>>),
             Path("AS4_PATH", <<Seg(<<2>>)>>)>>,
           Whole(<<>>))

\* An OLD speaker aggregated last: AS4_PATH does not count.
Aggregated ==
    Update(Whole(<<>>),
           <<Aggr("AGGREGATOR", 5), Aggr("AS4_AGGREGATOR", 6),
             Path("AS_PATH", <<Seg(<<AS_TRANS>>)>>), Path("AS4_PATH", <<Seg(<<2>>)>>)>>,
           Whole(<<>>))

\* Communities, and the path of a NEW speaker.
Tagged ==
    [Update(Whole(<<>>),
            <<Comm("COMMUNITY", <<1, 2>>), Comm("LARGE_COMMUNITY", <<3>>),
              [Comm("EXTENDED_COMMUNITY", <<4>>) EXCEPT !.cut = TRUE],
              Path("AS_PATH", <<Seg(<<AS_TRANS>>)>>), Path("AS4_PATH", <<Seg(<<2>>)>>)>>,
            Whole(<<1>>)) EXCEPT !.asn32 = TRUE]

\* Damaged fields and families the library does not read.
Damaged ==
    [Update(Broken(<<1>>),
            <<Mp("MP_UNREACH_NLRI", "bad", <<2>>),
              [Mp("MP_REACH_NLRI", "v6", <<>>) EXCEPT !.nhcut = TRUE]>>,
            Broken(<<3>>)) EXCEPT !.attrscut = TRUE]
BadFamily ==
    Update(Whole(<<>>), <<Hop, Mp("MP_REACH_NLRI", "bad", <<2>>)>>, Whole(<<1>>))
NotAnUpdate == [Empty EXCEPT !.update = FALSE]

\* MP iterations are started inside iterations of routes, of a path and of
\* communities.
NestedTags ==
    Update(Whole(<<>>),
           <<Comm("COMMUNITY", <<1>>), Path("AS_PATH", <<Seg(<<AS_TRANS>>)>>),
             Mp("MP_UNREACH_NLRI", "v4", <<2>>)>>,
           Whole(<<3>>))

RoutePackets == {DualStack, Tagged, Damaged, BadFamily, NotAnUpdate}
PathPackets == {OldSpeaker, Aggregated}
NestedPackets == {NestedTags}
AllPackets == RoutePackets \union PathPackets \union NestedPackets
=============================================================================
