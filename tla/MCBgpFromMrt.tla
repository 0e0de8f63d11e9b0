---------------------------- MODULE MCBgpFromMrt ----------------------------
(* Instances of BgpFromMrt for TLC. *)
EXTENDS BgpFromMrt

AS(n) == <<0, 0, n \div 10, n % 10>>
BigAS == <<0, 1, 0, 7>>
Plain(code, data) == [code |-> code, data |-> data]
Path(segs) == [code |-> AS_PATH_CODE, path |-> segs]
Seg(type, asns) == [type |-> type, asns |-> asns]
ReachBy(nh) == [code |-> MP_REACH_NLRI_CODE, nh |-> nh]

Route(family, bitlen, bytes, attrs) ==
    [family |-> family, bitlen |-> bitlen, bytes |-> bytes, pathid |-> <<0, 0, 0, 5>>,
     attrs |-> attrs]

Origin == Plain(1, <<0>>)
Unreach == Plain(MP_UNREACH_NLRI_CODE, <<0, 2, 1>>)
Unknown == Plain(99, <<1, 2, 3, 4, 5, 6, 7, 8, 9, 10, 11, 12, 13>>)

MCPaths == {Path(<<>>), Path(<<Seg(2, <<AS(11), AS(12)>>), Seg(1, <<AS(13)>>)>>),
            Path(<<Seg(2, <<BigAS>>)>>)}
MCHops == {<<9, 9>>, <<9, 9, 9, 9, 9, 9>>}

MCRoutes ==
    {Route("v4", 8, <<10>>, <<Origin, p, Plain(3, <<1, 2, 3, 4>>)>>) : p \in MCPaths} \cup
    {Route("v6", 16, <<32, 1>>, <<Origin, p, Unreach, ReachBy(nh), Unknown>>) :
         p \in MCPaths, nh \in MCHops} \cup
    {Route("v6", 0, <<>>, <<Path(<<>>), ReachBy(<<9, 9>>)>>),
     Route("v6", 0, <<>>, <<Unreach, Origin>>)}

\* A header that announces more than there is, a segment cut before its end or
\* in its header, an attribute twice.
MCDamaged ==
    {[route |-> Route("v4", 8, <<10>>, <<>>), attrs |-> a] : a \in
        {<<[Attr(1, <<0>>) EXCEPT !.len = 2]>>,
         <<Attr(AS_PATH_CODE, <<2, 2, 0, 0, 0, 1>>), Attr(1, <<0>>)>>,
         <<Attr(AS_PATH_CODE, <<2>>)>>,
         <<Attr(1, <<0>>), Attr(1, <<1>>), Attr(MP_UNREACH_NLRI_CODE, <<0, 1, 1>>)>>}}
=============================================================================
