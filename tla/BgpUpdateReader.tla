-------------------------- MODULE BgpUpdateReader --------------------------
(***************************************************************************)
(* Reading one BGP message at a time through a bgp_msg_t: the calls of     *)
(* bgp.c that iterate over the fields of an UPDATE, the attribute lookups  *)
(* with their offset table, and the sticky error code.                     *)
(*                                                                         *)
(* The packet is the data of the message: for every variable length field  *)
(* the items it holds, in order, and whether bytes that cannot be decoded  *)
(* as one more item follow them (cut).  A pointer into the packet is a     *)
(* field and the number of its items that lie before it.                   *)
(*                                                                         *)
(* The client is any sequence of calls, within the rules the library       *)
(* leaves to it: nothing but setbgpread on a closed message, and a next    *)
(* call only for the iteration the shared cursor was last given to.        *)
(***************************************************************************)
EXTENDS BgpAsPath

CONSTANTS Packets,   \* the messages a client may open
          Nested     \* those inside of whose iterations it starts MP iterations

-----------------------------------------------------------------------------
\* Flags of bgp_msg_t.  The flags of a pending iteration come in the order in
\* which endpending tests them.
PendingOrder == <<"F_WITHDRN", "F_PATTR", "F_NLRI", "F_ASPATH", "F_COMMUNITY", "F_NHOP">>
PendingFlags == {PendingOrder[i] : i \in 1..6}
Flags == PendingFlags \cup {"F_RD", "F_ALLWITHDRN", "F_ALLNLRI", "F_REALASPATH"}

Errors == {"ENOERR", "EINVOP", "EBADWDRWN", "EBADATTR", "EBADNLRI"}

NotableCodes ==
    {"AS_PATH", "ORIGIN", "ATOMIC_AGGREGATE", "AGGREGATOR", "NEXT_HOP", "COMMUNITY",
     "MP_REACH_NLRI", "MP_UNREACH_NLRI", "EXTENDED_COMMUNITY", "AS4_PATH",
     "AS4_AGGREGATOR", "LARGE_COMMUNITY"}
CommunityCodes == {"COMMUNITY", "EXTENDED_COMMUNITY", "LARGE_COMMUNITY"}

AS_TRANS == 23456

\* An attribute holds what the reader takes from it: the address family and
\* the items of MP_REACH_NLRI, MP_UNREACH_NLRI and the communities, the next
\* hops of NEXT_HOP and MP_REACH_NLRI, the path of AS_PATH and AS4_PATH, the AS
\* of AGGREGATOR and AS4_AGGREGATOR.  The family "bad" is any AFI or SAFI the
\* library does not read.
Attributes ==
    [code : STRING, afi : {"v4", "v6", "bad"}, items : Seq(Nat), cut : BOOLEAN,
     nh : Seq(Nat), nhcut : BOOLEAN,
     path : Paths, as : Nat]

ASSUME PacketsAssumption ==
    \A p \in Packets :
        /\ p.update \in BOOLEAN                           \* its type is BGP_UPDATE
        /\ p.asn32 \in BOOLEAN                            \* opened with BGPF_ASN32BIT
        /\ p.withdrawn \in [items : Seq(Nat), cut : BOOLEAN]
        /\ p.attrs \in Seq(Attributes) /\ p.attrscut \in BOOLEAN
        /\ \A i \in DOMAIN p.attrs :                     \* four bytes of data
              p.attrs[i].code = "NEXT_HOP" => Len(p.attrs[i].nh) = 1
        /\ p.nlri \in [items : Seq(Nat), cut : BOOLEAN]

ASSUME NestedAssumption == Nested \subseteq Packets

-----------------------------------------------------------------------------
VARIABLES pkt,    \* the packet msg->buf holds, kept when the message is closed
          open,   \* between setbgpread and bgpclose
          msg,    \* bgp_msg_t
          got     \* what the last call of an iteration returned: an item or NULL

vars == <<pkt, open, msg, got>>

Unknown  == 0     \* offset table: attribute not searched yet
NotFound == -1    \* OFFSET_NOT_FOUND

Null == [field |-> "null", at |-> 0, pos |-> 0]
Cursor(field, at) == [field |-> field, at |-> at, pos |-> 0]

\* The union of the path, next hop and community iterators.
HopIters == [rest : Seq(Nat), cut : BOOLEAN, mp : BOOLEAN,
             mprest : Seq(Nat), mpcut : BOOLEAN, mpfamily : {"v4", "v6"}]
CommunityIters == [ccode : CommunityCodes]

NoHops == [rest |-> <<>>, cut |-> FALSE,
           mp |-> FALSE, mprest |-> <<>>, mpcut |-> FALSE, mpfamily |-> "v4"]
-----------------------------------------------------------------------------
\* The uptr/uend pair: what is left of the field the cursor is in.
Content(u) ==
    CASE u.field = "withdrawn" -> pkt.withdrawn.items
      [] u.field = "attrs"     -> pkt.attrs
      [] u.field = "nlri"      -> pkt.nlri.items
      [] OTHER                 -> IF u.at = 0 THEN <<>> ELSE pkt.attrs[u.at].items

Cut(u) ==
    CASE u.field = "withdrawn" -> pkt.withdrawn.cut
      [] u.field = "attrs"     -> pkt.attrscut
      [] u.field = "nlri"      -> pkt.nlri.cut
      [] OTHER                 -> u.at # 0 /\ pkt.attrs[u.at].cut

AllRead(u) == u.pos >= Len(Content(u))
AtEnd(u) == AllRead(u) /\ ~Cut(u)       \* uptr == uend

\* The CHECK macros: an operation runs only on a message without error that has
\* the flags it needs; otherwise the first error is kept, or is EINVOP.
Allowed(m, need) == m.err = "ENOERR" /\ need \subseteq m.flags
\* Variant of Refuse: the error of the last call is kept.
RefuseLast(m) == [m EXCEPT !.err = "EINVOP"]
Refuse(m) == [m EXCEPT !.err = IF @ = "ENOERR" THEN "EINVOP" ELSE @]
Raise(m, e) == [m EXCEPT !.err = e]

Pending(m) == m.flags \cap PendingFlags
OnePending(m) == \A f, g \in Pending(m) : f = g

\* The flags each end function clears.
Clears(f) ==
    {f} \cup (CASE f = "F_WITHDRN" -> {"F_ALLWITHDRN"}
                [] f = "F_NLRI"    -> {"F_ALLNLRI"}
                [] f = "F_ASPATH"  -> {"F_REALASPATH"}
                [] OTHER           -> {})

EndIteration(m, f) ==
    IF Allowed(m, {f}) THEN [m EXCEPT !.flags = @ \ Clears(f)] ELSE Refuse(m)

EndPending(m) ==
    LET set == {i \in 1..6 : PendingOrder[i] \in m.flags}
    IN  IF set = {} THEN m ELSE EndIteration(m, PendingOrder[Min(set)])
-----------------------------------------------------------------------------
\* The offset table after nextbgpattrib has returned attributes 1 .. n in turn.
Recorded(offtab, n) ==
    [c \in NotableCodes |->
        LET seen == {i \in 1..n : pkt.attrs[i].code = c}
        IN  IF seen = {} THEN offtab[c] ELSE Max(seen)]

\* The scan of seekbgpattr: it stops at the first attribute of the code, or at
\* the last attribute there is.
Hits(c) == {i \in DOMAIN pkt.attrs : pkt.attrs[i].code = c}
ScanEnd(c) == IF Hits(c) = {} THEN Len(pkt.attrs) ELSE Min(Hits(c))
Scan(m, c) == Recorded(m.offtab, ScanEnd(c))
Remapped(offtab) ==
    [d \in NotableCodes |-> IF offtab[d] = Unknown THEN NotFound ELSE offtab[d]]

\* A scan that fails does not restore the iteration it interrupted.
ScanFailed(m, c) ==
    [EndPending(m) EXCEPT !.flags  = @ \cup {"F_PATTR"},
                          !.uit    = [Cursor("attrs", 0) EXCEPT !.pos = ScanEnd(c)],
                          !.offtab = Scan(m, c),
                          !.err    = "EBADATTR"]

\* Variant of Lookup: a scan that stops at the attribute it looks for marks the
\* others as not found.
LookupMarksAll(m, c) ==
    IF ~pkt.update \/ ~Allowed(m, {"F_RD"})
      THEN [msg |-> Refuse(m), at |-> 0]
    ELSE IF m.offtab[c] # Unknown
      THEN [msg |-> m, at |-> IF m.offtab[c] = NotFound THEN 0 ELSE m.offtab[c]]
    ELSE [msg |-> [m EXCEPT !.offtab = Remapped(Scan(m, c))],
          at  |-> IF Hits(c) = {} THEN 0 ELSE ScanEnd(c)]

\* seekbgpattr: at is the position of the attribute, 0 for NULL.
Lookup(m, c) ==
    IF ~pkt.update \/ ~Allowed(m, {"F_RD"})
      THEN [msg |-> Refuse(m), at |-> 0]
    ELSE IF m.offtab[c] # Unknown
      THEN [msg |-> m, at |-> IF m.offtab[c] = NotFound THEN 0 ELSE m.offtab[c]]
    ELSE IF Hits(c) # {}
      THEN [msg |-> [m EXCEPT !.offtab = Scan(m, c)], at |-> ScanEnd(c)]
    ELSE IF pkt.attrscut
      THEN [msg |-> ScanFailed(m, c), at |-> 0]
    ELSE [msg |-> [m EXCEPT !.offtab = Remapped(Scan(m, c))], at |-> 0]

AttrAt(l) == pkt.attrs[l.at]

\* getrealbgpaggregator_r: AS4_AGGREGATOR counts when AGGREGATOR is AS_TRANS.
RealAggregator(m) ==
    LET aggr  == Lookup(m, "AGGREGATOR")
        aggr4 == Lookup(aggr.msg, "AS4_AGGREGATOR")
    IN  IF ~pkt.update \/ ~Allowed(m, {"F_RD"})
          THEN [msg |-> Refuse(m), at |-> 0]
        ELSE IF aggr.at = 0 \/ AttrAt(aggr).as # AS_TRANS
          THEN aggr
        ELSE IF aggr4.at = 0 THEN [aggr4 EXCEPT !.at = aggr.at] ELSE aggr4
-----------------------------------------------------------------------------
\* Withdrawn routes and NLRI.  The two sets of functions differ in the names
\* below only.
WithdrawnKind == [flag |-> "F_WITHDRN", all |-> "F_ALLWITHDRN", own |-> "withdrawn",
                  mp |-> "mpunreach", code |-> "MP_UNREACH_NLRI", bad |-> "EBADWDRWN"]
NlriKind == [flag |-> "F_NLRI", all |-> "F_ALLNLRI", own |-> "nlri",
             mp |-> "mpreach", code |-> "MP_REACH_NLRI", bad |-> "EBADNLRI"]

\* dostartwithdrawn and dostartnlri.
StartPrefixes(m, k, flags) ==
    IF ~pkt.update \/ ~Allowed(m, {"F_RD"})
      THEN Refuse(m)
      ELSE [EndPending(m) EXCEPT !.flags  = @ \cup flags,
                                 !.uit    = Cursor(k.own, 0),
                                 !.family = "v4"]

\* startmpunreachnlri_r and startmpreachnlri_r: no endpending.
StartMpPrefixes(m, k) ==
    IF ~pkt.update \/ ~Allowed(m, {"F_RD"})
      THEN Refuse(m)
      ELSE [m EXCEPT !.flags = @ \cup {k.flag, k.all}, !.uit = Cursor(k.mp, 0)]

ReadPrefix(m, k) ==
    IF AllRead(m.uit)
      THEN [msg |-> Raise(m, k.bad), got |-> <<>>]
      ELSE [msg |-> [m EXCEPT !.uit.pos = @ + 1],
            got |-> <<[family |-> m.family, id |-> Content(m.uit)[m.uit.pos + 1]]>>]

\* The switch to the multiprotocol attribute once the own field is read.
SwitchToMp(m, k) ==
    LET l     == Lookup([m EXCEPT !.flags = @ \ {k.all}], k.code)
        there == [l.msg EXCEPT !.uit = Cursor(k.mp, l.at), !.family = AttrAt(l).afi]
    IN  IF l.at = 0
          THEN [msg |-> l.msg, got |-> <<>>]
        ELSE IF AttrAt(l).afi = "bad"
          THEN [msg |-> Raise(l.msg, k.bad), got |-> <<>>]
        ELSE IF AtEnd(there.uit)
          THEN [msg |-> there, got |-> <<>>]
        ELSE ReadPrefix(there, k)

\* nextwithdrawn_r and nextnlri_r.
NextPrefix(m, k) ==
    IF ~Allowed(m, {"F_RD", k.flag})
      THEN [msg |-> Refuse(m), got |-> <<>>]
    ELSE IF ~AtEnd(m.uit)
      THEN ReadPrefix(m, k)
    ELSE IF k.all \in m.flags
      THEN SwitchToMp(m, k)
    ELSE [msg |-> m, got |-> <<>>]
-----------------------------------------------------------------------------
\* Path attributes.
StartAttribs(m) ==
    IF ~pkt.update \/ ~Allowed(m, {})
      THEN Refuse(m)
      ELSE [EndPending(m) EXCEPT !.flags = @ \cup {"F_PATTR"},
                                 !.uit   = Cursor("attrs", 0)]

NextAttrib(m) ==
    LET n == m.uit.pos + 1
        c == pkt.attrs[n].code
    IN  IF ~Allowed(m, {"F_RD", "F_PATTR"})
          THEN [msg |-> Refuse(m), got |-> <<>>]
        ELSE IF AtEnd(m.uit)
          THEN [msg |-> m, got |-> <<>>]
        ELSE IF AllRead(m.uit)
          THEN [msg |-> Raise(m, "EBADATTR"), got |-> <<>>]
        ELSE [msg |-> [m EXCEPT !.uit.pos = n,
                                !.offtab  = IF c \in NotableCodes
                                              THEN [@ EXCEPT ![c] = n] ELSE @],
              got |-> <<[at |-> n]>>]
-----------------------------------------------------------------------------
\* AS paths.
PathAt(l) == IF l.at = 0 THEN EmptyPath ELSE AttrAt(l).path

\* dostartaspath: the attribute is looked up before the pending field is ended.
StartPath(m, code, wide) ==
    LET l == Lookup(m, code)
    IN  IF ~pkt.update \/ ~Allowed(m, {"F_RD"})
          THEN Refuse(m)
          ELSE [EndPending(l.msg) EXCEPT !.flags = @ \cup {"F_ASPATH"},
                                         !.iter   = PathIter(PathAt(l), wide)]

\* Variant of MergeAs4Path: AS4_PATH counts whatever AGGREGATOR says.
MergeAs4PathAlways(asp) ==
    LET m     == [asp.msg EXCEPT !.iter = PathIter(AttrAt(asp).path, FALSE)]
        as4p  == Lookup(m, "AS4_PATH")
        iter  == Reconstruct(m.iter, AttrAt(asp).path, AttrAt(as4p).path)
    IN  IF as4p.at = 0
          THEN as4p.msg
        ELSE IF AttrAt(asp).path.cut \/ AttrAt(as4p).path.cut
          THEN Raise(as4p.msg, "EBADATTR")
        ELSE [as4p.msg EXCEPT !.iter   = iter,
                              !.flags = IF iter.ascount = Unchecked THEN @
                                        ELSE @ \cup {"F_REALASPATH"}]

\* The AS4_PATH part of startrealaspath_r, AS_PATH being at asp.
MergeAs4Path(asp) ==
    LET m     == [asp.msg EXCEPT !.iter = PathIter(AttrAt(asp).path, FALSE)]
        aggr  == Lookup(m, "AGGREGATOR")
        aggr4 == Lookup(aggr.msg, "AS4_AGGREGATOR")
        as4p  == Lookup(aggr4.msg, "AS4_PATH")
        iter  == Reconstruct(m.iter, AttrAt(asp).path, AttrAt(as4p).path)
    IN  IF aggr.at # 0 /\ aggr4.at # 0 /\ AttrAt(aggr).as # AS_TRANS
          THEN aggr4.msg
        ELSE IF as4p.at = 0
          THEN as4p.msg
        ELSE IF AttrAt(asp).path.cut \/ AttrAt(as4p).path.cut
          THEN Raise(as4p.msg, "EBADATTR")
        ELSE [as4p.msg EXCEPT !.iter   = iter,
                              !.flags = IF iter.ascount = Unchecked THEN @
                                        ELSE @ \cup {"F_REALASPATH"}]

StartRealPath(m) ==
    LET fresh == [EndPending(m) EXCEPT !.flags = @ \cup {"F_ASPATH"},
                                       !.iter   = PathIter(EmptyPath, pkt.asn32)]
        asp   == Lookup(fresh, "AS_PATH")
    IN  IF ~pkt.update \/ ~Allowed(m, {"F_RD"})
          THEN Refuse(m)
        ELSE IF asp.at = 0
          THEN asp.msg
        ELSE IF pkt.asn32
          THEN [asp.msg EXCEPT !.iter = PathIter(AttrAt(asp).path, TRUE)]
        ELSE MergeAs4Path(asp)

NextPath(m) ==
    LET r == NextAsPath(m.iter)
        n == [m EXCEPT !.iter   = r.iter,
                       !.flags = IF r.iter.ascount = Unchecked
                                   THEN @ \ {"F_REALASPATH"} ELSE @]
    IN  IF ~Allowed(m, {"F_ASPATH"})
          THEN [msg |-> Refuse(m), got |-> <<>>]
          ELSE [msg |-> IF r.bad THEN Raise(n, "EBADATTR") ELSE n, got |-> r.got]
-----------------------------------------------------------------------------
\* Next hops: the NEXT_HOP attribute, then those of MP_REACH_NLRI.
StartNextHops(m) ==
    LET nh   == Lookup([EndPending(m) EXCEPT !.iter = NoHops], "NEXT_HOP")
        own  == IF nh.at = 0
                  THEN nh.msg
                  ELSE [nh.msg EXCEPT !.iter.rest = AttrAt(nh).nh,
                                      !.family  = "v4"]
        mp   == Lookup(own, "MP_REACH_NLRI")
        hops == [mp.msg.iter EXCEPT !.mp     = TRUE,
                                    !.mprest = AttrAt(mp).nh,
                                    !.mpcut  = AttrAt(mp).nhcut,
                                    !.mpfamily = IF AttrAt(mp).afi = "bad" THEN @
                                                 ELSE AttrAt(mp).afi]
        both == IF mp.at = 0 THEN mp.msg ELSE [mp.msg EXCEPT !.iter = hops]
    IN  IF ~pkt.update \/ ~Allowed(m, {"F_RD"})
          THEN Refuse(m)
        ELSE IF mp.at # 0 /\ AttrAt(mp).afi = "bad"
          THEN Raise(both, "EBADATTR")
        ELSE [both EXCEPT !.flags = @ \cup {"F_NHOP"}]

NextHop(m) ==
    LET done == m.iter.rest = <<>> /\ ~m.iter.cut
        n    == IF done
                  THEN [m EXCEPT !.family = m.iter.mpfamily,
                                 !.iter   = [m.iter EXCEPT !.rest = m.iter.mprest,
                                                           !.cut  = m.iter.mpcut,
                                                           !.mp   = FALSE]]
                  ELSE m
    IN  IF ~Allowed(m, {"F_NHOP"})
          THEN [msg |-> Refuse(m), got |-> <<>>]
        ELSE IF done /\ ~m.iter.mp
          THEN [msg |-> m, got |-> <<>>]
        ELSE IF n.iter.rest = <<>>
          THEN [msg |-> Raise(n, "EBADATTR"), got |-> <<>>]
        ELSE [msg |-> [n EXCEPT !.iter.rest = Tail(@)],
              got |-> <<[family |-> n.family, id |-> Head(n.iter.rest)]>>]
-----------------------------------------------------------------------------
\* Variant of StartCommunities: the pending iteration is not ended.
StartCommunitiesNested(m, code) ==
    LET l == Lookup(m, code)
    IN  IF ~pkt.update \/ ~Allowed(m, {"F_RD"})
          THEN Refuse(m)
        ELSE IF code \notin CommunityCodes
          THEN Raise(m, "EINVOP")
        ELSE [l.msg EXCEPT !.flags = @ \cup {"F_COMMUNITY"},
                           !.iter  = [ccode |-> code],
                           !.uit   = Cursor("community", l.at)]

\* Communities of one of the three kinds.
StartCommunities(m, code) ==
    LET l == Lookup(EndPending(m), code)
    IN  IF ~pkt.update \/ ~Allowed(m, {"F_RD"})
          THEN Refuse(m)
        ELSE IF code \notin CommunityCodes
          THEN Raise(EndPending(m), "EINVOP")
        ELSE [l.msg EXCEPT !.flags = @ \cup {"F_COMMUNITY"},
                           !.iter  = [ccode |-> code],
                           !.uit   = Cursor("community", l.at)]

NextCommunity(m) ==
    IF ~Allowed(m, {"F_COMMUNITY"})
      THEN [msg |-> Refuse(m), got |-> <<>>]
    ELSE IF AtEnd(m.uit)
      THEN [msg |-> m, got |-> <<>>]
    ELSE IF AllRead(m.uit)
      THEN [msg |-> Raise(m, "EBADATTR"), got |-> <<>>]
    ELSE [msg |-> [m EXCEPT !.uit.pos = @ + 1],
          got |-> <<[code |-> m.iter.ccode, id |-> Content(m.uit)[m.uit.pos + 1]]>>]
-----------------------------------------------------------------------------
\* The client's calls.
Starts(m) == open /\ msg' = m /\ got' = <<>> /\ UNCHANGED <<pkt, open>>
Reads(r)  == open /\ msg' = r.msg /\ got' = r.got /\ UNCHANGED <<pkt, open>>
Looks(l)  == open /\ msg' = l.msg /\ UNCHANGED <<pkt, open, got>>

\* A next call reads the shared cursor: a client makes it only for the iteration
\* the cursor was last given to (or gets a refusal).
Owns(flag, fields) == Allowed(msg, {flag}) => msg.uit.field \in fields
\* A nested iteration is ended, or at least read no further, before a third one
\* is started, and none is started among next hops, whose buffer it would share.
Begins(m) == OnePending(msg) /\ Starts(m)
MayNest   == Pending(msg) = {} \/ (pkt \in Nested /\ "F_NHOP" \notin msg.flags)

\* Variant: the offset table of the message before is kept.
setbgpreadStale(p) ==
    /\ ~open
    /\ pkt' = p
    /\ open' = TRUE
    /\ msg' = [msg EXCEPT !.flags = {"F_RD"}, !.err = "ENOERR"]
    /\ got' = <<>>

setbgpread(p) ==
    /\ ~open
    /\ pkt' = p
    /\ open' = TRUE
    /\ msg' = [msg EXCEPT !.flags  = {"F_RD"},
                          !.err    = "ENOERR",
                          !.offtab = [c \in NotableCodes |-> Unknown]]
    /\ got' = <<>>

bgpclose ==
    /\ open
    /\ open' = FALSE
    /\ msg' = [msg EXCEPT !.flags = {}, !.err = "ENOERR"]
    /\ got' = <<>>
    /\ UNCHANGED pkt

startwithdrawn     == Begins(StartPrefixes(msg, WithdrawnKind, {"F_WITHDRN"}))
startallwithdrawn  == Begins(StartPrefixes(msg, WithdrawnKind, {"F_WITHDRN", "F_ALLWITHDRN"}))
startmpunreachnlri == MayNest /\ Begins(StartMpPrefixes(msg, WithdrawnKind))
nextwithdrawn      == /\ Owns("F_WITHDRN", {"withdrawn", "mpunreach"})
                      /\ Reads(NextPrefix(msg, WithdrawnKind))
endwithdrawn       == Starts(EndIteration(msg, "F_WITHDRN"))

startnlri          == Begins(StartPrefixes(msg, NlriKind, {"F_NLRI"}))
startallnlri       == Begins(StartPrefixes(msg, NlriKind, {"F_NLRI", "F_ALLNLRI"}))
startmpreachnlri   == MayNest /\ Begins(StartMpPrefixes(msg, NlriKind))
nextnlri           == /\ Owns("F_NLRI", {"nlri", "mpreach"})
                      /\ Reads(NextPrefix(msg, NlriKind))
endnlri            == Starts(EndIteration(msg, "F_NLRI"))

startbgpattribs    == Begins(StartAttribs(msg))
nextbgpattrib      == Owns("F_PATTR", {"attrs"}) /\ Reads(NextAttrib(msg))
endbgpattribs      == Starts(EndIteration(msg, "F_PATTR"))

startaspath        == Begins(StartPath(msg, "AS_PATH", pkt.asn32))
startas4path       == Begins(StartPath(msg, "AS4_PATH", TRUE))
startrealaspath    == Begins(StartRealPath(msg))
nextaspath         == Reads(NextPath(msg))
endaspath          == Starts(EndIteration(msg, "F_ASPATH"))

startnhop          == Begins(StartNextHops(msg))
nextnhop           == Reads(NextHop(msg))
endnhop            == Starts(EndIteration(msg, "F_NHOP"))

startcommunities(c) == Begins(StartCommunities(msg, c))
nextcommunity      == Owns("F_COMMUNITY", {"community"}) /\ Reads(NextCommunity(msg))
endcommunities     == Starts(EndIteration(msg, "F_COMMUNITY"))

\* The lookups: one per attribute, getbgporigin_r .. getbgpexcommunities_r, to
\* which those for the thread's own message forward, and getbgpas4aggregator(),
\* which does not.
As4AggregatorOfThread == "getbgpas4aggregator"
Lookups == NotableCodes \cup {As4AggregatorOfThread}

\* The attribute a lookup asks for: getbgpas4aggregator() calls
\* getbgpaggregator_r.
Sought(l) == IF l = As4AggregatorOfThread THEN "AGGREGATOR" ELSE l

getbgpattr(l)        == Looks(Lookup(msg, Sought(l)))
getrealbgpaggregator == Looks(RealAggregator(msg))

\* getwithdrawn_r, getbgpattribs_r and getnlri_r: pointers into the packet.
getrawfield ==
    Starts(IF pkt.update /\ Allowed(msg, {}) THEN msg ELSE Refuse(msg))

Init ==
    /\ pkt \in Packets
    /\ open = FALSE
    /\ msg = [flags |-> {}, err |-> "ENOERR", uit |-> Null, family |-> "v4",
              iter |-> NoHops,
              offtab |-> [c \in NotableCodes |-> Unknown]]
    /\ got = <<>>

Next ==
    \/ \E p \in Packets : setbgpread(p)
    \/ bgpclose
    \/ startwithdrawn \/ startallwithdrawn \/ startmpunreachnlri
    \/ nextwithdrawn \/ endwithdrawn
    \/ startnlri \/ startallnlri \/ startmpreachnlri \/ nextnlri \/ endnlri
    \/ startbgpattribs \/ nextbgpattrib \/ endbgpattribs
    \/ startaspath \/ startas4path \/ startrealaspath \/ nextaspath \/ endaspath
    \/ startnhop \/ nextnhop \/ endnhop
    \/ \E c \in CommunityCodes \cup {"none"} : startcommunities(c)
    \/ nextcommunity \/ endcommunities
    \/ \E l \in Lookups : getbgpattr(l)
    \/ getrealbgpaggregator
    \/ getrawfield

Spec == Init /\ [][Next]_vars
-----------------------------------------------------------------------------
Cursors == [field : {"null", "withdrawn", "attrs", "nlri", "mpunreach", "mpreach",
                     "community"},
            at : Nat, pos : Nat]

Messages ==
    [flags : SUBSET Flags, err : Errors, uit : Cursors, family : {"v4", "v6"},
     iter : PathIters \cup HopIters \cup CommunityIters, offtab : [NotableCodes -> Int]]

\* The shape of every part of the message.
TypeOK == pkt \in Packets /\ open \in BOOLEAN /\ msg \in Messages

\* "only one flag can be set": at most one iteration is pending on a message
\* without error, whatever the client started before.  Does not hold of Nested
\* packets: starting an MP iteration does not end the one pending.
OnlyOnePending == msg.err = "ENOERR" => OnePending(msg)

IterMatches(m) ==
    m.err = "ENOERR" =>
        /\ "F_ASPATH" \in m.flags    => m.iter \in PathIters
        /\ "F_NHOP" \in m.flags      => m.iter \in HopIters
        /\ "F_COMMUNITY" \in m.flags => m.iter \in CommunityIters

\* The path, next hop and community iterators are members of one union, and a
\* flag tells which member is in use: on a message without error the flag is
\* right, even for an iteration inside which another one was started.
UnionIsCurrent == IterMatches(msg)

Coherent(offtab) ==
    \A c \in NotableCodes :
        /\ offtab[c] = NotFound => \A i \in DOMAIN pkt.attrs : pkt.attrs[i].code # c
        /\ offtab[c] \notin {Unknown, NotFound} =>
              /\ offtab[c] \in DOMAIN pkt.attrs
              /\ pkt.attrs[offtab[c]].code = c

\* The offset table tells the truth about the open packet: a code marked as not
\* found is in no attribute, and any other entry is the place of an attribute of
\* that code.  The table outlives the message it was filled for, is filled by
\* scans that stop early or fail, and by the client's own iterations.
SeekCoherent == open => Coherent(msg.offtab)

\* The first error of a message is the one bgperror returns until it is closed.
FirstErrorWins ==
    [][open /\ open' /\ msg.err # "ENOERR" => msg'.err = msg.err]_vars
=============================================================================
