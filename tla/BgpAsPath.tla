----------------------------- MODULE BgpAsPath -----------------------------
(***************************************************************************)
(* The AS path iterator of bgp.c: the part of bgp_msg_t that               *)
(* startaspath, startas4path and startrealaspath set up and nextaspath      *)
(* advances, as pure operators on one record.                              *)
(*                                                                         *)
(* A path is the data of an AS_PATH or AS4_PATH attribute:                 *)
(*   segs  its segments, each a type and the AS numbers it holds;          *)
(*   cut   whether one stray byte follows the last whole segment.          *)
(* The iterator keeps the bytes still to read as the current segment, the  *)
(* index in it (segi), and the segments after it (rest, cut).              *)
(***************************************************************************)
EXTENDS Integers, Sequences, FiniteSets, FiniteSetsExt

AS_SEGMENT_SET == "SET"
AS_SEGMENT_SEQ == "SEQ"

Segments == [type : {AS_SEGMENT_SET, AS_SEGMENT_SEQ}, ases : Seq(Nat)]
Paths == [segs : Seq(Segments), cut : BOOLEAN]

EmptyPath == [segs |-> <<>>, cut |-> FALSE]
NoSegment == [type |-> AS_SEGMENT_SEQ, ases |-> <<>>]

\* ascount is -1 when the AS count is not to be verified; the code lets it
\* decrease further, which the test ascount != 0 never notices.
Unchecked == -1

PathIters ==
    [seg : Segments, segi : Nat, rest : Seq(Segments), cut : BOOLEAN,
     segno : Int, ascount : Int, as4 : Paths, wide : BOOLEAN]

\* The iterator over one path as startaspath_r and startas4path_r leave it.
PathIter(path, wide) ==
    [seg  |-> NoSegment,  segi |-> 0, rest |-> path.segs, cut |-> path.cut,
     segno |-> -1, ascount |-> Unchecked, as4 |-> EmptyPath, wide |-> wide]

\* Variant: the members of an AS_SET count one by one.
SegCountByMember(seg) == Len(seg.ases)

\* An AS_SET counts as one AS, whatever it holds (RFC 4271, 9.1.2.2).
SegCount(seg) == IF seg.type = AS_SEGMENT_SET THEN 1 ELSE Len(seg.ases)

AsCount(path) ==
    Cardinality(UNION {{s} \X (1..SegCount(path.segs[s])) : s \in DOMAIN path.segs})

\* The reconstruction rule of startrealaspath_r once both paths are known:
\* AS_PATH entries are prepended until the rest is as long as AS4_PATH.
Reconstruct(iter, path, path4) ==
    IF AsCount(path) < AsCount(path4)
      THEN iter
      ELSE [iter EXCEPT !.ascount = AsCount(path) - AsCount(path4),
                        !.as4     = path4]

AtSegmentEnd(iter) == iter.segi = Len(iter.seg.ases)

\* Variant: the segment number is not advanced.
AdvanceSameSegno(iter) ==
    LET nonempty == {k \in DOMAIN iter.rest : iter.rest[k].ases # <<>>}
        n == IF nonempty = {} THEN Len(iter.rest) ELSE Min(nonempty)
    IN  IF ~AtSegmentEnd(iter) \/ n = 0
          THEN iter
          ELSE [iter EXCEPT !.seg = iter.rest[n], !.segi = 0,
                            !.rest = SubSeq(iter.rest, n + 1, Len(iter.rest))]

\* The while loop that opens nextaspath_r: skip to the next nonempty segment,
\* or to the end of the path.
Advance(iter) ==
    LET nonempty == {k \in DOMAIN iter.rest : iter.rest[k].ases # <<>>}
        n == IF nonempty = {} THEN Len(iter.rest) ELSE Min(nonempty)
    IN  IF ~AtSegmentEnd(iter) \/ n = 0
          THEN iter
          ELSE [iter EXCEPT !.seg   = iter.rest[n],
                            !.segi  = 0,
                            !.rest  = SubSeq(iter.rest, n + 1, Len(iter.rest)),
                            !.segno = @ + n]

\* "we must commute to AS4_PATH": the switch at the bottom of nextaspath_r.
Commute(iter) ==
    [iter EXCEPT !.seg     = NoSegment,   !.segi = 0,
                 !.rest    = iter.as4.segs, !.cut = iter.as4.cut,
                 !.ascount = Unchecked,   !.wide = TRUE]

Entry(iter) ==
    [as |-> iter.seg.ases[iter.segi], type |-> iter.seg.type,
     segno |-> iter.segno, wide |-> iter.wide]

\* The element under an advanced iterator is read and accounted for.  At the
\* end of the path nothing is returned, and a stray byte is an error.
Deliver(iter) ==
    LET read == [iter EXCEPT !.segi = @ + 1]
        last == read.seg.type # AS_SEGMENT_SET \/ read.segi = 1
    IN  IF AtSegmentEnd(iter)
          THEN [iter |-> iter, got |-> <<>>, bad |-> iter.cut]
          ELSE [iter |-> [read EXCEPT !.ascount =
                             IF @ > 0 /\ last THEN @ - 1 ELSE @],
                got  |-> <<Entry(read)>>,
                bad  |-> FALSE]

NextAsPath(iter) ==
    LET here == Advance(iter)
    IN  IF here.ascount = 0 /\ ~AtSegmentEnd(here)
          THEN Deliver(Advance(Commute(here)))
          ELSE Deliver(here)

=============================================================================
