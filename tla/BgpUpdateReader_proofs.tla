----------------------- MODULE BgpUpdateReader_proofs ----------------------
(***************************************************************************)
(* Type correctness, the offset table, the shared iterator, the lookups    *)
(* and the pending iteration of BgpUpdateReader, for every set of packets. *)
(*                                                                         *)
(* Each operator that stands for a function of bgp.c takes the message and *)
(* returns the next one, so the invariant is shown operator by operator:   *)
(* Good(m) is kept by Lookup, by EndPending, and by whatever is built from *)
(* them.                                                                   *)
(***************************************************************************)
EXTENDS BgpUpdateMeaning, WellFoundedInduction, FiniteSetTheorems,
        SequenceTheorems, TLAPS

\* A nonempty set of naturals has a least element, and Min is one: the first
\* position a search finds is one that satisfies what was searched for.
LEMMA MinIsLeast ==
    ASSUME NEW S \in SUBSET Nat, S # {}
    PROVE  Min(S) \in S /\ \A x \in S : Min(S) <= x
<1> DEFINE R == OpToRel(<, Nat)
<1>1. \A x, y \in Nat : <<y, x>> \in R <=> y < x
  BY DEF OpToRel
<1>2. IsWellFoundedOn(R, Nat)
  BY NatLessThanWellFounded
<1> HIDE DEF R
<1>3. PICK m \in S : \A y \in S : ~ (<<y, m>> \in R)
  BY <1>2, WFMin
<1>4. ASSUME NEW y \in S PROVE m <= y
  <2>1. m \in Nat /\ y \in Nat
    OBVIOUS
  <2>2. ~ (<<y, m>> \in R)
    BY <1>3
  <2>3. ~ (y < m)
    BY <1>1, <2>1, <2>2
  <2> QED
    BY <2>1, <2>3
<1> QED
  BY <1>4 DEF Min

\* A nonempty set of naturals with an upper bound has a greatest element, and
\* Max is one: the last position that satisfies a condition does satisfy it.
LEMMA MaxIsGreatest ==
    ASSUME NEW n \in Nat, NEW S \in SUBSET (0..n), S # {}
    PROVE  Max(S) \in S /\ \A x \in S : x <= Max(S)
<1> DEFINE T == {n - x : x \in S}
<1>1. T \in SUBSET Nat /\ T # {}
  <2>1. \A x \in S : x \in 0..n
    OBVIOUS
  <2>2. \A x \in 0..n : n - x \in Nat
    OBVIOUS
  <2>3. T \in SUBSET Nat
    BY <2>1, <2>2
  <2>4. PICK x \in S : TRUE
    OBVIOUS
  <2>5. n - x \in T
    BY <2>4
  <2> QED
    BY <2>3, <2>5
<1>2. Min(T) \in T /\ \A y \in T : Min(T) <= y
  BY <1>1, MinIsLeast
<1>3. PICK m \in S : Min(T) = n - m
  BY <1>2
<1>4. ASSUME NEW x \in S PROVE x <= m
  <2>1. n - x \in T
    OBVIOUS
  <2>2. n - m <= n - x
    BY <1>2, <1>3, <2>1
  <2> QED
    BY <2>2
<1> QED
  BY <1>4 DEF Max

USE DEF AS_SEGMENT_SET, AS_SEGMENT_SEQ

-----------------------------------------------------------------------------
\* The iterator over a path.

\* startaspath and startas4path leave a path iterator in the union.
LEMMA PathIterType ==
    ASSUME NEW path \in Paths, NEW wide \in BOOLEAN
    PROVE  PathIter(path, wide) \in PathIters
BY DEF PathIter, PathIters, Paths, EmptyPath, NoSegment, Unchecked, Segments

\* What a segment counts for is a number.
LEMMA SegCountType ==
    ASSUME NEW seg \in Segments
    PROVE  SegCount(seg) \in Nat
BY DEF SegCount, Segments

\* The two counts startrealaspath compares are numbers: a path is finite.
LEMMA AsCountType ==
    ASSUME NEW path \in Paths
    PROVE  AsCount(path) \in Nat
<1> DEFINE Counted(s) == {s} \X (1..SegCount(path.segs[s]))
           All == {Counted(s) : s \in DOMAIN path.segs}
<1>1. \A s \in DOMAIN path.segs : SegCount(path.segs[s]) \in Nat
  BY SegCountType DEF Paths
<1>2. ASSUME NEW s \in DOMAIN path.segs PROVE IsFiniteSet(Counted(s))
  <2>1. IsFiniteSet({s})
    BY FS_Singleton
  <2>2. IsFiniteSet(1..SegCount(path.segs[s]))
    BY <1>1, FS_Interval
  <2> QED
    BY <2>1, <2>2, FS_Product
<1>3. IsFiniteSet(DOMAIN path.segs)
  <2>1. PICK k \in Nat : DOMAIN path.segs = 1..k
    BY DEF Paths
  <2>2. IsFiniteSet(1..k)
    BY FS_Interval
  <2> QED
    BY <2>1, <2>2
<1>4. IsFiniteSet(All)
  <2> DEFINE f == [s \in DOMAIN path.segs |-> Counted(s)]
  <2>1. f \in Surjection(DOMAIN path.segs, All)
    BY DEF Surjection
  <2> QED
    BY <1>3, <2>1, FS_Surjection
<1>5. IsFiniteSet(UNION All)
  BY <1>2, <1>4, FS_UNION
<1> QED
  BY <1>5, FS_CardinalityType DEF AsCount

\* The rule that merges AS_PATH and AS4_PATH leaves a path iterator.
LEMMA ReconstructType ==
    ASSUME NEW iter \in PathIters, NEW path \in Paths, NEW path4 \in Paths
    PROVE  Reconstruct(iter, path, path4) \in PathIters
<1>1. AsCount(path) - AsCount(path4) \in Int
  BY AsCountType
<1>2. \A n \in Int : [iter EXCEPT !.ascount = n, !.as4 = path4] \in PathIters
  BY DEF PathIters
<1> QED
  BY <1>1, <1>2 DEF Reconstruct

\* Skipping to the next nonempty segment stays within the path.
LEMMA AdvanceType ==
    ASSUME NEW iter \in PathIters
    PROVE  Advance(iter) \in PathIters
<1> DEFINE nonempty == {k \in DOMAIN iter.rest : iter.rest[k].ases # <<>>}
           n == IF nonempty = {} THEN Len(iter.rest) ELSE Min(nonempty)
<1>1. iter.rest \in Seq(Segments) /\ DOMAIN iter.rest = 1..Len(iter.rest)
      /\ Len(iter.rest) \in Nat
  BY DEF PathIters
<1>2. n \in 0..Len(iter.rest)
  <2>1. CASE nonempty = {}
    BY <1>1, <2>1
  <2>2. CASE nonempty # {}
    <3>1. nonempty \in SUBSET Nat /\ nonempty \in SUBSET (1..Len(iter.rest))
      BY <1>1
    <3>2. Min(nonempty) \in nonempty
      BY <2>2, <3>1, MinIsLeast
    <3> QED
      BY <1>1, <2>2, <3>1, <3>2
  <2> QED
    BY <2>1, <2>2
<1> HIDE DEF n
<1>3. n # 0 => iter.rest[n] \in Segments
  BY <1>1, <1>2
<1>4. SubSeq(iter.rest, n + 1, Len(iter.rest)) \in Seq(Segments)
  BY <1>1, <1>2, SubSeqProperties
<1>5. CASE ~AtSegmentEnd(iter) \/ n = 0
  BY <1>5 DEF Advance, n
<1>6. CASE ~(~AtSegmentEnd(iter) \/ n = 0)
  <2>1. iter.rest[n] \in Segments /\ n \in Nat
    BY <1>1, <1>2, <1>3, <1>6
  <2>2. iter.segno + n \in Int
    BY <2>1 DEF PathIters
  <2>3. ASSUME NEW seg \in Segments, NEW rest \in Seq(Segments), NEW k \in Int
        PROVE  [iter EXCEPT !.seg = seg, !.segi = 0, !.rest = rest, !.segno = k]
                   \in PathIters
    BY DEF PathIters
  <2> QED
    BY <1>4, <1>6, <2>1, <2>2, <2>3 DEF Advance, n
<1> QED
  BY <1>5, <1>6

\* After the switch the iterator reads AS4_PATH.
LEMMA CommuteType ==
    ASSUME NEW iter \in PathIters
    PROVE  Commute(iter) \in PathIters
<1>1. NoSegment \in Segments
  BY DEF NoSegment, Segments
<1>2. iter.as4.segs \in Seq(Segments) /\ iter.as4.cut \in BOOLEAN
  BY DEF PathIters, Paths
<1>3. Unchecked \in Int
  BY DEF Unchecked
<1> QED
  BY <1>1, <1>2, <1>3 DEF Commute, PathIters

\* Reading one AS leaves a path iterator, whether or not there was one to read.
LEMMA DeliverType ==
    ASSUME NEW iter \in PathIters
    PROVE  Deliver(iter).iter \in PathIters /\ Deliver(iter).bad \in BOOLEAN
<1> DEFINE read == [iter EXCEPT !.segi = @ + 1]
           last == read.seg.type # AS_SEGMENT_SET \/ read.segi = 1
           left == IF read.ascount > 0 /\ last THEN read.ascount - 1 ELSE read.ascount
<1>1. read \in PathIters
  BY DEF PathIters
<1>2. left \in Int
  BY <1>1 DEF PathIters
<1> HIDE DEF read
<1>6. \A k \in Int : [read EXCEPT !.ascount = k] \in PathIters
  BY <1>1 DEF PathIters
<1>3. iter.cut \in BOOLEAN
  BY DEF PathIters
<1>4. CASE AtSegmentEnd(iter)
  BY <1>3, <1>4 DEF Deliver
<1>5. CASE ~AtSegmentEnd(iter)
  BY <1>2, <1>5, <1>6 DEF Deliver, read
<1> QED
  BY <1>4, <1>5

\* nextaspath keeps the path iterator one.
LEMMA NextAsPathType ==
    ASSUME NEW iter \in PathIters
    PROVE  NextAsPath(iter).iter \in PathIters /\ NextAsPath(iter).bad \in BOOLEAN
BY AdvanceType, CommuteType, DeliverType DEF NextAsPath
-----------------------------------------------------------------------------
\* What every operation keeps of a message, and what it never gives back.
Good(m) == m \in Messages /\ IterMatches(m) /\ Coherent(m.offtab)

\* The attribute at place at, if any, has code c.
IsAttr(at, c) ==
    at \in Nat /\ (at # 0 => at \in DOMAIN pkt.attrs /\ pkt.attrs[at].code = c)

\* n differs from m in the offset table only, unless it has an error.
OnlyLooked(n, m) ==
    /\ n \in Messages /\ Coherent(n.offtab) /\ n.iter = m.iter
    /\ n.err = "ENOERR" => /\ m.err = "ENOERR" /\ n.flags = m.flags
                           /\ n.uit = m.uit /\ n.family = m.family

\* The three iterators of the union are never mistaken for one another.
LEMMA ItersDisjoint ==
    /\ PathIters \cap HopIters = {}
    /\ PathIters \cap CommunityIters = {}
    /\ HopIters \cap CommunityIters = {}
<1>1. ASSUME NEW x \in PathIters PROVE "seg" \in DOMAIN x
  BY DEF PathIters
<1>2. ASSUME NEW x \in HopIters
      PROVE "seg" \notin DOMAIN x /\ "mp" \in DOMAIN x
  BY DEF HopIters
<1>3. ASSUME NEW x \in CommunityIters
      PROVE "seg" \notin DOMAIN x /\ "mp" \notin DOMAIN x
  BY DEF CommunityIters
<1> QED
  BY <1>1, <1>2, <1>3

\* The flags by name.
LEMMA FlagsListed ==
    /\ PendingFlags = {"F_WITHDRN", "F_PATTR", "F_NLRI", "F_ASPATH", "F_COMMUNITY", "F_NHOP"}
    /\ Flags = PendingFlags \cup {"F_RD", "F_ALLWITHDRN", "F_ALLNLRI", "F_REALASPATH"}
<1>1. 1..6 = {1, 2, 3, 4, 5, 6}
  OBVIOUS
<1>2. PendingFlags = {PendingOrder[1], PendingOrder[2], PendingOrder[3],
                      PendingOrder[4], PendingOrder[5], PendingOrder[6]}
  BY <1>1 DEF PendingFlags
<1> QED
  BY <1>2 DEF PendingOrder, Flags

\* The packet of an open message, taken apart.
LEMMA PacketType ==
    ASSUME pkt \in Packets
    PROVE  /\ pkt.attrs \in Seq(Attributes)
           /\ Len(pkt.attrs) \in Nat
           /\ DOMAIN pkt.attrs = 1..Len(pkt.attrs)
           /\ \A i \in DOMAIN pkt.attrs : pkt.attrs[i] \in Attributes
           /\ pkt.asn32 \in BOOLEAN
<1>1. pkt.attrs \in Seq(Attributes) /\ pkt.asn32 \in BOOLEAN
  BY PacketsAssumption
<1> QED
  BY <1>1

\* endpending leaves a message, and on one without error no pending iteration,
\* provided there was at most one.
LEMMA EndPendingType ==
    ASSUME NEW m \in Messages
    PROVE  LET n == EndPending(m) IN
           /\ n \in Messages
           /\ n.iter = m.iter /\ n.uit = m.uit /\ n.family = m.family
           /\ n.offtab = m.offtab
           /\ n.err = m.err
           /\ n.flags \subseteq m.flags
           /\ n.err = "ENOERR" /\ OnePending(m) => Pending(n) = {}
<1> DEFINE set == {i \in 1..6 : PendingOrder[i] \in m.flags}
           f == PendingOrder[Min(set)]
<1>1. m.flags \in SUBSET Flags /\ m.err \in Errors
  BY DEF Messages
<1>2. CASE set = {}
  <2>1. EndPending(m) = m
    BY <1>2 DEF EndPending
  <2>2. Pending(m) = {}
    BY <1>2 DEF Pending, PendingFlags
  <2> QED
    BY <2>1, <2>2
<1>3. CASE set # {}
  <2>1. Min(set) \in set
    BY <1>3, MinIsLeast
  <2>2. f \in m.flags /\ f \in PendingFlags
    BY <2>1 DEF PendingFlags
  <2>3. EndPending(m) = EndIteration(m, f)
    BY <1>3 DEF EndPending
  <2> HIDE DEF f, set
  <2>4. CASE m.err = "ENOERR"
    <3>1. EndPending(m) = [m EXCEPT !.flags = m.flags \ Clears(f)]
      BY <2>2, <2>3, <2>4 DEF EndIteration, Allowed
    <3>2. f \in Clears(f)
      BY DEF Clears
    <3>3. OnePending(m) => Pending(m) = {f}
      BY <2>2 DEF OnePending, Pending
    <3>4. OnePending(m) => PendingFlags \cap (m.flags \ Clears(f)) = {}
      BY <3>2, <3>3 DEF Pending
    <3> HIDE DEF Clears
    <3> QED
      BY <1>1, <3>1, <3>4 DEF Messages, Pending
  <2>5. CASE m.err # "ENOERR"
    <3>1. EndPending(m) = [m EXCEPT !.err = m.err]
      BY <2>3, <2>5 DEF EndIteration, Allowed, Refuse
    <3> QED
      BY <2>5, <3>1 DEF Messages
  <2> QED
    BY <2>4, <2>5
<1> QED
  BY <1>2, <1>3

\* A call that is refused or fails leaves a good message with an error.
LEMMA RefuseType ==
    ASSUME NEW m \in Messages
    PROVE  /\ Refuse(m) \in Messages /\ Refuse(m).err # "ENOERR"
           /\ Refuse(m).iter = m.iter /\ Refuse(m).offtab = m.offtab
BY DEF Refuse, Messages, Errors

\* A failing call sets an error and touches nothing else.
LEMMA RaiseType ==
    ASSUME NEW m \in Messages, NEW e \in Errors \ {"ENOERR"}
    PROVE  /\ Raise(m, e) \in Messages /\ Raise(m, e).err # "ENOERR"
           /\ Raise(m, e).iter = m.iter /\ Raise(m, e).offtab = m.offtab
BY DEF Raise, Messages

\* An attribute that is passed over goes into the offset table at its place.
LEMMA RecordedType ==
    ASSUME pkt \in Packets, NEW n \in 0..Len(pkt.attrs),
           NEW offtab \in [NotableCodes -> Int], Coherent(offtab)
    PROVE  /\ Recorded(offtab, n) \in [NotableCodes -> Int]
           /\ Coherent(Recorded(offtab, n))
           /\ \A c \in NotableCodes, i \in 1..n :
                 Recorded(offtab, n)[c] = Unknown => pkt.attrs[i].code # c
<1> DEFINE seen(c) == {i \in 1..n : pkt.attrs[i].code = c}
<1>1. n \in Nat /\ DOMAIN pkt.attrs = 1..Len(pkt.attrs) /\ Len(pkt.attrs) \in Nat
  BY PacketType
<1>2. \A c \in NotableCodes :
         Recorded(offtab, n)[c] = IF seen(c) = {} THEN offtab[c] ELSE Max(seen(c))
  BY DEF Recorded
<1>3. ASSUME NEW c \in NotableCodes, seen(c) # {}
      PROVE  /\ Max(seen(c)) \in 1..n /\ Max(seen(c)) \in DOMAIN pkt.attrs
             /\ pkt.attrs[Max(seen(c))].code = c
  <2>1. seen(c) \in SUBSET (0..n)
    BY <1>1
  <2>2. Max(seen(c)) \in seen(c)
    BY <1>1, <1>3, <2>1, MaxIsGreatest
  <2> QED
    BY <1>1, <2>2
<1>4. \A c \in NotableCodes : offtab[c] \in Int
  OBVIOUS
<1> HIDE DEF seen
<1>5. \A c \in NotableCodes : Recorded(offtab, n)[c] \in Int
  BY <1>2, <1>3, <1>4
<1>6. Recorded(offtab, n) \in [NotableCodes -> Int]
  BY <1>5 DEF Recorded
<1>7. ASSUME NEW c \in NotableCodes
      PROVE  /\ Recorded(offtab, n)[c] = NotFound
                    => \A i \in DOMAIN pkt.attrs : pkt.attrs[i].code # c
             /\ Recorded(offtab, n)[c] \notin {Unknown, NotFound} =>
                    /\ Recorded(offtab, n)[c] \in DOMAIN pkt.attrs
                    /\ pkt.attrs[Recorded(offtab, n)[c]].code = c
  <2>1. CASE seen(c) = {}
    BY <1>2, <2>1 DEF Coherent
  <2>2. CASE seen(c) # {}
    BY <1>1, <1>2, <1>3, <2>2 DEF NotFound
  <2> QED
    BY <2>1, <2>2
<1>8. ASSUME NEW c \in NotableCodes, NEW i \in 1..n,
             Recorded(offtab, n)[c] = Unknown
      PROVE  pkt.attrs[i].code # c
  <2>1. CASE seen(c) = {}
    BY <2>1 DEF seen
  <2>2. CASE seen(c) # {}
    <3>1. Recorded(offtab, n)[c] \in 1..n
      BY <1>2, <1>3, <2>2
    <3> QED
      BY <1>1, <1>8, <3>1 DEF Unknown
  <2> QED
    BY <2>1, <2>2
<1> QED
  BY <1>6, <1>7, <1>8 DEF Coherent

\* seekbgpattr fills the offset table with the truth, returns an attribute of
\* the code asked for, and changes the rest of the message only when it fails.
LEMMA LookupType ==
    ASSUME pkt \in Packets, NEW m \in Messages, Coherent(m.offtab),
           NEW c \in NotableCodes
    PROVE  /\ OnlyLooked(Lookup(m, c).msg, m) /\ IsAttr(Lookup(m, c).at, c)
           /\ \A at : [Lookup(m, c) EXCEPT !.at = at].msg = Lookup(m, c).msg
<1> DEFINE first == ScanEnd(c)
           scan  == Scan(m, c)
           l     == Lookup(m, c)
<1>1. /\ DOMAIN pkt.attrs = 1..Len(pkt.attrs) /\ Len(pkt.attrs) \in Nat
      /\ m.offtab \in [NotableCodes -> Int]
  BY PacketType DEF Messages
<1>2. /\ Hits(c) # {} => first \in Hits(c)
      /\ first \in 0..Len(pkt.attrs) /\ first \in Nat
      /\ Hits(c) = {} => first = Len(pkt.attrs)
  <2>1. CASE Hits(c) = {}
    BY <1>1, <2>1 DEF ScanEnd
  <2>2. CASE Hits(c) # {}
    <3>1. Hits(c) \in SUBSET Nat /\ Hits(c) \in SUBSET (1..Len(pkt.attrs))
      BY <1>1 DEF Hits
    <3>2. Min(Hits(c)) \in Hits(c)
      BY <2>2, <3>1, MinIsLeast
    <3> QED
      BY <1>1, <2>2, <3>1, <3>2 DEF ScanEnd
  <2> QED
    BY <2>1, <2>2
<1> HIDE DEF first
<1>3. /\ scan \in [NotableCodes -> Int] /\ Coherent(scan)
      /\ \A d \in NotableCodes, i \in 1..first :
            scan[d] = Unknown => pkt.attrs[i].code # d
  BY <1>1, <1>2, RecordedType DEF Scan, first
<1> HIDE DEF scan
<1>4. \A i \in Hits(c) : i \in DOMAIN pkt.attrs /\ pkt.attrs[i].code = c
  BY DEF Hits
<1>5. ASSUME NEW o \in [NotableCodes -> Int], Coherent(o)
      PROVE  OnlyLooked([m EXCEPT !.offtab = o], m)
  BY <1>5 DEF OnlyLooked, Messages
<1>6. CASE ~pkt.update \/ ~Allowed(m, {"F_RD"})
  <2>1. l = [msg |-> Refuse(m), at |-> 0]
    BY <1>6 DEF Lookup
  <2>2. OnlyLooked(Refuse(m), m) /\ IsAttr(0, c)
    BY RefuseType DEF OnlyLooked, IsAttr
  <2> QED
    BY <2>1, <2>2
<1> DEFINE known == [msg |-> m, at |-> IF m.offtab[c] = NotFound THEN 0 ELSE m.offtab[c]]
<1>7. CASE ~(~pkt.update \/ ~Allowed(m, {"F_RD"})) /\ m.offtab[c] # Unknown
  <2>1. l = known
    BY <1>7 DEF Lookup
  <2>2. IsAttr(known.at, c)
    BY <1>1, <1>7 DEF IsAttr, Coherent
  <2>3. OnlyLooked(m, m)
    BY DEF OnlyLooked
  <2> QED
    BY <2>1, <2>2, <2>3
<1> DEFINE Searched == /\ ~(~pkt.update \/ ~Allowed(m, {"F_RD"}))
                       /\ m.offtab[c] = Unknown
<1>8. CASE Searched /\ Hits(c) # {}
  <2>1. l = [msg |-> [m EXCEPT !.offtab = scan], at |-> first]
    BY <1>8 DEF Lookup, first, scan
  <2>2. OnlyLooked([m EXCEPT !.offtab = scan], m)
    BY <1>3, <1>5
  <2>3. IsAttr(first, c)
    BY <1>2, <1>4, <1>8 DEF IsAttr
  <2> QED
    BY <2>1, <2>2, <2>3
<1>9. CASE Searched /\ Hits(c) = {} /\ pkt.attrscut
  <2> DEFINE failed == ScanFailed(m, c)
  <2>1. l = [msg |-> failed, at |-> 0]
    BY <1>9 DEF Lookup
  <2>2. failed \in Messages /\ failed.iter = m.iter /\ failed.offtab = scan
        /\ failed.err = "EBADATTR"
    <3> DEFINE n  == EndPending(m)
               at == [Cursor("attrs", 0) EXCEPT !.pos = first]
    <3>1. n \in Messages /\ n.iter = m.iter
      BY EndPendingType
    <3>2. at \in Cursors
      BY <1>2 DEF Cursor, Cursors
    <3>3. n.flags \cup {"F_PATTR"} \in SUBSET Flags
      BY <3>1, FlagsListed DEF Messages
    <3> HIDE DEF n, at
    <3>4. [n EXCEPT !.flags = @ \cup {"F_PATTR"}, !.uit = at, !.offtab = scan,
                    !.err = "EBADATTR"] \in Messages
      BY <1>3, <3>1, <3>2, <3>3 DEF Messages, Errors
    <3>5. failed = [n EXCEPT !.flags = @ \cup {"F_PATTR"}, !.uit = at, !.offtab = scan,
                             !.err = "EBADATTR"]
      BY DEF ScanFailed, n, at, first, scan
    <3> QED
      BY <3>1, <3>4, <3>5 DEF Messages
  <2>3. OnlyLooked(failed, m) /\ IsAttr(0, c)
    BY <1>3, <2>2 DEF OnlyLooked, IsAttr
  <2> HIDE DEF failed
  <2> QED
    BY <2>1, <2>3
<1>10. CASE Searched /\ Hits(c) = {} /\ ~pkt.attrscut
  <2> DEFINE nowhere == Remapped(scan)
  <2>1. l = [msg |-> [m EXCEPT !.offtab = nowhere], at |-> 0]
    BY <1>10 DEF Lookup, scan
  <2>2. nowhere \in [NotableCodes -> Int]
    BY <1>3 DEF NotFound, Remapped
  <2>3. \A d \in NotableCodes : scan[d] = Unknown =>
           \A i \in DOMAIN pkt.attrs : pkt.attrs[i].code # d
    BY <1>1, <1>2, <1>3, <1>10
  <2>4. Coherent(nowhere)
    BY <1>3, <2>3 DEF Coherent, Unknown, NotFound, Remapped
  <2>5. OnlyLooked([m EXCEPT !.offtab = nowhere], m) /\ IsAttr(0, c)
    BY <1>5, <2>2, <2>4 DEF IsAttr
  <2> HIDE DEF nowhere
  <2> QED
    BY <2>1, <2>5
<1>11. \A at : [l EXCEPT !.at = at].msg = l.msg
  BY DEF Lookup
<1> QED
  BY <1>6, <1>7, <1>8, <1>9, <1>10, <1>11

\* A lookup never changes which iterator is current.
LEMMA LookedIsGood ==
    ASSUME NEW m, Good(m), NEW n, OnlyLooked(n, m)
    PROVE  Good(n)
BY DEF Good, OnlyLooked, IterMatches

\* A refused or failed call keeps the invariant.
LEMMA FailedIsGood ==
    ASSUME NEW m \in Messages, Coherent(m.offtab)
    PROVE  /\ Good(Refuse(m))
           /\ \A e \in Errors \ {"ENOERR"} : Good(Raise(m, e))
BY RefuseType, RaiseType DEF Good, IterMatches

\* getrealbgpaggregator_r returns one of the two aggregators, or NULL.
LEMMA RealAggregatorType ==
    ASSUME pkt \in Packets, NEW m, Good(m)
    PROVE  Good(RealAggregator(m).msg)
<1> DEFINE aggr  == Lookup(m, "AGGREGATOR")
           aggr4 == Lookup(aggr.msg, "AS4_AGGREGATOR")
<1>1. Good(Refuse(m))
  BY FailedIsGood DEF Good
<1>2. OnlyLooked(aggr.msg, m)
  BY LookupType DEF Good, NotableCodes
<1>3. Good(aggr.msg)
  BY <1>2, LookedIsGood
<1> HIDE DEF aggr
<1>4. OnlyLooked(aggr4.msg, aggr.msg)
  BY <1>3, LookupType DEF Good, NotableCodes
<1>5. Good(aggr4.msg)
  BY <1>3, <1>4, LookedIsGood
<1> HIDE DEF aggr4
<1>6. [aggr4 EXCEPT !.at = aggr.at].msg = aggr4.msg
  BY <1>3, LookupType DEF aggr4, Good, NotableCodes
<1> DEFINE r == RealAggregator(m)
<1>7. r = IF ~pkt.update \/ ~Allowed(m, {"F_RD"}) THEN [msg |-> Refuse(m), at |-> 0]
          ELSE IF aggr.at = 0 \/ AttrAt(aggr).as # AS_TRANS THEN aggr
          ELSE IF aggr4.at = 0 THEN [aggr4 EXCEPT !.at = aggr.at] ELSE aggr4
  BY ZenonT(60) DEF RealAggregator, aggr, aggr4
<1> HIDE DEF r
<1>8. r.msg \in {Refuse(m), aggr.msg, aggr4.msg}
  BY <1>6, <1>7
<1> QED
  BY <1>1, <1>3, <1>5, <1>8 DEF r

-----------------------------------------------------------------------------
\* What endpending leaves to the iteration that starts after it.
LEMMA EndedType ==
    ASSUME NEW m, Good(m), OnePending(m)
    PROVE  LET n == EndPending(m) IN
           /\ n \in Messages /\ Coherent(n.offtab)
           /\ n.err = "ENOERR" => Pending(n) = {}
BY EndPendingType DEF Good

\* The flags, fields and codes of the two sets of prefix functions.
LEMMA KindType ==
    ASSUME NEW k \in {WithdrawnKind, NlriKind}
    PROVE  /\ k.flag \in {"F_WITHDRN", "F_NLRI"}
           /\ k.all \in {"F_ALLWITHDRN", "F_ALLNLRI"}
           /\ k.own \in {"withdrawn", "nlri"} /\ k.mp \in {"mpunreach", "mpreach"}
           /\ k.code \in NotableCodes /\ k.bad \in Errors \ {"ENOERR"}
           /\ {k.flag, k.all} \in SUBSET Flags
           /\ {k.flag, k.all} \cap {"F_ASPATH", "F_NHOP", "F_COMMUNITY"} = {}
BY FlagsListed DEF WithdrawnKind, NlriKind, NotableCodes, Errors

\* A cursor at the start of a field is a cursor.
LEMMA CursorType ==
    ASSUME NEW f \in {"null", "withdrawn", "attrs", "nlri", "mpunreach", "mpreach",
                      "community"},
           NEW at \in Nat
    PROVE  Cursor(f, at) \in Cursors
BY DEF Cursor, Cursors

\* Flags, cursor and family of an iteration over the shared cursor.
LEMMA BegunType ==
    ASSUME NEW n \in Messages, Coherent(n.offtab), IterMatches(n),
           NEW flags \in SUBSET Flags, flags \cap {"F_ASPATH", "F_NHOP", "F_COMMUNITY"} = {},
           NEW u \in Cursors, NEW f \in {"v4", "v6"}
    PROVE  /\ Good([n EXCEPT !.flags = @ \cup flags, !.uit = u])
           /\ Good([n EXCEPT !.flags = @ \cup flags, !.uit = u, !.family = f])
<1>1. n.flags \cup flags \in SUBSET Flags
  BY DEF Messages
<1>2. /\ [n EXCEPT !.flags = @ \cup flags, !.uit = u] \in Messages
      /\ [n EXCEPT !.flags = @ \cup flags, !.uit = u, !.family = f] \in Messages
  BY <1>1 DEF Messages
<1>3. /\ IterMatches([n EXCEPT !.flags = @ \cup flags, !.uit = u])
      /\ IterMatches([n EXCEPT !.flags = @ \cup flags, !.uit = u, !.family = f])
  BY DEF Messages, IterMatches
<1> QED
  BY <1>2, <1>3 DEF Good, Messages

\* After endpending no iterator is current.
LEMMA NothingPending ==
    ASSUME NEW n \in Messages, n.err = "ENOERR" => Pending(n) = {}
    PROVE  IterMatches(n)
BY FlagsListed DEF IterMatches, Pending

\* dostartwithdrawn and dostartnlri keep the message good: no iterator is current.
LEMMA StartPrefixesType ==
    ASSUME NEW m, Good(m), OnePending(m), NEW k \in {WithdrawnKind, NlriKind},
           NEW flags \in SUBSET {k.flag, k.all}
    PROVE  Good(StartPrefixes(m, k, flags))
<1>1. Good(Refuse(m))
  BY FailedIsGood DEF Good
<1> DEFINE n == EndPending(m)
<1>2. n \in Messages /\ Coherent(n.offtab) /\ IterMatches(n)
  BY EndedType, NothingPending
<1>3. /\ flags \in SUBSET Flags /\ flags \cap {"F_ASPATH", "F_NHOP", "F_COMMUNITY"} = {}
      /\ Cursor(k.own, 0) \in Cursors
  BY KindType, CursorType
<1> HIDE DEF n
<1>4. Good([n EXCEPT !.flags = @ \cup flags, !.uit = Cursor(k.own, 0), !.family = "v4"])
  BY <1>2, <1>3, BegunType
<1> QED
  BY <1>1, <1>4 DEF StartPrefixes, n

\* startmpunreachnlri and startmpreachnlri leave the current iterator where it was.
LEMMA StartMpPrefixesType ==
    ASSUME NEW m, Good(m), NEW k \in {WithdrawnKind, NlriKind}
    PROVE  Good(StartMpPrefixes(m, k))
<1>1. Good(Refuse(m))
  BY FailedIsGood DEF Good
<1>2. Cursor(k.mp, 0) \in Cursors
  BY KindType, CursorType
<1>3. Good([m EXCEPT !.flags = @ \cup {k.flag, k.all}, !.uit = Cursor(k.mp, 0)])
  BY <1>2, KindType, BegunType DEF Good
<1> QED
  BY <1>1, <1>3 DEF StartMpPrefixes

\* Moving the shared cursor on disturbs nothing else.
LEMMA MovedType ==
    ASSUME NEW m, Good(m)
    PROVE  Good([m EXCEPT !.uit.pos = @ + 1])
<1>1. [m EXCEPT !.uit.pos = @ + 1] \in Messages
  BY DEF Good, Messages, Cursors
<1> QED
  BY <1>1 DEF Good, Messages, IterMatches

\* Reading one prefix keeps the invariant, also when there is none to read.
LEMMA ReadPrefixType ==
    ASSUME NEW m, Good(m), NEW k \in {WithdrawnKind, NlriKind}
    PROVE  Good(ReadPrefix(m, k).msg)
<1>1. Good(Raise(m, k.bad))
  BY FailedIsGood, KindType DEF Good
<1> QED
  BY <1>1, MovedType DEF ReadPrefix

\* An attribute found by a lookup is one of the packet.
LEMMA FoundType ==
    ASSUME pkt \in Packets, NEW c, NEW l, IsAttr(l.at, c), l.at # 0
    PROVE  AttrAt(l) \in Attributes
BY PacketType DEF IsAttr, AttrAt

\* nextwithdrawn_r and nextnlri_r move to the multiprotocol attribute.
LEMMA SwitchToMpType ==
    ASSUME pkt \in Packets, NEW m, Good(m), NEW k \in {WithdrawnKind, NlriKind}
    PROVE  Good(SwitchToMp(m, k).msg)
<1> DEFINE o     == [m EXCEPT !.flags = @ \ {k.all}]
           l     == Lookup(o, k.code)
           there == [l.msg EXCEPT !.uit = Cursor(k.mp, l.at), !.family = AttrAt(l).afi]
<1>1. Good(o)
  BY DEF Good, Messages, IterMatches
<1>2. k.code \in NotableCodes /\ k.bad \in Errors \ {"ENOERR"}
  BY KindType
<1> HIDE DEF o
<1>3. OnlyLooked(l.msg, o) /\ IsAttr(l.at, k.code)
  BY <1>1, <1>2, LookupType DEF Good
<1> HIDE DEF l
<1>4. Good(l.msg)
  BY <1>1, <1>3, LookedIsGood
<1>5. Good(Raise(l.msg, k.bad))
  BY <1>2, <1>4, FailedIsGood DEF Good
<1>6. ASSUME l.at # 0, AttrAt(l).afi # "bad" PROVE Good(there)
  <2>1. AttrAt(l).afi \in {"v4", "v6"}
    BY <1>3, <1>6, FoundType DEF Attributes
  <2>2. Cursor(k.mp, l.at) \in Cursors
    BY <1>3, KindType, CursorType DEF IsAttr
  <2>3. there \in Messages
    BY <1>4, <2>1, <2>2 DEF Good, Messages
  <2> QED
    BY <1>4, <2>3 DEF Good, Messages, IterMatches
<1> HIDE DEF there
<1>7. ASSUME l.at # 0, AttrAt(l).afi # "bad" PROVE Good(ReadPrefix(there, k).msg)
  BY <1>6, <1>7, ReadPrefixType
<1>8. SwitchToMp(m, k).msg \in
        {l.msg, Raise(l.msg, k.bad)} \cup
        (IF l.at # 0 /\ AttrAt(l).afi # "bad"
           THEN {there, ReadPrefix(there, k).msg} ELSE {})
  BY DEF SwitchToMp, o, l, there
<1> QED
  BY <1>4, <1>5, <1>6, <1>7, <1>8

\* nextwithdrawn_r and nextnlri_r keep the invariant.
LEMMA NextPrefixType ==
    ASSUME pkt \in Packets, NEW m, Good(m), NEW k \in {WithdrawnKind, NlriKind}
    PROVE  Good(NextPrefix(m, k).msg)
<1>1. Good(Refuse(m))
  BY FailedIsGood DEF Good
<1> QED
  BY <1>1, ReadPrefixType, SwitchToMpType DEF NextPrefix

-----------------------------------------------------------------------------
\* startbgpattribs_r keeps the invariant.
LEMMA StartAttribsType ==
    ASSUME NEW m, Good(m), OnePending(m)
    PROVE  Good(StartAttribs(m))
<1>1. Good(Refuse(m))
  BY FailedIsGood DEF Good
<1> DEFINE n == EndPending(m)
<1>2. n \in Messages /\ Coherent(n.offtab) /\ IterMatches(n)
  BY EndedType, NothingPending
<1>3. /\ {"F_PATTR"} \in SUBSET Flags
      /\ {"F_PATTR"} \cap {"F_ASPATH", "F_NHOP", "F_COMMUNITY"} = {}
      /\ Cursor("attrs", 0) \in Cursors
  BY FlagsListed, CursorType
<1> HIDE DEF n
<1>4. Good([n EXCEPT !.flags = @ \cup {"F_PATTR"}, !.uit = Cursor("attrs", 0)])
  BY <1>2, <1>3, BegunType
<1> QED
  BY <1>1, <1>4 DEF StartAttribs, n

\* nextbgpattrib_r records each attribute it returns at its place.
LEMMA NextAttribType ==
    ASSUME pkt \in Packets, NEW m, Good(m),
           Allowed(m, {"F_PATTR"}) => m.uit.field = "attrs"
    PROVE  Good(NextAttrib(m).msg)
<1> DEFINE n == m.uit.pos + 1
           c == pkt.attrs[n].code
           offtab == IF c \in NotableCodes THEN [m.offtab EXCEPT ![c] = n] ELSE m.offtab
<1>1. Good(Refuse(m)) /\ Good(Raise(m, "EBADATTR"))
  BY FailedIsGood DEF Good, Errors
<1>2. ASSUME Allowed(m, {"F_RD", "F_PATTR"}), ~AllRead(m.uit)
      PROVE  Good([m EXCEPT !.uit.pos = n, !.offtab = offtab])
  <2>1. m.uit.field = "attrs"
    BY <1>2 DEF Allowed
  <2>2. m.uit.pos \in Nat /\ m.offtab \in [NotableCodes -> Int]
    BY DEF Good, Messages, Cursors
  <2>3. n \in DOMAIN pkt.attrs /\ n \in Nat \ {0}
    BY <1>2, <2>1, <2>2, PacketType DEF AllRead, Content
  <2> HIDE DEF n
  <2>4. offtab \in [NotableCodes -> Int]
    BY <2>2, <2>3
  <2>5. Coherent(offtab)
    <3>1. Coherent(m.offtab)
      BY DEF Good
    <3>2. CASE c \in NotableCodes
      <4>1. \A d \in NotableCodes : offtab[d] = IF d = c THEN n ELSE m.offtab[d]
        BY <2>2, <3>2
      <4> HIDE DEF offtab
      <4>2. n # NotFound
        BY <2>3 DEF NotFound
      <4>3. ASSUME NEW d \in NotableCodes
            PROVE  /\ offtab[d] = NotFound => \A i \in DOMAIN pkt.attrs : pkt.attrs[i].code # d
                   /\ offtab[d] \notin {Unknown, NotFound} =>
                        offtab[d] \in DOMAIN pkt.attrs /\ pkt.attrs[offtab[d]].code = d
        <5>1. CASE d = c
          BY <2>3, <4>1, <4>2, <5>1
        <5>2. CASE d # c
          BY <3>1, <4>1, <5>2 DEF Coherent
        <5> QED
          BY <5>1, <5>2
      <4> QED
        BY <4>3 DEF Coherent
    <3>3. CASE c \notin NotableCodes
      BY <3>1, <3>3
    <3> QED
      BY <3>2, <3>3
  <2> HIDE DEF offtab
  <2>6. [m EXCEPT !.uit.pos = n, !.offtab = offtab] \in Messages
    BY <2>3, <2>4 DEF Good, Messages, Cursors
  <2> QED
    BY <2>5, <2>6 DEF Good, Messages, IterMatches
<1> QED
  BY <1>1, <1>2 DEF NextAttrib

-----------------------------------------------------------------------------
\* Setting the union to an iterator while marking that iterator as pending,
\* no other being pending, keeps the invariant.
LEMMA UnionSetType ==
    ASSUME NEW n \in Messages, Coherent(n.offtab),
           n.err = "ENOERR" => Pending(n) = {},
           NEW f \in {"F_ASPATH", "F_NHOP", "F_COMMUNITY"},
           NEW iter \in (CASE f = "F_ASPATH" -> PathIters
                          [] f = "F_NHOP" -> HopIters
                          [] f = "F_COMMUNITY" -> CommunityIters)
    PROVE  Good([n EXCEPT !.flags = @ \cup {f}, !.iter = iter])
<1> DEFINE o == [n EXCEPT !.flags = @ \cup {f}, !.iter = iter]
<1>1. /\ f = "F_ASPATH" => iter \in PathIters
      /\ f = "F_NHOP" => iter \in HopIters
      /\ f = "F_COMMUNITY" => iter \in CommunityIters
  OBVIOUS
<1>2. iter \in PathIters \cup HopIters \cup CommunityIters
  BY <1>1
<1>3. n.flags \cup {f} \in SUBSET Flags
  BY FlagsListed DEF Messages
<1>4. o \in Messages
  BY <1>2, <1>3 DEF Messages
<1>5. o.err = n.err /\ o.flags = n.flags \cup {f} /\ o.iter = iter /\ o.offtab = n.offtab
  BY DEF Messages
<1>6. n.err = "ENOERR" => n.flags \cap {"F_ASPATH", "F_NHOP", "F_COMMUNITY"} = {}
  BY FlagsListed DEF Pending
<1> HIDE DEF o
<1>7. IterMatches(o)
  BY <1>1, <1>5, <1>6 DEF IterMatches
<1> QED
  BY <1>4, <1>5, <1>7 DEF Good, o

\* Changing the current path iterator into another one keeps the invariant.
LEMMA PathSetType ==
    ASSUME NEW m, Good(m), m.err = "ENOERR" => "F_ASPATH" \in m.flags,
           NEW iter \in PathIters, NEW flags \in SUBSET {"F_REALASPATH"}
    PROVE  /\ Good([m EXCEPT !.iter = iter])
           /\ Good([m EXCEPT !.iter = iter, !.flags = @ \cup flags])
           /\ Good([m EXCEPT !.iter = iter, !.flags = @ \ flags])
<1>1. /\ m.flags \cup flags \in SUBSET Flags /\ m.flags \ flags \in SUBSET Flags
      /\ m.flags \in SUBSET Flags
  BY FlagsListed DEF Good, Messages
<1>2. m \in Messages /\ Coherent(m.offtab)
  BY DEF Good
<1>3. m.err = "ENOERR" => "F_NHOP" \notin m.flags /\ "F_COMMUNITY" \notin m.flags
  BY ItersDisjoint DEF Good, IterMatches
<1>4. ASSUME NEW fl \in SUBSET Flags,
             \A f \in {"F_NHOP", "F_COMMUNITY"} : f \in fl => f \in m.flags
      PROVE  Good([m EXCEPT !.iter = iter, !.flags = fl])
  <2> DEFINE o == [m EXCEPT !.iter = iter, !.flags = fl]
  <2>1. o \in Messages
    BY <1>2 DEF Messages
  <2>2. o.err = m.err /\ o.iter = iter /\ o.flags = fl /\ o.offtab = m.offtab
    BY <1>2 DEF Messages
  <2> HIDE DEF o
  <2>3. IterMatches(o)
    BY <1>3, <1>4, <2>2 DEF IterMatches
  <2> QED
    BY <1>2, <2>1, <2>2, <2>3 DEF Good, o
<1>5. [m EXCEPT !.iter = iter] = [m EXCEPT !.iter = iter, !.flags = m.flags]
  BY <1>2 DEF Messages
<1> QED
  BY <1>1, <1>4, <1>5

\* An attribute that a lookup found, or none, gives a path.
LEMMA PathAtType ==
    ASSUME pkt \in Packets, NEW c, NEW l, IsAttr(l.at, c)
    PROVE  PathAt(l) \in Paths /\ (l.at # 0 => AttrAt(l).path = PathAt(l))
<1>1. EmptyPath \in Paths
  BY DEF EmptyPath, Paths
<1> QED
  BY <1>1, FoundType DEF PathAt, Attributes

\* startaspath_r and startas4path_r make the path iterator current.
LEMMA StartPathType ==
    ASSUME pkt \in Packets, NEW m, Good(m), OnePending(m),
           NEW code \in NotableCodes, NEW wide \in BOOLEAN
    PROVE  Good(StartPath(m, code, wide))
<1> DEFINE l == Lookup(m, code)
           n == EndPending(l.msg)
<1>1. Good(Refuse(m))
  BY FailedIsGood DEF Good
<1>2. OnlyLooked(l.msg, m) /\ IsAttr(l.at, code)
  BY LookupType DEF Good
<1> HIDE DEF l
<1>3. l.msg \in Messages /\ Coherent(l.msg.offtab)
      /\ (l.msg.err = "ENOERR" => OnePending(l.msg))
  BY <1>2 DEF OnlyLooked, OnePending, Pending
<1>4. n \in Messages /\ Coherent(n.offtab) /\ (n.err = "ENOERR" => Pending(n) = {})
  BY <1>3, EndPendingType
<1>5. PathIter(PathAt(l), wide) \in PathIters
  BY <1>2, PathAtType, PathIterType
<1> HIDE DEF n
<1>6. Good([n EXCEPT !.flags = @ \cup {"F_ASPATH"}, !.iter = PathIter(PathAt(l), wide)])
  BY <1>4, <1>5, UnionSetType
<1> QED
  BY <1>1, <1>6 DEF StartPath, n, l

\* nextaspath_r stays on the path iterator.
LEMMA NextPathType ==
    ASSUME NEW m, Good(m)
    PROVE  Good(NextPath(m).msg)
<1> DEFINE r == NextAsPath(m.iter)
           flags == IF r.iter.ascount = Unchecked THEN {"F_REALASPATH"} ELSE {}
           n == [m EXCEPT !.iter   = r.iter,
                          !.flags = IF r.iter.ascount = Unchecked
                                      THEN @ \ {"F_REALASPATH"} ELSE @]
<1>1. Good(Refuse(m))
  BY FailedIsGood DEF Good
<1>2. CASE Allowed(m, {"F_ASPATH"})
  <2>1. m.iter \in PathIters /\ "F_ASPATH" \in m.flags
    BY <1>2 DEF Good, IterMatches, Allowed
  <2>2. r.iter \in PathIters
    BY <2>1, NextAsPathType
  <2> HIDE DEF r
  <2>3. Good([m EXCEPT !.iter = r.iter, !.flags = @ \ flags])
    BY <2>1, <2>2, PathSetType
  <2>4. n = [m EXCEPT !.iter = r.iter, !.flags = @ \ flags]
    OBVIOUS
  <2>5. Good(n)
    BY <2>3, <2>4
  <2> HIDE DEF n
  <2>6. Good(Raise(n, "EBADATTR"))
    BY <2>5, FailedIsGood DEF Good, Errors
  <2>7. NextPath(m).msg = IF r.bad THEN Raise(n, "EBADATTR") ELSE n
    BY <1>2 DEF NextPath, n, r
  <2> QED
    BY <2>5, <2>6, <2>7
<1>3. CASE ~Allowed(m, {"F_ASPATH"})
  BY <1>1, <1>3 DEF NextPath
<1> QED
  BY <1>2, <1>3

\* A message on which the path iterator is current.
OnPath(m) == Good(m) /\ (m.err = "ENOERR" => "F_ASPATH" \in m.flags)

\* Lookups leave the path iterator current.
LEMMA LookupOnPath ==
    ASSUME pkt \in Packets, NEW m, OnPath(m), NEW c \in NotableCodes
    PROVE  /\ OnPath(Lookup(m, c).msg) /\ IsAttr(Lookup(m, c).at, c)
           /\ Lookup(m, c).msg.iter = m.iter
<1>1. OnlyLooked(Lookup(m, c).msg, m) /\ IsAttr(Lookup(m, c).at, c)
  BY LookupType DEF OnPath, Good
<1> QED
  BY <1>1, LookedIsGood DEF OnPath, OnlyLooked

\* The merge of AS_PATH and AS4_PATH keeps the path iterator current.
LEMMA MergeAs4PathType ==
    ASSUME pkt \in Packets, NEW asp, OnPath(asp.msg), IsAttr(asp.at, "AS_PATH"),
           asp.at # 0
    PROVE  Good(MergeAs4Path(asp))
<1> DEFINE path  == AttrAt(asp).path
           m     == [asp.msg EXCEPT !.iter = PathIter(path, FALSE)]
           aggr  == Lookup(m, "AGGREGATOR")
           aggr4 == Lookup(aggr.msg, "AS4_AGGREGATOR")
           as4p  == Lookup(aggr4.msg, "AS4_PATH")
           iter  == Reconstruct(m.iter, path, AttrAt(as4p).path)
<1>1. path \in Paths
  BY PathAtType
<1>2. OnPath(m) /\ m.iter \in PathIters
  <2>1. PathIter(path, FALSE) \in PathIters
    BY <1>1, PathIterType
  <2>2. Good(m)
    BY <2>1, PathSetType DEF OnPath
  <2> QED
    BY <2>1, <2>2 DEF OnPath, Good, Messages
<1> HIDE DEF m
<1>3. OnPath(aggr.msg)
  BY <1>2, LookupOnPath DEF NotableCodes
<1> HIDE DEF aggr
<1>4. OnPath(aggr4.msg)
  BY <1>3, LookupOnPath DEF NotableCodes
<1> HIDE DEF aggr4
<1>5. OnPath(as4p.msg) /\ IsAttr(as4p.at, "AS4_PATH")
  BY <1>4, LookupOnPath DEF NotableCodes
<1> HIDE DEF as4p
<1>6. Good(Raise(as4p.msg, "EBADATTR"))
  BY <1>5, FailedIsGood DEF OnPath, Good, Errors
<1> DEFINE merged == [as4p.msg EXCEPT !.iter   = iter,
                                      !.flags = IF iter.ascount = Unchecked THEN @
                                                ELSE @ \cup {"F_REALASPATH"}]
<1>7. ASSUME as4p.at # 0 PROVE Good(merged)
  <2>1. AttrAt(as4p).path \in Paths
    BY <1>5, <1>7, PathAtType
  <2>2. iter \in PathIters
    BY <1>1, <1>2, <2>1, ReconstructType
  <2> HIDE DEF iter
  <2>3. /\ Good([as4p.msg EXCEPT !.iter = iter])
        /\ Good([as4p.msg EXCEPT !.iter = iter, !.flags = @ \cup {"F_REALASPATH"}])
    BY <1>5, <2>2, PathSetType DEF OnPath
  <2>4. [as4p.msg EXCEPT !.iter = iter] = [as4p.msg EXCEPT !.iter = iter, !.flags = @]
    BY <1>5 DEF OnPath, Good, Messages
  <2> QED
    BY <2>3, <2>4
<1> HIDE DEF merged
<1> DEFINE Ignored == aggr.at # 0 /\ aggr4.at # 0 /\ AttrAt(aggr).as # AS_TRANS
           IsCut == AttrAt(asp).path.cut \/ AttrAt(as4p).path.cut
<1>8. MergeAs4Path(asp) =
        IF Ignored THEN aggr4.msg
        ELSE IF as4p.at = 0 THEN as4p.msg
        ELSE IF IsCut THEN Raise(as4p.msg, "EBADATTR")
        ELSE merged
  BY ZenonT(60) DEF MergeAs4Path, m, aggr, aggr4, as4p, merged
<1> HIDE DEF Ignored, IsCut
<1> QED
  BY <1>4, <1>5, <1>6, <1>7, <1>8 DEF OnPath

\* startrealaspath_r makes the path iterator current.
LEMMA StartRealPathType ==
    ASSUME pkt \in Packets, NEW m, Good(m), OnePending(m)
    PROVE  Good(StartRealPath(m))
<1> DEFINE n     == EndPending(m)
           fresh == [n EXCEPT !.flags = @ \cup {"F_ASPATH"},
                              !.iter   = PathIter(EmptyPath, pkt.asn32)]
           asp   == Lookup(fresh, "AS_PATH")
           plain == [asp.msg EXCEPT !.iter = PathIter(AttrAt(asp).path, TRUE)]
<1>1. Good(Refuse(m))
  BY FailedIsGood DEF Good
<1>2. n \in Messages /\ Coherent(n.offtab) /\ (n.err = "ENOERR" => Pending(n) = {})
  BY EndedType
<1>3. PathIter(EmptyPath, pkt.asn32) \in PathIters
  <2>1. EmptyPath \in Paths
    BY DEF EmptyPath, Paths
  <2>2. pkt.asn32 \in BOOLEAN
    BY PacketType
  <2> QED
    BY <2>1, <2>2, PathIterType
<1> HIDE DEF n
<1>4. OnPath(fresh)
  <2>1. Good(fresh)
    BY <1>2, <1>3, UnionSetType
  <2>2. "F_ASPATH" \in fresh.flags
    BY <1>2 DEF Messages
  <2> QED
    BY <2>1, <2>2 DEF OnPath
<1> HIDE DEF fresh
<1>5. OnPath(asp.msg) /\ IsAttr(asp.at, "AS_PATH")
  BY <1>4, LookupOnPath DEF NotableCodes
<1> HIDE DEF asp
<1>6. ASSUME asp.at # 0 PROVE Good(plain) /\ Good(MergeAs4Path(asp))
  <2>1. AttrAt(asp).path \in Paths
    BY <1>5, <1>6, PathAtType
  <2>2. PathIter(AttrAt(asp).path, TRUE) \in PathIters
    BY <2>1, PathIterType
  <2> QED
    BY <1>5, <1>6, <2>2, PathSetType, MergeAs4PathType DEF OnPath
<1> HIDE DEF plain
<1>7. StartRealPath(m) \in
        {Refuse(m), asp.msg} \cup
        (IF asp.at # 0 THEN {plain, MergeAs4Path(asp)} ELSE {})
  BY DEF StartRealPath, n, fresh, asp, plain
<1> QED
  BY <1>1, <1>5, <1>6, <1>7 DEF OnPath

-----------------------------------------------------------------------------
\* Changing the current next hop iterator into another one keeps the invariant.
LEMMA HopsSetType ==
    ASSUME NEW m, Good(m), m.err = "ENOERR" => "F_NHOP" \in m.flags,
           NEW iter \in HopIters, NEW family \in {"v4", "v6"}
    PROVE  /\ Good([m EXCEPT !.iter = iter])
           /\ Good([m EXCEPT !.iter = iter, !.family = family])
<1>1. m \in Messages /\ Coherent(m.offtab)
  BY DEF Good
<1>2. m.err = "ENOERR" => "F_ASPATH" \notin m.flags /\ "F_COMMUNITY" \notin m.flags
  BY ItersDisjoint DEF Good, IterMatches
<1>3. [m EXCEPT !.iter = iter] \in Messages
      /\ [m EXCEPT !.iter = iter, !.family = family] \in Messages
  BY <1>1 DEF Messages
<1>4. IterMatches([m EXCEPT !.iter = iter])
      /\ IterMatches([m EXCEPT !.iter = iter, !.family = family])
  BY <1>1, <1>2 DEF IterMatches, Messages
<1> QED
  BY <1>1, <1>3, <1>4 DEF Good, Messages

\* nextnhop_r stays on the next hop iterator.
LEMMA NextHopType ==
    ASSUME NEW m, Good(m)
    PROVE  Good(NextHop(m).msg)
<1> DEFINE done  == m.iter.rest = <<>> /\ ~m.iter.cut
           iter1 == IF done THEN [m.iter EXCEPT !.rest = m.iter.mprest,
                                                !.cut  = m.iter.mpcut,
                                                !.mp   = FALSE]
                            ELSE m.iter
           fam   == IF done THEN m.iter.mpfamily ELSE m.family
           n     == [m EXCEPT !.family = fam, !.iter = iter1]
           n0    == IF done
                      THEN [m EXCEPT !.family = m.iter.mpfamily,
                                     !.iter   = [m.iter EXCEPT !.rest = m.iter.mprest,
                                                               !.cut  = m.iter.mpcut,
                                                               !.mp   = FALSE]]
                      ELSE m
           read  == [n EXCEPT !.iter.rest = Tail(@)]
<1>1. Good(Refuse(m))
  BY FailedIsGood DEF Good
<1>2. CASE ~Allowed(m, {"F_NHOP"})
  BY <1>1, <1>2 DEF NextHop
<1>3. CASE Allowed(m, {"F_NHOP"})
  <2>1. m.iter \in HopIters /\ "F_NHOP" \in m.flags /\ m \in Messages
    BY <1>3 DEF Good, IterMatches, Allowed
  <2>2. iter1 \in HopIters /\ fam \in {"v4", "v6"}
    BY <2>1 DEF HopIters, Messages
  <2>3. n0 = n
    BY <2>1 DEF Messages
  <2> HIDE DEF iter1, fam
  <2>4. n = [m EXCEPT !.iter = iter1, !.family = fam]
    OBVIOUS
  <2>5. Good(n)
    BY <2>1, <2>2, <2>4, HopsSetType
  <2>6. n.iter = iter1 /\ n.flags = m.flags /\ n \in Messages
    BY <2>1, <2>2 DEF Messages
  <2> HIDE DEF n
  <2>7. Good(Raise(n, "EBADATTR"))
    BY <2>5, FailedIsGood DEF Good, Errors
  <2>8. ASSUME n.iter.rest # <<>> PROVE Good(read)
    <3>1. [n.iter EXCEPT !.rest = Tail(@)] \in HopIters
      <4>1. n.iter.rest \in Seq(Nat) /\ n.iter \in HopIters
        BY <2>2, <2>6 DEF HopIters
      <4>2. Tail(n.iter.rest) \in Seq(Nat)
        BY <2>8, <4>1, HeadTailProperties
      <4> QED
        BY <4>1, <4>2 DEF HopIters
    <3>2. read = [n EXCEPT !.iter = [n.iter EXCEPT !.rest = Tail(@)]]
      BY <2>6 DEF Messages
    <3> QED
      BY <2>1, <2>5, <2>6, <3>1, <3>2, HopsSetType
  <2> HIDE DEF read
  <2>9. NextHop(m).msg \in
          {m, Raise(n, "EBADATTR")} \cup (IF n.iter.rest # <<>> THEN {read} ELSE {})
    <3>1. CASE done /\ ~m.iter.mp
      BY <1>3, <3>1 DEF NextHop
    <3>2. CASE ~(done /\ ~m.iter.mp) /\ n0.iter.rest = <<>>
      <4>1. NextHop(m).msg = Raise(n0, "EBADATTR")
        BY <1>3, <3>2 DEF NextHop
      <4> QED
        BY <2>3, <4>1
    <3>3. CASE ~(done /\ ~m.iter.mp) /\ n0.iter.rest # <<>>
      <4>1. NextHop(m).msg = [n0 EXCEPT !.iter.rest = Tail(@)]
        BY <1>3, <3>3 DEF NextHop
      <4> HIDE DEF n0
      <4> QED
        BY <2>3, <3>3, <4>1 DEF read
    <3> QED
      BY <3>1, <3>2, <3>3
  <2> QED
    BY <2>5, <2>7, <2>8, <2>9
<1> QED
  BY <1>2, <1>3

\* The next hops of an attribute that a lookup found.
LEMMA HopsOfType ==
    ASSUME pkt \in Packets, NEW c, NEW l, IsAttr(l.at, c), l.at # 0
    PROVE  /\ AttrAt(l).nh \in Seq(Nat) /\ AttrAt(l).nhcut \in BOOLEAN
           /\ AttrAt(l).afi \in {"v4", "v6", "bad"}
BY FoundType DEF Attributes

\* A message between endpending and the flag of the next iteration: no iterator
\* is current, and the union may be written.
Between(m) ==
    /\ m \in Messages /\ Coherent(m.offtab)
    /\ m.err = "ENOERR" => Pending(m) = {}

\* Lookups and writes to the union leave it so.
LEMMA BetweenLookup ==
    ASSUME pkt \in Packets, NEW m, Between(m), NEW c \in NotableCodes
    PROVE  /\ Between(Lookup(m, c).msg) /\ IsAttr(Lookup(m, c).at, c)
           /\ Lookup(m, c).msg.iter = m.iter
<1>1. OnlyLooked(Lookup(m, c).msg, m) /\ IsAttr(Lookup(m, c).at, c)
  BY LookupType DEF Between
<1> QED
  BY <1>1 DEF Between, OnlyLooked, Pending

\* startnhop may write the next hop iterator while no iterator is current.
LEMMA BetweenWrite ==
    ASSUME NEW m, Between(m), NEW iter \in HopIters, NEW family \in {"v4", "v6"}
    PROVE  /\ Between([m EXCEPT !.iter = iter])
           /\ Between([m EXCEPT !.iter = iter, !.family = family])
BY DEF Between, Messages, Pending

\* startnhop_r makes the next hop iterator current.
LEMMA StartNextHopsType ==
    ASSUME pkt \in Packets, NEW m, Good(m), OnePending(m)
    PROVE  Good(StartNextHops(m))
<1> DEFINE e    == EndPending(m)
           n    == [e EXCEPT !.iter = NoHops]
           nh   == Lookup(n, "NEXT_HOP")
           own1 == [nh.msg EXCEPT !.iter.rest = AttrAt(nh).nh,
                                  !.family  = "v4"]
           own  == IF nh.at = 0 THEN nh.msg ELSE own1
           mp   == Lookup(own, "MP_REACH_NLRI")
           hops == [mp.msg.iter EXCEPT !.mp     = TRUE,
                                       !.mprest = AttrAt(mp).nh,
                                       !.mpcut  = AttrAt(mp).nhcut,
                                       !.mpfamily = IF AttrAt(mp).afi = "bad" THEN @
                                                    ELSE AttrAt(mp).afi]
           both == IF mp.at = 0 THEN mp.msg ELSE [mp.msg EXCEPT !.iter = hops]
<1>1. Good(Refuse(m))
  BY FailedIsGood DEF Good
<1>2. NoHops \in HopIters
  BY DEF NoHops, HopIters
<1>3. Between(n) /\ n.iter \in HopIters
  <2>1. Between(e)
    BY EndedType DEF Between
  <2> HIDE DEF e
  <2> QED
    BY <1>2, <2>1, BetweenWrite DEF Between, Messages
<1> HIDE DEF n
<1>4. Between(nh.msg) /\ IsAttr(nh.at, "NEXT_HOP") /\ nh.msg.iter \in HopIters
  BY <1>3, BetweenLookup DEF NotableCodes
<1> HIDE DEF nh
<1>5. ASSUME nh.at # 0 PROVE Between(own1) /\ own1.iter \in HopIters
  <2> DEFINE first == [nh.msg.iter EXCEPT !.rest = AttrAt(nh).nh]
  <2>1. AttrAt(nh).nh \in Seq(Nat)
    BY <1>4, <1>5, HopsOfType
  <2>2. first \in HopIters
    BY <1>4, <2>1 DEF HopIters
  <2>3. own1 = [nh.msg EXCEPT !.iter = first, !.family = "v4"]
    BY <1>4 DEF Between, Messages
  <2> HIDE DEF first, own1
  <2> QED
    BY <1>4, <2>2, <2>3, BetweenWrite DEF Between, Messages
<1> HIDE DEF own1
<1>6. Between(own) /\ own.iter \in HopIters
  BY <1>4, <1>5
<1> HIDE DEF own
<1>7. Between(mp.msg) /\ IsAttr(mp.at, "MP_REACH_NLRI") /\ mp.msg.iter \in HopIters
  BY <1>6, BetweenLookup DEF NotableCodes
<1> HIDE DEF mp
<1>8. ASSUME mp.at # 0 PROVE hops \in HopIters
  <2>1. AttrAt(mp).nh \in Seq(Nat) /\ AttrAt(mp).nhcut \in BOOLEAN
        /\ AttrAt(mp).afi \in {"v4", "v6", "bad"}
    BY <1>7, <1>8, HopsOfType
  <2> QED
    BY <1>7, <2>1 DEF HopIters
<1> HIDE DEF hops
<1>9. Between(both) /\ both.iter \in HopIters
  BY <1>7, <1>8, BetweenWrite DEF Between, Messages
<1> HIDE DEF both
<1>10. Good(Raise(both, "EBADATTR"))
  BY <1>9, FailedIsGood DEF Between, Errors
<1>11. Good([both EXCEPT !.flags = @ \cup {"F_NHOP"}])
  <2>1. Good([both EXCEPT !.flags = @ \cup {"F_NHOP"}, !.iter = both.iter])
    BY <1>9, UnionSetType DEF Between
  <2>2. [both EXCEPT !.flags = @ \cup {"F_NHOP"}, !.iter = both.iter]
          = [both EXCEPT !.flags = @ \cup {"F_NHOP"}]
    BY <1>9 DEF Between, Messages
  <2> QED
    BY <2>1, <2>2
<1>12. StartNextHops(m) =
         IF ~pkt.update \/ ~Allowed(m, {"F_RD"}) THEN Refuse(m)
         ELSE IF mp.at # 0 /\ AttrAt(mp).afi = "bad" THEN Raise(both, "EBADATTR")
         ELSE [both EXCEPT !.flags = @ \cup {"F_NHOP"}]
  BY ZenonT(60) DEF StartNextHops, n, nh, own1, own, mp, hops, both
<1> QED
  BY <1>1, <1>10, <1>11, <1>12

\* startcommunities_r makes the community iterator current.
LEMMA StartCommunitiesType ==
    ASSUME pkt \in Packets, NEW m, Good(m), OnePending(m),
           NEW code \in CommunityCodes \cup {"none"}
    PROVE  Good(StartCommunities(m, code))
<1> DEFINE n == EndPending(m)
           l == Lookup(n, code)
           begun == [l.msg EXCEPT !.flags = @ \cup {"F_COMMUNITY"},
                                  !.iter  = [ccode |-> code],
                                  !.uit   = Cursor("community", l.at)]
<1>1. Good(Refuse(m))
  BY FailedIsGood DEF Good
<1>2. Between(n)
  BY EndedType DEF Between
<1> HIDE DEF n
<1>3. Good(Raise(n, "EINVOP"))
  BY <1>2, FailedIsGood DEF Between, Errors
<1>4. ASSUME code \in CommunityCodes PROVE Good(begun)
  <2>1. Between(l.msg) /\ IsAttr(l.at, code)
    BY <1>2, <1>4, BetweenLookup DEF NotableCodes, CommunityCodes
  <2> HIDE DEF l
  <2>2. [ccode |-> code] \in CommunityIters
    BY <1>4 DEF CommunityIters
  <2> DEFINE o == [l.msg EXCEPT !.flags = @ \cup {"F_COMMUNITY"}, !.iter = [ccode |-> code]]
  <2>3. Good(o)
    BY <2>1, <2>2, UnionSetType DEF Between
  <2>4. Cursor("community", l.at) \in Cursors
    BY <2>1, CursorType DEF IsAttr
  <2>5. begun = [o EXCEPT !.uit = Cursor("community", l.at)]
    OBVIOUS
  <2> HIDE DEF o, begun
  <2>6. [o EXCEPT !.uit = Cursor("community", l.at)] \in Messages
    BY <2>3, <2>4 DEF Good, Messages
  <2> QED
    BY <2>3, <2>5, <2>6 DEF Good, Messages, IterMatches
<1> HIDE DEF begun
<1>5. StartCommunities(m, code) \in
        {Refuse(m), Raise(n, "EINVOP")} \cup
        (IF code \in CommunityCodes THEN {begun} ELSE {})
  BY DEF StartCommunities, n, l, begun
<1> QED
  BY <1>1, <1>3, <1>4, <1>5

\* nextcommunity_r keeps the invariant.
LEMMA NextCommunityType ==
    ASSUME NEW m, Good(m)
    PROVE  Good(NextCommunity(m).msg)
<1>1. Good(Refuse(m)) /\ Good(Raise(m, "EBADATTR"))
  BY FailedIsGood DEF Good, Errors
<1> QED
  BY <1>1, MovedType DEF NextCommunity

\* Every end function keeps the invariant.
LEMMA EndIterationType ==
    ASSUME NEW m, Good(m), NEW f
    PROVE  Good(EndIteration(m, f))
<1>1. Good(Refuse(m))
  BY FailedIsGood DEF Good
<1>2. ASSUME NEW cleared PROVE Good([m EXCEPT !.flags = @ \ cleared])
  BY DEF Good, Messages, IterMatches
<1> QED
  BY <1>1, <1>2 DEF EndIteration

-----------------------------------------------------------------------------
\* The inductive invariant: the three invariants together.
IInv == TypeOK /\ UnionIsCurrent /\ SeekCoherent

\* A call on an open message that leaves a good message keeps the invariant.
LEMMA StepIsGood ==
    ASSUME TypeOK, NEW m, Good(m), open, msg' = m, UNCHANGED <<pkt, open>>
    PROVE  IInv'
BY DEF IInv, Good, TypeOK, UnionIsCurrent, SeekCoherent, Coherent

\* The open message of a state in which the invariant holds is good.
LEMMA OpenIsGood ==
    ASSUME IInv, open
    PROVE  Good(msg) /\ pkt \in Packets
BY DEF IInv, Good, TypeOK, UnionIsCurrent, SeekCoherent

\* A fresh bgp_msg_t is good.
LEMMA InitIsGood == Init => IInv
<1> SUFFICES ASSUME Init PROVE IInv
  OBVIOUS
<1>1. NoHops \in HopIters /\ Null \in Cursors
  BY DEF NoHops, HopIters, Null, Cursors
<1>2. [c \in NotableCodes |-> Unknown] \in [NotableCodes -> Int]
  BY DEF Unknown
<1>3. msg \in Messages
  BY <1>1, <1>2 DEF Init, Messages, Errors
<1>4. msg.flags = {} /\ pkt \in Packets
  BY DEF Init
<1>5. open \in BOOLEAN /\ ~open
  BY DEF Init
<1>6. TypeOK
  BY <1>3, <1>4, <1>5 DEF TypeOK
<1>7. UnionIsCurrent
  BY <1>4 DEF UnionIsCurrent, IterMatches
<1>8. SeekCoherent
  BY <1>5 DEF SeekCoherent
<1> QED
  BY <1>6, <1>7, <1>8 DEF IInv

\* setbgpread forgets what the offset table said of the packet before.
LEMMA setbgpreadStep ==
    ASSUME IInv, NEW p \in Packets, setbgpread(p)
    PROVE  IInv'
<1> DEFINE offtab == [c \in NotableCodes |-> Unknown]
<1>1. offtab \in [NotableCodes -> Int] /\ \A c \in NotableCodes : offtab[c] = Unknown
  BY DEF Unknown
<1> HIDE DEF offtab
<1>2. msg' = [msg EXCEPT !.flags = {"F_RD"}, !.err = "ENOERR", !.offtab = offtab]
  BY DEF setbgpread, offtab
<1>3. {"F_RD"} \in SUBSET Flags
  BY FlagsListed
<1>4. msg' \in Messages /\ msg'.flags = {"F_RD"} /\ msg'.offtab = offtab
  BY <1>1, <1>2, <1>3 DEF IInv, TypeOK, Messages, Errors
<1>5. UnionIsCurrent'
  BY <1>4 DEF UnionIsCurrent, IterMatches
<1>6. SeekCoherent'
  BY <1>1, <1>4 DEF SeekCoherent, Coherent, Unknown, NotFound
<1> QED
  BY <1>4, <1>5, <1>6 DEF setbgpread, IInv, TypeOK

\* bgpclose leaves no iteration pending.
LEMMA bgpcloseStep ==
    ASSUME IInv, bgpclose
    PROVE  IInv'
<1>1. msg' \in Messages /\ msg'.flags = {}
  BY DEF bgpclose, IInv, TypeOK, Messages, Errors
<1> QED
  BY <1>1 DEF bgpclose, IInv, TypeOK, UnionIsCurrent, IterMatches, SeekCoherent

\* Every lookup asks for an attribute of the offset table.
LEMMA SoughtIsNotable == \A l \in Lookups : Sought(l) \in NotableCodes
BY DEF Lookups, Sought, NotableCodes

\* Every call of a client keeps the invariant.
LEMMA NextKeepsIInv == IInv /\ [Next]_vars => IInv'
<1> SUFFICES ASSUME IInv, [Next]_vars PROVE IInv'
  OBVIOUS
<1> USE StepIsGood, OpenIsGood
<1>0. TypeOK
  BY DEF IInv
<1>1. ASSUME NEW p \in Packets, setbgpread(p) PROVE IInv'
  BY <1>1, setbgpreadStep
<1>2. CASE bgpclose
  BY <1>2, bgpcloseStep
<1>3. CASE startwithdrawn
  <2>1. open /\ OnePending(msg) /\ msg' = StartPrefixes(msg, WithdrawnKind, {"F_WITHDRN"}) /\ UNCHANGED <<pkt, open>>
    BY <1>3 DEF startwithdrawn, Begins, Starts
  <2>2. {"F_WITHDRN"} \subseteq {WithdrawnKind.flag, WithdrawnKind.all}
    BY DEF WithdrawnKind
  <2>3. Good(StartPrefixes(msg, WithdrawnKind, {"F_WITHDRN"}))
    BY <2>1, <2>2, StartPrefixesType
  <2> QED
    BY <1>0, <2>1, <2>3
<1>4. CASE startallwithdrawn
  <2>1. open /\ OnePending(msg) /\ msg' = StartPrefixes(msg, WithdrawnKind, {"F_WITHDRN", "F_ALLWITHDRN"}) /\ UNCHANGED <<pkt, open>>
    BY <1>4 DEF startallwithdrawn, Begins, Starts
  <2>2. {"F_WITHDRN", "F_ALLWITHDRN"} \subseteq {WithdrawnKind.flag, WithdrawnKind.all}
    BY DEF WithdrawnKind
  <2>3. Good(StartPrefixes(msg, WithdrawnKind, {"F_WITHDRN", "F_ALLWITHDRN"}))
    BY <2>1, <2>2, StartPrefixesType
  <2> QED
    BY <1>0, <2>1, <2>3
<1>5. CASE startmpunreachnlri
  <2>1. open /\ OnePending(msg) /\ msg' = StartMpPrefixes(msg, WithdrawnKind) /\ UNCHANGED <<pkt, open>>
    BY <1>5 DEF startmpunreachnlri, Begins, Starts
  <2>2. Good(StartMpPrefixes(msg, WithdrawnKind))
    BY <2>1, StartMpPrefixesType
  <2> QED
    BY <1>0, <2>1, <2>2
<1>6. CASE nextwithdrawn
  <2>1. open /\ msg' = NextPrefix(msg, WithdrawnKind).msg /\ UNCHANGED <<pkt, open>>
    BY <1>6 DEF nextwithdrawn, Reads
  <2>2. Good(NextPrefix(msg, WithdrawnKind).msg)
    BY <2>1, NextPrefixType
  <2> QED
    BY <1>0, <2>1, <2>2
<1>7. CASE endwithdrawn
  <2>1. open /\ msg' = EndIteration(msg, "F_WITHDRN") /\ UNCHANGED <<pkt, open>>
    BY <1>7 DEF endwithdrawn, Starts
  <2> QED
    BY <1>0, <2>1, EndIterationType
<1>8. CASE startnlri
  <2>1. open /\ OnePending(msg) /\ msg' = StartPrefixes(msg, NlriKind, {"F_NLRI"}) /\ UNCHANGED <<pkt, open>>
    BY <1>8 DEF startnlri, Begins, Starts
  <2>2. {"F_NLRI"} \subseteq {NlriKind.flag, NlriKind.all}
    BY DEF NlriKind
  <2>3. Good(StartPrefixes(msg, NlriKind, {"F_NLRI"}))
    BY <2>1, <2>2, StartPrefixesType
  <2> QED
    BY <1>0, <2>1, <2>3
<1>9. CASE startallnlri
  <2>1. open /\ OnePending(msg) /\ msg' = StartPrefixes(msg, NlriKind, {"F_NLRI", "F_ALLNLRI"}) /\ UNCHANGED <<pkt, open>>
    BY <1>9 DEF startallnlri, Begins, Starts
  <2>2. {"F_NLRI", "F_ALLNLRI"} \subseteq {NlriKind.flag, NlriKind.all}
    BY DEF NlriKind
  <2>3. Good(StartPrefixes(msg, NlriKind, {"F_NLRI", "F_ALLNLRI"}))
    BY <2>1, <2>2, StartPrefixesType
  <2> QED
    BY <1>0, <2>1, <2>3
<1>10. CASE startmpreachnlri
  <2>1. open /\ OnePending(msg) /\ msg' = StartMpPrefixes(msg, NlriKind) /\ UNCHANGED <<pkt, open>>
    BY <1>10 DEF startmpreachnlri, Begins, Starts
  <2>2. Good(StartMpPrefixes(msg, NlriKind))
    BY <2>1, StartMpPrefixesType
  <2> QED
    BY <1>0, <2>1, <2>2
<1>11. CASE nextnlri
  <2>1. open /\ msg' = NextPrefix(msg, NlriKind).msg /\ UNCHANGED <<pkt, open>>
    BY <1>11 DEF nextnlri, Reads
  <2>2. Good(NextPrefix(msg, NlriKind).msg)
    BY <2>1, NextPrefixType
  <2> QED
    BY <1>0, <2>1, <2>2
<1>12. CASE endnlri
  <2>1. open /\ msg' = EndIteration(msg, "F_NLRI") /\ UNCHANGED <<pkt, open>>
    BY <1>12 DEF endnlri, Starts
  <2> QED
    BY <1>0, <2>1, EndIterationType
<1>13. CASE startbgpattribs
  <2>1. open /\ OnePending(msg) /\ msg' = StartAttribs(msg) /\ UNCHANGED <<pkt, open>>
    BY <1>13 DEF startbgpattribs, Begins, Starts
  <2>2. Good(StartAttribs(msg))
    BY <2>1, StartAttribsType
  <2> QED
    BY <1>0, <2>1, <2>2
<1>14. CASE nextbgpattrib
  <2>1. open /\ msg' = NextAttrib(msg).msg /\ UNCHANGED <<pkt, open>>
    BY <1>14 DEF nextbgpattrib, Reads
  <2>2. Good(NextAttrib(msg).msg)
    BY <1>14, <2>1, NextAttribType DEF nextbgpattrib, Owns
  <2> QED
    BY <1>0, <2>1, <2>2
<1>15. CASE endbgpattribs
  <2>1. open /\ msg' = EndIteration(msg, "F_PATTR") /\ UNCHANGED <<pkt, open>>
    BY <1>15 DEF endbgpattribs, Starts
  <2> QED
    BY <1>0, <2>1, EndIterationType
<1>16. CASE startaspath
  <2>1. open /\ OnePending(msg) /\ msg' = StartPath(msg, "AS_PATH", pkt.asn32) /\ UNCHANGED <<pkt, open>>
    BY <1>16 DEF startaspath, Begins, Starts
  <2>2. pkt.asn32 \in BOOLEAN /\ {"AS_PATH", "AS4_PATH"} \subseteq NotableCodes
    BY <2>1, PacketType DEF NotableCodes
  <2>3. Good(StartPath(msg, "AS_PATH", pkt.asn32))
    BY <2>1, <2>2, StartPathType
  <2> QED
    BY <1>0, <2>1, <2>3
<1>17. CASE startas4path
  <2>1. open /\ OnePending(msg) /\ msg' = StartPath(msg, "AS4_PATH", TRUE) /\ UNCHANGED <<pkt, open>>
    BY <1>17 DEF startas4path, Begins, Starts
  <2>2. pkt.asn32 \in BOOLEAN /\ {"AS_PATH", "AS4_PATH"} \subseteq NotableCodes
    BY <2>1, PacketType DEF NotableCodes
  <2>3. Good(StartPath(msg, "AS4_PATH", TRUE))
    BY <2>1, <2>2, StartPathType
  <2> QED
    BY <1>0, <2>1, <2>3
<1>18. CASE startrealaspath
  <2>1. open /\ OnePending(msg) /\ msg' = StartRealPath(msg) /\ UNCHANGED <<pkt, open>>
    BY <1>18 DEF startrealaspath, Begins, Starts
  <2>2. Good(StartRealPath(msg))
    BY <2>1, StartRealPathType
  <2> QED
    BY <1>0, <2>1, <2>2
<1>19. CASE nextaspath
  <2>1. open /\ msg' = NextPath(msg).msg /\ UNCHANGED <<pkt, open>>
    BY <1>19 DEF nextaspath, Reads
  <2>2. Good(NextPath(msg).msg)
    BY <2>1, NextPathType
  <2> QED
    BY <1>0, <2>1, <2>2
<1>20. CASE endaspath
  <2>1. open /\ msg' = EndIteration(msg, "F_ASPATH") /\ UNCHANGED <<pkt, open>>
    BY <1>20 DEF endaspath, Starts
  <2> QED
    BY <1>0, <2>1, EndIterationType
<1>21. CASE startnhop
  <2>1. open /\ OnePending(msg) /\ msg' = StartNextHops(msg) /\ UNCHANGED <<pkt, open>>
    BY <1>21 DEF startnhop, Begins, Starts
  <2>2. Good(StartNextHops(msg))
    BY <2>1, StartNextHopsType
  <2> QED
    BY <1>0, <2>1, <2>2
<1>22. CASE nextnhop
  <2>1. open /\ msg' = NextHop(msg).msg /\ UNCHANGED <<pkt, open>>
    BY <1>22 DEF nextnhop, Reads
  <2>2. Good(NextHop(msg).msg)
    BY <2>1, NextHopType
  <2> QED
    BY <1>0, <2>1, <2>2
<1>23. CASE endnhop
  <2>1. open /\ msg' = EndIteration(msg, "F_NHOP") /\ UNCHANGED <<pkt, open>>
    BY <1>23 DEF endnhop, Starts
  <2> QED
    BY <1>0, <2>1, EndIterationType
<1>24. ASSUME NEW c \in CommunityCodes \cup {"none"}, startcommunities(c) PROVE IInv'
  <2>1. open /\ OnePending(msg) /\ msg' = StartCommunities(msg, c) /\ UNCHANGED <<pkt, open>>
    BY <1>24 DEF startcommunities, Begins, Starts
  <2>2. Good(StartCommunities(msg, c))
    BY <2>1, StartCommunitiesType
  <2> QED
    BY <1>0, <2>1, <2>2
<1>25. CASE nextcommunity
  <2>1. open /\ msg' = NextCommunity(msg).msg /\ UNCHANGED <<pkt, open>>
    BY <1>25 DEF nextcommunity, Reads
  <2>2. Good(NextCommunity(msg).msg)
    BY <2>1, NextCommunityType
  <2> QED
    BY <1>0, <2>1, <2>2
<1>26. CASE endcommunities
  <2>1. open /\ msg' = EndIteration(msg, "F_COMMUNITY") /\ UNCHANGED <<pkt, open>>
    BY <1>26 DEF endcommunities, Starts
  <2> QED
    BY <1>0, <2>1, EndIterationType
<1>27. ASSUME NEW l \in Lookups, getbgpattr(l) PROVE IInv'
  <2>1. open /\ msg' = Lookup(msg, Sought(l)).msg /\ UNCHANGED <<pkt, open>>
    BY <1>27 DEF getbgpattr, Looks
  <2>2. Good(Lookup(msg, Sought(l)).msg)
    BY <1>27, <2>1, SoughtIsNotable, LookupType, LookedIsGood DEF Good
  <2> QED
    BY <1>0, <2>1, <2>2
<1>28. CASE getrealbgpaggregator
  <2>1. open /\ msg' = RealAggregator(msg).msg /\ UNCHANGED <<pkt, open>>
    BY <1>28 DEF getrealbgpaggregator, Looks
  <2>2. Good(RealAggregator(msg).msg)
    BY <1>28, <2>1, RealAggregatorType
  <2> QED
    BY <1>0, <2>1, <2>2
<1>29. CASE getrawfield
  <2>1. open /\ msg' \in {msg, Refuse(msg)} /\ UNCHANGED <<pkt, open>>
    BY <1>29 DEF getrawfield, Starts
  <2>2. Good(msg) /\ Good(Refuse(msg))
    BY <2>1, FailedIsGood DEF Good
  <2> QED
    BY <1>0, <2>1, <2>2
<1>30. CASE UNCHANGED vars
  BY <1>30 DEF vars, IInv, TypeOK, UnionIsCurrent, SeekCoherent, Coherent
<1> QED
  BY <1>1, <1>2, <1>3, <1>4, <1>5, <1>6, <1>7, <1>8, <1>9, <1>10, <1>11, <1>12, <1>13, <1>14, <1>15, <1>16, <1>17, <1>18, <1>19, <1>20, <1>21, <1>22, <1>23, <1>24, <1>25, <1>26, <1>27, <1>28, <1>29, <1>30 DEF Next

\* Every reachable message is well formed, for every set of packets.
THEOREM TypeCorrect == Spec => []TypeOK
<1>1. IInv => TypeOK
  BY DEF IInv
<1> QED
  BY <1>1, InitIsGood, NextKeepsIInv, PTL DEF Spec

\* On every message without error the flag of the path, next hop or community
\* iteration names the member of the union that is in use, with iterations
\* inside iterations too.
THEOREM UnionCorrect == Spec => []UnionIsCurrent
<1>1. IInv => UnionIsCurrent
  BY DEF IInv
<1> QED
  BY <1>1, InitIsGood, NextKeepsIInv, PTL DEF Spec

\* The offset table of an open message never misleads a lookup, whatever
\* lookups and iterations filled it, also for packets that repeat attributes.
THEOREM SeekCorrect == Spec => []SeekCoherent
<1>1. IInv => SeekCoherent
  BY DEF IInv
<1> QED
  BY <1>1, InitIsGood, NextKeepsIInv, PTL DEF Spec

-----------------------------------------------------------------------------
\* On a message with an error every call is refused.
LEMMA CallsAreRefused ==
    ASSUME open, open', msg.err # "ENOERR", Next
    PROVE  msg' = Refuse(msg)
<1>1. \A need : ~Allowed(msg, need)
  BY DEF Allowed
<1>2. CASE \/ startwithdrawn \/ startallwithdrawn \/ startmpunreachnlri
           \/ startnlri \/ startallnlri \/ startmpreachnlri
  BY <1>1, <1>2
     DEF startwithdrawn, startallwithdrawn, startmpunreachnlri, startnlri, startallnlri,
         startmpreachnlri, Begins, Starts, StartPrefixes, StartMpPrefixes
<1>3. CASE \/ nextwithdrawn \/ nextnlri \/ nextbgpattrib \/ nextaspath
           \/ nextnhop \/ nextcommunity
  BY <1>1, <1>3
     DEF nextwithdrawn, nextnlri, nextbgpattrib, nextaspath, nextnhop, nextcommunity,
         Reads, NextPrefix, NextAttrib, NextPath, NextHop, NextCommunity
<1>4. CASE \/ endwithdrawn \/ endnlri \/ endbgpattribs \/ endaspath \/ endnhop
           \/ endcommunities \/ getrawfield
  BY <1>1, <1>4
     DEF endwithdrawn, endnlri, endbgpattribs, endaspath, endnhop, endcommunities,
         getrawfield, Starts, EndIteration
<1>5. CASE startbgpattribs \/ startaspath \/ startas4path
  BY <1>1, <1>5
     DEF startbgpattribs, startaspath, startas4path, Begins, Starts, StartAttribs, StartPath
<1>6. CASE startrealaspath \/ startnhop
  BY <1>1, <1>6 DEF startrealaspath, startnhop, Begins, Starts, StartRealPath, StartNextHops
<1>7. ASSUME NEW c \in CommunityCodes \cup {"none"}, startcommunities(c)
      PROVE  msg' = Refuse(msg)
  BY <1>1, <1>7 DEF startcommunities, Begins, Starts, StartCommunities
<1>8. ASSUME NEW l \in Lookups, getbgpattr(l) PROVE msg' = Refuse(msg)
  <2>1. Lookup(msg, Sought(l)) = [msg |-> Refuse(msg), at |-> 0]
    BY <1>1 DEF Lookup
  <2> QED
    BY <1>8, <2>1 DEF getbgpattr, Looks
<1>9. CASE getrealbgpaggregator
  <2>1. RealAggregator(msg) = [msg |-> Refuse(msg), at |-> 0]
    BY <1>1, ZenonT(60) DEF RealAggregator
  <2> QED
    BY <1>9, <2>1 DEF getrealbgpaggregator, Looks
<1>10. \A p \in Packets : ~setbgpread(p)
  BY DEF setbgpread
<1>11. ~bgpclose
  BY DEF bgpclose
<1> QED
  BY <1>2, <1>3, <1>4, <1>5, <1>6, <1>7, <1>8, <1>9, <1>10, <1>11 DEF Next

\* The first error of a message stays until the message is closed.
THEOREM FirstErrorStays == Spec => FirstErrorWins
<1>1. TypeOK /\ [Next]_vars =>
        [open /\ open' /\ msg.err # "ENOERR" => msg'.err = msg.err]_vars
  <2> SUFFICES ASSUME TypeOK, [Next]_vars, open, open', msg.err # "ENOERR"
               PROVE  msg'.err = msg.err
    OBVIOUS
  <2>1. CASE Next
    <3>1. msg' = Refuse(msg)
      BY <2>1, CallsAreRefused
    <3> QED
      BY <3>1 DEF Refuse, TypeOK, Messages
  <2>2. CASE UNCHANGED vars
    BY <2>2 DEF vars
  <2> QED
    BY <2>1, <2>2
<1> QED
  BY <1>1, TypeCorrect, PTL DEF Spec, FirstErrorWins

-----------------------------------------------------------------------------
\* No packet holds two attributes of one notable code, as RFC 4271 demands of
\* who sends it.
NothingRepeats ==
    \A p \in Packets : \A i, j \in DOMAIN p.attrs :
        p.attrs[i].code = p.attrs[j].code /\ p.attrs[i].code \in NotableCodes => i = j

\* seekbgpattr returns NULL without an error only when no attribute has the code.
LEMMA LookupFinds ==
    ASSUME pkt \in Packets, NEW m \in Messages, Coherent(m.offtab),
           NEW c \in NotableCodes,
           Lookup(m, c).msg.err = "ENOERR", Lookup(m, c).at = 0
    PROVE  Hits(c) = {}
<1> DEFINE l == Lookup(m, c)
<1>1. DOMAIN pkt.attrs = 1..Len(pkt.attrs) /\ Len(pkt.attrs) \in Nat
  BY PacketType
<1>2. CASE ~pkt.update \/ ~Allowed(m, {"F_RD"})
  <2>1. l = [msg |-> Refuse(m), at |-> 0]
    BY <1>2 DEF Lookup
  <2>2. l.msg = Refuse(m)
    BY <2>1
  <2> QED
    BY <2>2, RefuseType
<1> DEFINE Searched == /\ ~(~pkt.update \/ ~Allowed(m, {"F_RD"}))
                       /\ m.offtab[c] = Unknown
<1>3. CASE ~(~pkt.update \/ ~Allowed(m, {"F_RD"})) /\ m.offtab[c] # Unknown
  <2>1. l.at = IF m.offtab[c] = NotFound THEN 0 ELSE m.offtab[c]
    BY <1>3 DEF Lookup
  <2>2. m.offtab[c] = NotFound
    BY <1>3, <2>1 DEF Unknown
  <2> QED
    BY <2>2 DEF Coherent, Hits
<1>4. CASE Searched /\ Hits(c) # {}
  <2>1. l.at = ScanEnd(c)
    BY <1>4 DEF Lookup
  <2>2. Hits(c) \in SUBSET Nat /\ 0 \notin Hits(c)
    BY <1>1 DEF Hits
  <2>3. ScanEnd(c) \in Hits(c)
    BY <1>4, <2>2, MinIsLeast DEF ScanEnd
  <2> QED
    BY <2>1, <2>2, <2>3
<1>5. CASE Searched /\ Hits(c) = {}
  BY <1>5
<1> QED
  BY <1>2, <1>3, <1>4, <1>5

\* An attribute is the first of its code where codes do not repeat.
LEMMA OnlyOneIsFirst ==
    ASSUME pkt \in Packets, NothingRepeats, NEW c \in NotableCodes,
           NEW at, IsAttr(at, c), at = 0 => Hits(c) = {}
    PROVE  at = FirstOf(pkt, c)
<1>1. FirstOf(pkt, c) = IF Hits(c) = {} THEN 0 ELSE Min(Hits(c))
  BY DEF FirstOf, Hits
<1>2. CASE Hits(c) = {}
  <2>1. at = 0
    BY <1>2 DEF IsAttr, Hits
  <2> QED
    BY <1>1, <1>2, <2>1
<1>3. CASE Hits(c) # {}
  <2>1. Hits(c) \in SUBSET Nat
    BY PacketType DEF Hits
  <2>2. Min(Hits(c)) \in Hits(c)
    BY <1>3, <2>1, MinIsLeast
  <2>3. at \in Hits(c)
    BY <1>3 DEF IsAttr, Hits
  <2>4. \A i, j \in Hits(c) : i = j
    BY DEF NothingRepeats, Hits
  <2> QED
    BY <1>1, <1>3, <2>2, <2>3, <2>4
<1> QED
  BY <1>2, <1>3

\* What a lookup without an error returns is the first attribute of the code.
LEMMA LookupIsFirst ==
    ASSUME pkt \in Packets, NothingRepeats, NEW m \in Messages, Coherent(m.offtab),
           NEW c \in NotableCodes, Lookup(m, c).msg.err = "ENOERR"
    PROVE  Lookup(m, c).at = FirstOf(pkt, c)
<1>1. IsAttr(Lookup(m, c).at, c)
  BY LookupType
<1>2. Lookup(m, c).at = 0 => Hits(c) = {}
  BY LookupFinds
<1> QED
  BY <1>1, <1>2, OnlyOneIsFirst

\* getrealbgpaggregator_r returns AS4_AGGREGATOR where it counts, and otherwise
\* AGGREGATOR.
LEMMA RealAggregatorIsExpected ==
    ASSUME pkt \in Packets, NothingRepeats, NEW m, Good(m),
           RealAggregator(m).msg.err = "ENOERR"
    PROVE  RealAggregator(m).at = Expected(pkt, "REAL_AGGREGATOR")
<1> DEFINE aggr  == Lookup(m, "AGGREGATOR")
           aggr4 == Lookup(aggr.msg, "AS4_AGGREGATOR")
           r     == RealAggregator(m)
<1>1. {"AGGREGATOR", "AS4_AGGREGATOR"} \subseteq NotableCodes
  BY DEF NotableCodes
<1>2. m \in Messages /\ Coherent(m.offtab)
  BY DEF Good
<1>3. aggr.msg.err = "ENOERR" => aggr.at = FirstOf(pkt, "AGGREGATOR")
  BY <1>1, <1>2, LookupIsFirst
<1>4. OnlyLooked(aggr.msg, m)
  BY <1>1, <1>2, LookupType
<1> HIDE DEF aggr
<1>5. aggr.msg \in Messages /\ Coherent(aggr.msg.offtab)
  BY <1>4 DEF OnlyLooked
<1>6. aggr4.msg.err = "ENOERR" => aggr4.at = FirstOf(pkt, "AS4_AGGREGATOR")
  BY <1>1, <1>5, LookupIsFirst
<1>7. aggr4.msg.err = "ENOERR" => aggr.msg.err = "ENOERR"
  BY <1>1, <1>5, LookupType DEF OnlyLooked
<1>8. /\ \A at : [aggr4 EXCEPT !.at = at].msg = aggr4.msg
      /\ \A at : [aggr4 EXCEPT !.at = at].at = at
  BY <1>5 DEF Lookup
<1> HIDE DEF aggr4
<1>9. r = IF ~pkt.update \/ ~Allowed(m, {"F_RD"}) THEN [msg |-> Refuse(m), at |-> 0]
          ELSE IF aggr.at = 0 \/ AttrAt(aggr).as # AS_TRANS THEN aggr
          ELSE IF aggr4.at = 0 THEN [aggr4 EXCEPT !.at = aggr.at] ELSE aggr4
  BY ZenonT(60) DEF RealAggregator, aggr, aggr4
<1>10. r.msg.err = "ENOERR"
  OBVIOUS
<1>11. Refuse(m).err # "ENOERR"
  BY <1>2, RefuseType
<1> DEFINE n  == FirstOf(pkt, "AGGREGATOR")
           n4 == FirstOf(pkt, "AS4_AGGREGATOR")
<1>12. Expected(pkt, "REAL_AGGREGATOR")
          = IF n # 0 /\ n4 # 0 /\ pkt.attrs[n].as = AS_TRANS THEN n4 ELSE n
  BY DEF Expected
<1>13. AttrAt(aggr).as = pkt.attrs[aggr.at].as
  BY DEF AttrAt
<1> HIDE DEF r, n, n4
<1>14. ~(~pkt.update \/ ~Allowed(m, {"F_RD"}))
  <2>1. [msg |-> Refuse(m), at |-> 0].msg = Refuse(m)
    OBVIOUS
  <2> QED
    BY <1>9, <1>10, <1>11, <2>1
<1>15. CASE aggr.at = 0 \/ AttrAt(aggr).as # AS_TRANS
  <2>1. r = aggr
    BY <1>9, <1>14, <1>15
  <2>2. aggr.at = n
    BY <1>3, <1>10, <2>1 DEF n
  <2> QED
    BY <1>12, <1>13, <1>15, <2>1, <2>2 DEF r
<1>16. CASE ~(aggr.at = 0 \/ AttrAt(aggr).as # AS_TRANS) /\ aggr4.at = 0
  <2>1. r = [aggr4 EXCEPT !.at = aggr.at]
    BY <1>9, <1>14, <1>16
  <2>2. r.msg = aggr4.msg /\ r.at = aggr.at
    BY <1>8, <2>1
  <2>3. aggr.at = n /\ aggr4.at = n4
    BY <1>3, <1>6, <1>7, <1>10, <2>2 DEF n, n4
  <2> QED
    BY <1>12, <1>16, <2>2, <2>3 DEF r
<1>17. CASE ~(aggr.at = 0 \/ AttrAt(aggr).as # AS_TRANS) /\ aggr4.at # 0
  <2>1. r = aggr4
    BY <1>9, <1>14, <1>17
  <2>2. aggr.at = n /\ aggr4.at = n4
    BY <1>3, <1>6, <1>7, <1>10, <2>1 DEF n, n4
  <2> QED
    BY <1>12, <1>13, <1>17, <2>1, <2>2 DEF r
<1> QED
  BY <1>15, <1>16, <1>17

\* Whatever lookups and iterations filled the offset table before, a lookup
\* without an error returns the attribute the packet holds, and NULL only when
\* it holds none, also after AGGREGATOR has been weighed against AS4_AGGREGATOR.
\* So it is for every lookup but getbgpas4aggregator(), which LookupsAreRight
\* leaves out.
THEOREM LookupsAlwaysRight == NothingRepeats => (Spec => []LookupsAreRight)
<1>1. NothingRepeats /\ IInv => LookupsAreRight
  <2> SUFFICES ASSUME NothingRepeats, IInv, Usable PROVE LookupsAreRight
    BY DEF LookupsAreRight
  <2>1. Good(msg) /\ pkt \in Packets
    BY OpenIsGood DEF Usable
  <2>2. ASSUME NEW c \in NotableCodes, Lookup(msg, c).msg.err = "ENOERR"
        PROVE  Lookup(msg, c).at = Expected(pkt, c)
    <3>1. Lookup(msg, c).at = FirstOf(pkt, c)
      BY <2>1, <2>2, LookupIsFirst DEF Good
    <3>2. c # "REAL_AGGREGATOR"
      BY DEF NotableCodes
    <3> QED
      BY <3>1, <3>2 DEF Expected
  <2>3. RealAggregator(msg).msg.err = "ENOERR"
           => RealAggregator(msg).at = Expected(pkt, "REAL_AGGREGATOR")
    BY <2>1, RealAggregatorIsExpected
  <2> QED
    <3>1. \A l \in Lookups \ {As4AggregatorOfThread} :
             l \in NotableCodes /\ Sought(l) = l /\ NamedFor(l) = l
      BY DEF Lookups, Sought, NamedFor
    <3>2. \A l \in Lookups \ {As4AggregatorOfThread} : Finds(l)
      BY <2>2, <3>1 DEF Finds
    <3> QED
      BY <2>3, <3>2 DEF LookupsAreRight
<1>2. SUFFICES ASSUME NothingRepeats PROVE Spec => []LookupsAreRight
  OBVIOUS
<1>3. IInv => LookupsAreRight
  BY <1>1, <1>2
<1> QED
  BY <1>3, InitIsGood, NextKeepsIInv, PTL DEF Spec

-----------------------------------------------------------------------------
\* No iteration is pending on n that was not on m.
NoneBegun(n, m) ==
    n.err = "ENOERR" => m.err = "ENOERR" /\ Pending(n) \subseteq Pending(m)

\* At most one iteration is pending on a message without error.
Single(m) == m.err = "ENOERR" => OnePending(m)

\* Where one iteration is pending at most, none was begun, or f was begun
\* after endpending, it stays so.
LEMMA StaysSingle ==
    ASSUME NEW n, NEW m
    PROVE  /\ Single(m) /\ NoneBegun(n, m) => Single(n)
           /\ \A f : (n.err = "ENOERR" => Pending(n) \subseteq {f}) => Single(n)
BY DEF Single, NoneBegun, OnePending

\* Failing, looking, moving the cursor and ending begin no iteration.
LEMMA FailedBegins ==
    ASSUME NEW m \in Messages
    PROVE  /\ NoneBegun(Refuse(m), m)
           /\ \A e \in Errors \ {"ENOERR"} : NoneBegun(Raise(m, e), m)
           /\ NoneBegun([m EXCEPT !.uit.pos = @ + 1], m)
           /\ \A cleared : NoneBegun([m EXCEPT !.flags = @ \ cleared], m)
<1>1. NoneBegun(Refuse(m), m)
  BY RefuseType DEF NoneBegun
<1>2. \A e \in Errors \ {"ENOERR"} : NoneBegun(Raise(m, e), m)
  BY RaiseType DEF NoneBegun
<1>3. NoneBegun([m EXCEPT !.uit.pos = @ + 1], m)
  BY DEF NoneBegun, Pending, Messages
<1>4. ASSUME NEW cleared PROVE NoneBegun([m EXCEPT !.flags = @ \ cleared], m)
  BY DEF NoneBegun, Pending, Messages
<1> QED
  BY <1>1, <1>2, <1>3, <1>4

\* A lookup begins none.
LEMMA LookBegins ==
    ASSUME NEW n, NEW m, OnlyLooked(n, m)
    PROVE  NoneBegun(n, m)
BY DEF OnlyLooked, NoneBegun, Pending

\* nextwithdrawn_r and nextnlri_r begin no iteration.
LEMMA NextPrefixBegins ==
    ASSUME pkt \in Packets, NEW m, Good(m), NEW k \in {WithdrawnKind, NlriKind}
    PROVE  NoneBegun(NextPrefix(m, k).msg, m)
<1> DEFINE o     == [m EXCEPT !.flags = @ \ {k.all}]
           l     == Lookup(o, k.code)
           there == [l.msg EXCEPT !.uit = Cursor(k.mp, l.at), !.family = AttrAt(l).afi]
<1>1. m \in Messages /\ Good(o)
  BY DEF Good, Messages, IterMatches
<1>2. k.code \in NotableCodes /\ k.bad \in Errors \ {"ENOERR"}
  BY KindType
<1>3. NoneBegun(o, m)
  BY <1>1, FailedBegins
<1>4. /\ NoneBegun(Refuse(m), m) /\ NoneBegun(m, m) /\ NoneBegun(ReadPrefix(m, k).msg, m)
  BY <1>1, <1>2, FailedBegins DEF ReadPrefix, NoneBegun
<1> HIDE DEF o
<1>5. OnlyLooked(l.msg, o)
  BY <1>1, <1>2, LookupType DEF Good
<1> HIDE DEF l
<1>6. l.msg \in Messages /\ NoneBegun(l.msg, m)
  BY <1>3, <1>5, LookBegins DEF NoneBegun, OnlyLooked
<1>7. NoneBegun(Raise(l.msg, k.bad), m)
  BY <1>2, <1>6, FailedBegins DEF NoneBegun
<1>8. there.err = l.msg.err /\ there.flags = l.msg.flags
  BY <1>6 DEF Messages
<1>9. NoneBegun(there, m)
  BY <1>6, <1>8 DEF NoneBegun, Pending
<1>10. NoneBegun(ReadPrefix(there, k).msg, m)
  <2> HIDE DEF there
  <2>1. CASE AllRead(there.uit)
    <3>1. ReadPrefix(there, k).msg = Raise(there, k.bad)
      BY <2>1 DEF ReadPrefix
    <3>2. Raise(there, k.bad).err = k.bad
      BY <1>6 DEF Raise, there, Messages
    <3> QED
      BY <1>2, <3>1, <3>2 DEF NoneBegun
  <2>2. CASE ~AllRead(there.uit)
    <3>1. ReadPrefix(there, k).msg = [there EXCEPT !.uit.pos = @ + 1]
      BY <2>2 DEF ReadPrefix
    <3>2. /\ [there EXCEPT !.uit.pos = @ + 1].err = there.err
          /\ [there EXCEPT !.uit.pos = @ + 1].flags = there.flags
      BY <1>6 DEF there, Messages
    <3> QED
      BY <1>9, <3>1, <3>2 DEF NoneBegun, Pending
  <2> QED
    BY <2>1, <2>2
<1> HIDE DEF there
<1>11. NoneBegun(SwitchToMp(m, k).msg, m)
  <2>1. SwitchToMp(m, k).msg \in {l.msg, Raise(l.msg, k.bad), there, ReadPrefix(there, k).msg}
    BY DEF SwitchToMp, o, l, there
  <2> QED
    BY <1>6, <1>7, <1>9, <1>10, <2>1
<1>12. NextPrefix(m, k).msg \in {Refuse(m), m, ReadPrefix(m, k).msg, SwitchToMp(m, k).msg}
  BY DEF NextPrefix
<1> QED
  BY <1>4, <1>11, <1>12

\* nextbgpattrib_r, nextaspath_r, nextnhop_r and nextcommunity_r begin none.
LEMMA NextBegins ==
    ASSUME pkt \in Packets, NEW m, Good(m)
    PROVE  /\ NoneBegun(NextAttrib(m).msg, m) /\ NoneBegun(NextPath(m).msg, m)
           /\ NoneBegun(NextHop(m).msg, m) /\ NoneBegun(NextCommunity(m).msg, m)
<1>1. m \in Messages /\ "EBADATTR" \in Errors \ {"ENOERR"}
  BY DEF Good, Errors
<1>2. NoneBegun(m, m) /\ NoneBegun(Refuse(m), m) /\ NoneBegun(Raise(m, "EBADATTR"), m)
      /\ NoneBegun([m EXCEPT !.uit.pos = @ + 1], m)
  BY <1>1, FailedBegins DEF NoneBegun
<1>3. NoneBegun(NextCommunity(m).msg, m)
  BY <1>2 DEF NextCommunity
<1>4. NoneBegun(NextAttrib(m).msg, m)
  <2>1. ASSUME NEW n, NEW o PROVE NoneBegun([m EXCEPT !.uit.pos = n, !.offtab = o], m)
    BY <1>1 DEF NoneBegun, Pending, Messages
  <2> QED
    BY <1>2, <2>1 DEF NextAttrib
<1>5. NoneBegun(NextPath(m).msg, m)
  <2> DEFINE r == NextAsPath(m.iter)
             n == [m EXCEPT !.iter   = r.iter,
                            !.flags = IF r.iter.ascount = Unchecked
                                        THEN @ \ {"F_REALASPATH"} ELSE @]
  <2> HIDE DEF r
  <2>1. n.err = m.err /\ n.flags \subseteq m.flags /\ Raise(n, "EBADATTR").err = "EBADATTR"
    BY <1>1 DEF Messages, Raise
  <2>2. NoneBegun(n, m) /\ NoneBegun(Raise(n, "EBADATTR"), m)
    BY <1>1, <2>1 DEF NoneBegun, Pending
  <2> HIDE DEF n
  <2>3. NextPath(m).msg \in {Refuse(m), n, Raise(n, "EBADATTR")}
    BY DEF NextPath, n, r
  <2> QED
    BY <1>2, <2>2, <2>3
<1>6. NoneBegun(NextHop(m).msg, m)
  <2> DEFINE done  == m.iter.rest = <<>> /\ ~m.iter.cut
             n0    == IF done
                        THEN [m EXCEPT !.family = m.iter.mpfamily,
                                       !.iter   = [m.iter EXCEPT !.rest = m.iter.mprest,
                                                                 !.cut  = m.iter.mpcut,
                                                                 !.mp   = FALSE]]
                        ELSE m
             read  == [n0 EXCEPT !.iter.rest = Tail(@)]
  <2>1. n0.err = m.err /\ n0.flags = m.flags /\ DOMAIN n0 = DOMAIN m
    BY <1>1 DEF Messages
  <2>2. {"err", "flags", "iter"} \subseteq DOMAIN m
    BY <1>1 DEF Messages
  <2>3. NextHop(m).msg \in {Refuse(m), m, Raise(n0, "EBADATTR"), read}
    BY DEF NextHop
  <2> HIDE DEF n0
  <2>4. Raise(n0, "EBADATTR").err = "EBADATTR"
    BY <2>1, <2>2 DEF Raise
  <2>5. read.err = m.err /\ read.flags = m.flags
    BY <2>1, <2>2
  <2> HIDE DEF read
  <2> QED
    BY <1>2, <2>3, <2>4, <2>5 DEF NoneBegun, Pending
<1> QED
  BY <1>3, <1>4, <1>5, <1>6

-----------------------------------------------------------------------------
\* The calls that end what is pending begin one iteration.
LEMMA StartsAreSingle ==
    ASSUME NEW m, Good(m), OnePending(m)
    PROVE  /\ \A k \in {WithdrawnKind, NlriKind} : \A flags \in SUBSET {k.flag, k.all} :
                 Single(StartPrefixes(m, k, flags))
           /\ Single(StartAttribs(m))
<1> DEFINE n == EndPending(m)
<1>1. m \in Messages /\ Single(Refuse(m))
  BY RefuseType DEF Good, Single
<1>2. n \in Messages /\ (n.err = "ENOERR" => Pending(n) = {})
  BY EndedType
<1> HIDE DEF n
<1>3. ASSUME NEW k \in {WithdrawnKind, NlriKind}, NEW flags \in SUBSET {k.flag, k.all}
      PROVE  Single(StartPrefixes(m, k, flags))
  <2> DEFINE begun == [n EXCEPT !.flags  = @ \cup flags,
                                !.uit    = Cursor(k.own, 0),
                                !.family = "v4"]
  <2>1. begun.err = n.err /\ begun.flags = n.flags \cup flags
    BY <1>2 DEF Messages
  <2>2. flags \cap PendingFlags \subseteq {k.flag}
    BY KindType, FlagsListed
  <2>3. begun.err = "ENOERR" => Pending(begun) \subseteq {k.flag}
    BY <1>2, <2>1, <2>2 DEF Pending
  <2>4. Single(begun)
    BY <2>3, StaysSingle
  <2> QED
    BY <1>1, <2>4 DEF StartPrefixes, n
<1>4. Single(StartAttribs(m))
  <2> DEFINE begun == [n EXCEPT !.flags = @ \cup {"F_PATTR"}, !.uit = Cursor("attrs", 0)]
  <2>1. begun.err = n.err /\ begun.flags = n.flags \cup {"F_PATTR"}
    BY <1>2 DEF Messages
  <2>2. begun.err = "ENOERR" => Pending(begun) \subseteq {"F_PATTR"}
    BY <1>2, <2>1 DEF Pending
  <2>3. Single(begun)
    BY <2>2, StaysSingle
  <2> QED
    BY <1>1, <2>3 DEF StartAttribs, n
<1> QED
  BY <1>3, <1>4

\* Where nothing is pending, starting a multiprotocol iteration begins one.
LEMMA StartMpIsSingle ==
    ASSUME NEW m, Good(m), Pending(m) = {}, NEW k \in {WithdrawnKind, NlriKind}
    PROVE  Single(StartMpPrefixes(m, k))
<1> DEFINE begun == [m EXCEPT !.flags = @ \cup {k.flag, k.all}, !.uit = Cursor(k.mp, 0)]
<1>1. m \in Messages /\ Single(Refuse(m))
  BY RefuseType DEF Good, Single
<1>2. begun.flags = m.flags \cup {k.flag, k.all}
  BY <1>1 DEF Messages
<1>3. Pending(begun) \subseteq {k.flag}
  BY <1>2, KindType, FlagsListed DEF Pending
<1>4. Single(begun)
  BY <1>3, StaysSingle
<1> QED
  BY <1>1, <1>4 DEF StartMpPrefixes

\* startaspath_r and startas4path_r begin one: what is pending is ended after
\* the lookup.
LEMMA StartPathIsSingle ==
    ASSUME pkt \in Packets, NEW m, Good(m), OnePending(m),
           NEW code \in NotableCodes, NEW wide
    PROVE  Single(StartPath(m, code, wide))
<1> DEFINE l == Lookup(m, code)
           n == EndPending(l.msg)
           begun == [n EXCEPT !.flags = @ \cup {"F_ASPATH"},
                              !.iter   = PathIter(PathAt(l), wide)]
<1>1. m \in Messages /\ Single(Refuse(m))
  BY RefuseType DEF Good, Single
<1>2. OnlyLooked(l.msg, m)
  BY LookupType DEF Good
<1> HIDE DEF l
<1>3. l.msg \in Messages /\ (l.msg.err = "ENOERR" => OnePending(l.msg))
  BY <1>2 DEF OnlyLooked, OnePending, Pending
<1>4. n \in Messages /\ (n.err = "ENOERR" => Pending(n) = {})
  BY <1>3, EndPendingType
<1> HIDE DEF n
<1>5. begun.err = n.err /\ begun.flags = n.flags \cup {"F_ASPATH"}
  BY <1>4 DEF Messages
<1>6. begun.err = "ENOERR" => Pending(begun) \subseteq {"F_ASPATH"}
  BY <1>4, <1>5 DEF Pending
<1>7. Single(begun)
  BY <1>6, StaysSingle
<1> HIDE DEF begun
<1>8. StartPath(m, code, wide) \in {Refuse(m), begun}
  BY DEF StartPath, begun, n, l
<1> QED
  BY <1>1, <1>7, <1>8

\* An AS path is being read and nothing else.
JustPath(m) == m \in Messages /\ Coherent(m.offtab)
               /\ (m.err = "ENOERR" => Pending(m) \subseteq {"F_ASPATH"})

\* Lookups leave it so.
LEMMA JustPathLooks ==
    ASSUME pkt \in Packets, NEW m, JustPath(m), NEW c \in NotableCodes
    PROVE  JustPath(Lookup(m, c).msg)
<1>1. OnlyLooked(Lookup(m, c).msg, m)
  BY LookupType DEF JustPath
<1> QED
  BY <1>1 DEF JustPath, OnlyLooked, Pending

\* The merge of AS_PATH and AS4_PATH begins no other, however many lookups it makes.
LEMMA MergeIsSingle ==
    ASSUME pkt \in Packets, NEW asp, JustPath(asp.msg), IsAttr(asp.at, "AS_PATH"),
           asp.at # 0
    PROVE  Single(MergeAs4Path(asp))
<1> DEFINE path  == AttrAt(asp).path
           m     == [asp.msg EXCEPT !.iter = PathIter(path, FALSE)]
           aggr  == Lookup(m, "AGGREGATOR")
           aggr4 == Lookup(aggr.msg, "AS4_AGGREGATOR")
           as4p  == Lookup(aggr4.msg, "AS4_PATH")
           iter  == Reconstruct(m.iter, path, AttrAt(as4p).path)
           merged == [as4p.msg EXCEPT !.iter   = iter,
                                      !.flags = IF iter.ascount = Unchecked THEN @
                                                ELSE @ \cup {"F_REALASPATH"}]
<1>1. JustPath(m)
  <2>1. path \in Paths
    BY PathAtType
  <2>2. PathIter(path, FALSE) \in PathIters
    BY <2>1, PathIterType
  <2> QED
    BY <2>2 DEF JustPath, Messages, Pending
<1> HIDE DEF m
<1>2. JustPath(aggr.msg)
  BY <1>1, JustPathLooks DEF NotableCodes
<1> HIDE DEF aggr
<1>3. JustPath(aggr4.msg)
  BY <1>2, JustPathLooks DEF NotableCodes
<1> HIDE DEF aggr4
<1>4. JustPath(as4p.msg)
  BY <1>3, JustPathLooks DEF NotableCodes
<1> HIDE DEF as4p, iter
<1>5. {"err", "flags", "iter"} \subseteq DOMAIN as4p.msg
  BY <1>4 DEF JustPath, Messages
<1>6. merged.err = "ENOERR" => Pending(merged) \subseteq {"F_ASPATH"}
  <2>1. merged.err = as4p.msg.err
    BY <1>5
  <2>2. merged.flags \subseteq as4p.msg.flags \cup {"F_REALASPATH"}
    BY <1>5
  <2> HIDE DEF merged
  <2> QED
    BY <1>4, <2>1, <2>2, FlagsListed DEF JustPath, Pending
<1> HIDE DEF merged
<1>7. /\ aggr4.msg.err = "ENOERR" => Pending(aggr4.msg) \subseteq {"F_ASPATH"}
      /\ as4p.msg.err = "ENOERR" => Pending(as4p.msg) \subseteq {"F_ASPATH"}
      /\ Raise(as4p.msg, "EBADATTR").err # "ENOERR"
  BY <1>3, <1>4, RaiseType DEF JustPath, Errors
<1>8. Single(aggr4.msg) /\ Single(as4p.msg) /\ Single(merged)
  BY <1>6, <1>7, StaysSingle
<1>9. Single(Raise(as4p.msg, "EBADATTR"))
  BY <1>7 DEF Single
<1> DEFINE Ignored == aggr.at # 0 /\ aggr4.at # 0 /\ AttrAt(aggr).as # AS_TRANS
           IsCut   == AttrAt(asp).path.cut \/ AttrAt(as4p).path.cut
<1>10. MergeAs4Path(asp) =
        IF Ignored THEN aggr4.msg
        ELSE IF as4p.at = 0 THEN as4p.msg
        ELSE IF IsCut THEN Raise(as4p.msg, "EBADATTR")
        ELSE merged
  BY ZenonT(60) DEF MergeAs4Path, m, aggr, aggr4, as4p, iter, merged
<1> HIDE DEF Ignored, IsCut
<1> QED
  BY <1>8, <1>9, <1>10

\* The rest of startrealaspath_r keeps it one.
LEMMA StartRealPathIsSingle ==
    ASSUME pkt \in Packets, NEW m, Good(m), OnePending(m)
    PROVE  Single(StartRealPath(m))
<1> DEFINE n     == EndPending(m)
           fresh == [n EXCEPT !.flags = @ \cup {"F_ASPATH"},
                              !.iter   = PathIter(EmptyPath, pkt.asn32)]
           asp   == Lookup(fresh, "AS_PATH")
           plain == [asp.msg EXCEPT !.iter = PathIter(AttrAt(asp).path, TRUE)]
<1>1. m \in Messages /\ Single(Refuse(m))
  BY RefuseType DEF Good, Single
<1>2. n \in Messages /\ Coherent(n.offtab) /\ (n.err = "ENOERR" => Pending(n) = {})
  BY EndedType
<1>3. PathIter(EmptyPath, pkt.asn32) \in PathIters
  <2>1. EmptyPath \in Paths
    BY DEF EmptyPath, Paths
  <2>2. pkt.asn32 \in BOOLEAN
    BY PacketType
  <2> QED
    BY <2>1, <2>2, PathIterType
<1> HIDE DEF n
<1>4. JustPath(fresh)
  <2>1. Good(fresh)
    BY <1>2, <1>3, UnionSetType
  <2>2. fresh.err = n.err /\ fresh.flags = n.flags \cup {"F_ASPATH"}
    BY <1>2 DEF Messages
  <2> QED
    BY <1>2, <2>1, <2>2 DEF JustPath, Good, Pending
<1> HIDE DEF fresh
<1>5. JustPath(asp.msg) /\ IsAttr(asp.at, "AS_PATH")
  BY <1>4, JustPathLooks, LookupType DEF NotableCodes, JustPath
<1> HIDE DEF asp
<1>6. asp.at # 0 => Single(MergeAs4Path(asp))
  BY <1>5, MergeIsSingle
<1>7. plain.err = asp.msg.err /\ plain.flags = asp.msg.flags
  BY <1>5 DEF JustPath, Messages
<1>8. Single(asp.msg) /\ Single(plain)
  <2> HIDE DEF plain
  <2>1. Pending(plain) = Pending(asp.msg)
    BY <1>7 DEF Pending
  <2> QED
    BY <1>5, <1>7, <2>1, StaysSingle DEF JustPath
<1> HIDE DEF plain
<1>9. StartRealPath(m) \in
        {Refuse(m), asp.msg} \cup
        (IF asp.at # 0 THEN {plain, MergeAs4Path(asp)} ELSE {})
  BY DEF StartRealPath, n, fresh, asp, plain
<1> QED
  BY <1>1, <1>6, <1>8, <1>9

\* startnhop_r begins one.
LEMMA StartNextHopsIsSingle ==
    ASSUME pkt \in Packets, NEW m, Good(m), OnePending(m)
    PROVE  Single(StartNextHops(m))
<1> DEFINE e    == EndPending(m)
           n    == [e EXCEPT !.iter = NoHops]
           nh   == Lookup(n, "NEXT_HOP")
           own1 == [nh.msg EXCEPT !.iter.rest = AttrAt(nh).nh,
                                  !.family  = "v4"]
           own  == IF nh.at = 0 THEN nh.msg ELSE own1
           mp   == Lookup(own, "MP_REACH_NLRI")
           hops == [mp.msg.iter EXCEPT !.mp     = TRUE,
                                       !.mprest = AttrAt(mp).nh,
                                       !.mpcut  = AttrAt(mp).nhcut,
                                       !.mpfamily = IF AttrAt(mp).afi = "bad" THEN @
                                                    ELSE AttrAt(mp).afi]
           both == IF mp.at = 0 THEN mp.msg ELSE [mp.msg EXCEPT !.iter = hops]
           begun == [both EXCEPT !.flags = @ \cup {"F_NHOP"}]
<1>1. m \in Messages /\ Single(Refuse(m))
  BY RefuseType DEF Good, Single
<1>2. NoHops \in HopIters
  BY DEF NoHops, HopIters
<1>3. Between(n) /\ n.iter \in HopIters
  <2>1. Between(e)
    BY EndedType DEF Between
  <2> HIDE DEF e
  <2> QED
    BY <1>2, <2>1, BetweenWrite DEF Between, Messages
<1> HIDE DEF n
<1>4. Between(nh.msg) /\ IsAttr(nh.at, "NEXT_HOP") /\ nh.msg.iter \in HopIters
  BY <1>3, BetweenLookup DEF NotableCodes
<1> HIDE DEF nh
<1>5. ASSUME nh.at # 0 PROVE Between(own1)
  <2> DEFINE first == [nh.msg.iter EXCEPT !.rest = AttrAt(nh).nh]
  <2>1. AttrAt(nh).nh \in Seq(Nat)
    BY <1>4, <1>5, HopsOfType
  <2>2. first \in HopIters
    BY <1>4, <2>1 DEF HopIters
  <2>3. own1 = [nh.msg EXCEPT !.iter = first, !.family = "v4"]
    BY <1>4 DEF Between, Messages
  <2> HIDE DEF first, own1
  <2> QED
    BY <1>4, <2>2, <2>3, BetweenWrite
<1> HIDE DEF own1
<1>6. Between(own)
  BY <1>4, <1>5
<1> HIDE DEF own
<1>7. Between(mp.msg)
  BY <1>6, BetweenLookup DEF NotableCodes
<1> HIDE DEF mp, hops
<1>8. {"err", "flags", "iter"} \subseteq DOMAIN mp.msg
  BY <1>7 DEF Between, Messages
<1>9. /\ both.err = mp.msg.err /\ both.flags = mp.msg.flags
      /\ {"err", "flags", "iter"} \subseteq DOMAIN both
  BY <1>8
<1> HIDE DEF both
<1>10. begun.err = both.err /\ begun.flags = both.flags \cup {"F_NHOP"}
  BY <1>9
<1>11. begun.err = "ENOERR" => Pending(begun) \subseteq {"F_NHOP"}
  BY <1>7, <1>9, <1>10 DEF Between, Pending
<1>12. Single(begun)
  BY <1>11, StaysSingle
<1>13. Raise(both, "EBADATTR").err = "EBADATTR"
  BY <1>9 DEF Raise
<1>14. Single(Raise(both, "EBADATTR"))
  BY <1>13 DEF Single
<1>15. StartNextHops(m) =
         IF ~pkt.update \/ ~Allowed(m, {"F_RD"}) THEN Refuse(m)
         ELSE IF mp.at # 0 /\ AttrAt(mp).afi = "bad" THEN Raise(both, "EBADATTR")
         ELSE begun
  BY ZenonT(60) DEF StartNextHops, n, nh, own1, own, mp, hops, both
<1> HIDE DEF begun
<1> QED
  BY <1>1, <1>12, <1>14, <1>15

\* startcommunities_r begins one.
LEMMA StartCommunitiesIsSingle ==
    ASSUME pkt \in Packets, NEW m, Good(m), OnePending(m),
           NEW code \in CommunityCodes \cup {"none"}
    PROVE  Single(StartCommunities(m, code))
<1> DEFINE n == EndPending(m)
           l == Lookup(n, code)
           begun == [l.msg EXCEPT !.flags = @ \cup {"F_COMMUNITY"},
                                  !.iter  = [ccode |-> code],
                                  !.uit   = Cursor("community", l.at)]
<1>1. m \in Messages /\ Single(Refuse(m))
  BY RefuseType DEF Good, Single
<1>2. Between(n)
  BY EndedType DEF Between
<1> HIDE DEF n
<1>3. Single(Raise(n, "EINVOP"))
  BY <1>2, RaiseType DEF Between, Errors, Single
<1>4. ASSUME code \in CommunityCodes PROVE Single(begun)
  <2>1. Between(l.msg)
    BY <1>2, <1>4, BetweenLookup DEF NotableCodes, CommunityCodes
  <2> HIDE DEF l
  <2>2. begun.err = l.msg.err /\ begun.flags = l.msg.flags \cup {"F_COMMUNITY"}
    BY <2>1 DEF Between, Messages
  <2>3. begun.err = "ENOERR" => Pending(begun) \subseteq {"F_COMMUNITY"}
    BY <2>1, <2>2 DEF Between, Pending
  <2> QED
    BY <2>3, StaysSingle
<1> HIDE DEF begun
<1>5. StartCommunities(m, code) \in
        {Refuse(m), Raise(n, "EINVOP")} \cup
        (IF code \in CommunityCodes THEN {begun} ELSE {})
  BY DEF StartCommunities, n, l, begun
<1> QED
  BY <1>1, <1>3, <1>4, <1>5

\* getrealbgpaggregator_r begins none.
LEMMA RealAggregatorBegins ==
    ASSUME pkt \in Packets, NEW m, Good(m)
    PROVE  NoneBegun(RealAggregator(m).msg, m)
<1> DEFINE aggr  == Lookup(m, "AGGREGATOR")
           aggr4 == Lookup(aggr.msg, "AS4_AGGREGATOR")
<1>1. NoneBegun(Refuse(m), m)
  BY FailedBegins DEF Good
<1>2. OnlyLooked(aggr.msg, m)
  BY LookupType DEF Good, NotableCodes
<1> HIDE DEF aggr
<1>3. OnlyLooked(aggr4.msg, aggr.msg)
  BY <1>2, LookupType DEF OnlyLooked, NotableCodes
<1>4. [aggr4 EXCEPT !.at = aggr.at].msg = aggr4.msg
  BY <1>2, LookupType DEF aggr4, OnlyLooked, NotableCodes
<1> HIDE DEF aggr4
<1>5. NoneBegun(aggr.msg, m) /\ NoneBegun(aggr4.msg, m)
  BY <1>2, <1>3, LookBegins DEF NoneBegun
<1> DEFINE r == RealAggregator(m)
<1>6. r = IF ~pkt.update \/ ~Allowed(m, {"F_RD"}) THEN [msg |-> Refuse(m), at |-> 0]
          ELSE IF aggr.at = 0 \/ AttrAt(aggr).as # AS_TRANS THEN aggr
          ELSE IF aggr4.at = 0 THEN [aggr4 EXCEPT !.at = aggr.at] ELSE aggr4
  BY ZenonT(60) DEF RealAggregator, aggr, aggr4
<1> HIDE DEF r
<1>7. r.msg \in {Refuse(m), aggr.msg, aggr4.msg}
  BY <1>4, <1>6
<1> QED
  BY <1>1, <1>5, <1>7 DEF r

\* Every call of a client that does not nest leaves one iteration pending.
LEMMA NextKeepsOnePending ==
    Nested = {} /\ IInv /\ OnlyOnePending /\ [Next]_vars => OnlyOnePending'
<1> SUFFICES ASSUME Nested = {}, IInv, OnlyOnePending, [Next]_vars PROVE Single(msg)'
  BY DEF OnlyOnePending, Single
<1>1. Single(msg)
  BY DEF OnlyOnePending, Single
<1>2. ASSUME open PROVE Good(msg) /\ pkt \in Packets /\ msg \in Messages
  BY <1>2, OpenIsGood DEF Good
<1>3. ASSUME open, NEW m, msg' = m, Single(m) PROVE Single(msg)'
  BY <1>3 DEF Single, OnePending, Pending
<1>4. ASSUME open, NEW m, msg' = m, NoneBegun(m, msg) PROVE Single(msg)'
  BY <1>1, <1>3, <1>4, StaysSingle
<1>5. CASE (\E p \in Packets : setbgpread(p)) \/ bgpclose
  <2>1. msg \in Messages
    BY DEF IInv, TypeOK
  <2>2. msg'.flags \in {{}, {"F_RD"}}
    BY <1>5, <2>1 DEF setbgpread, bgpclose, Messages
  <2>3. "F_RD" \notin PendingFlags
    BY FlagsListed
  <2>4. msg'.flags \cap PendingFlags = {}
    BY <2>2, <2>3
  <2> QED
    BY <2>4 DEF Single, OnePending, Pending
<1>6. CASE startwithdrawn \/ startallwithdrawn \/ startnlri \/ startallnlri
  <2>1. PICK k \in {WithdrawnKind, NlriKind} : \E flags \in SUBSET {k.flag, k.all} :
           open /\ OnePending(msg) /\ msg' = StartPrefixes(msg, k, flags)
    BY <1>6 DEF startwithdrawn, startallwithdrawn, startnlri, startallnlri, Begins, Starts,
                WithdrawnKind, NlriKind
  <2>2. PICK flags \in SUBSET {k.flag, k.all} :
           open /\ OnePending(msg) /\ msg' = StartPrefixes(msg, k, flags)
    BY <2>1
  <2>3. Single(StartPrefixes(msg, k, flags))
    BY <1>2, <2>2, StartsAreSingle
  <2> QED
    BY <1>3, <2>2, <2>3
<1>7. CASE startmpunreachnlri \/ startmpreachnlri
  <2>1. PICK k \in {WithdrawnKind, NlriKind} :
           open /\ MayNest /\ msg' = StartMpPrefixes(msg, k)
    BY <1>7 DEF startmpunreachnlri, startmpreachnlri, Begins, Starts
  <2>2. Pending(msg) = {}
    BY <2>1 DEF MayNest
  <2>3. Single(StartMpPrefixes(msg, k))
    BY <1>2, <2>1, <2>2, StartMpIsSingle
  <2> QED
    BY <1>3, <2>1, <2>3
<1>8. CASE nextwithdrawn \/ nextnlri
  <2>1. PICK k \in {WithdrawnKind, NlriKind} : open /\ msg' = NextPrefix(msg, k).msg
    BY <1>8 DEF nextwithdrawn, nextnlri, Reads
  <2>2. NoneBegun(NextPrefix(msg, k).msg, msg)
    BY <1>2, <2>1, NextPrefixBegins
  <2> QED
    BY <1>4, <2>1, <2>2
<1>9. CASE endwithdrawn \/ endnlri \/ endbgpattribs \/ endaspath \/ endnhop \/ endcommunities
  <2>1. PICK f : open /\ msg' = EndIteration(msg, f)
    BY <1>9 DEF endwithdrawn, endnlri, endbgpattribs, endaspath, endnhop, endcommunities, Starts
  <2>2. NoneBegun(EndIteration(msg, f), msg)
    BY <1>2, <2>1, FailedBegins DEF EndIteration
  <2> QED
    BY <1>4, <2>1, <2>2
<1>10. CASE startbgpattribs \/ startnhop \/ startrealaspath
  <2>1. PICK m \in {StartAttribs(msg), StartNextHops(msg), StartRealPath(msg)} :
           open /\ OnePending(msg) /\ msg' = m
    BY <1>10 DEF startbgpattribs, startnhop, startrealaspath, Begins, Starts
  <2>2. Single(m)
    BY <1>2, <2>1, StartsAreSingle, StartNextHopsIsSingle, StartRealPathIsSingle
  <2> QED
    BY <1>3, <2>1, <2>2
<1>11. CASE startaspath \/ startas4path
  <2>1. PICK code \in {"AS_PATH", "AS4_PATH"}, wide \in {pkt.asn32, TRUE} :
           open /\ OnePending(msg) /\ msg' = StartPath(msg, code, wide)
    BY <1>11 DEF startaspath, startas4path, Begins, Starts
  <2>2. code \in NotableCodes
    BY DEF NotableCodes
  <2>3. Single(StartPath(msg, code, wide))
    BY <1>2, <2>1, <2>2, StartPathIsSingle
  <2> QED
    BY <1>3, <2>1, <2>3
<1>12. CASE nextbgpattrib \/ nextaspath \/ nextnhop \/ nextcommunity
  <2>1. PICK m \in {NextAttrib(msg).msg, NextPath(msg).msg, NextHop(msg).msg,
                    NextCommunity(msg).msg} : open /\ msg' = m
    BY <1>12 DEF nextbgpattrib, nextaspath, nextnhop, nextcommunity, Reads
  <2>2. NoneBegun(m, msg)
    BY <1>2, <2>1, NextBegins
  <2> QED
    BY <1>4, <2>1, <2>2
<1>13. ASSUME NEW c \in CommunityCodes \cup {"none"}, startcommunities(c) PROVE Single(msg)'
  <2>1. open /\ OnePending(msg) /\ msg' = StartCommunities(msg, c)
    BY <1>13 DEF startcommunities, Begins, Starts
  <2>2. Single(StartCommunities(msg, c))
    BY <1>2, <2>1, StartCommunitiesIsSingle
  <2> QED
    BY <1>3, <2>1, <2>2
<1>14. ASSUME NEW l \in Lookups, getbgpattr(l) PROVE Single(msg)'
  <2>1. open /\ msg' = Lookup(msg, Sought(l)).msg
    BY <1>14 DEF getbgpattr, Looks
  <2>2. NoneBegun(Lookup(msg, Sought(l)).msg, msg)
    BY <1>2, <2>1, SoughtIsNotable, LookupType, LookBegins DEF Good
  <2> QED
    BY <1>4, <2>1, <2>2
<1>15. CASE getrealbgpaggregator
  <2>1. open /\ msg' = RealAggregator(msg).msg
    BY <1>15 DEF getrealbgpaggregator, Looks
  <2> QED
    BY <1>2, <1>4, <2>1, RealAggregatorBegins
<1>16. CASE getrawfield
  <2>1. open /\ msg' \in {msg, Refuse(msg)}
    BY <1>16 DEF getrawfield, Starts
  <2>2. NoneBegun(msg, msg) /\ NoneBegun(Refuse(msg), msg)
    BY <1>2, <2>1, FailedBegins DEF NoneBegun
  <2> QED
    BY <1>4, <2>1, <2>2
<1>17. CASE UNCHANGED vars
  BY <1>1, <1>17 DEF vars, Single, OnePending, Pending
<1> QED
  BY <1>5, <1>6, <1>7, <1>8, <1>9, <1>10, <1>11, <1>12, <1>13, <1>14, <1>15, <1>16, <1>17 DEF Next

\* Unless the client starts a multiprotocol iteration inside another one, at
\* most one iteration is pending on a message without error: endpending, which
\* ends one, is enough.
THEOREM OneIsPending == Nested = {} => (Spec => []OnlyOnePending)
<1> SUFFICES ASSUME Nested = {} PROVE Spec => []OnlyOnePending
  OBVIOUS
<1>1. Init => OnlyOnePending
  BY DEF Init, OnlyOnePending, OnePending, Pending
<1>2. IInv /\ OnlyOnePending /\ [Next]_vars => OnlyOnePending'
  BY NextKeepsOnePending
<1> QED
  BY <1>1, <1>2, InitIsGood, NextKeepsIInv, PTL DEF Spec
=============================================================================
