-------------------------- MODULE MrtReader_proofs --------------------------
(***************************************************************************)
(* Proofs about MrtReader, for every set of records and of peer indexes    *)
(* and every length of the fast table.                                     *)
(***************************************************************************)
EXTENDS MrtReader, WellFoundedInduction, SequenceTheorems, TLAPS

\* A nonempty set of naturals has a least element, and Min is one: the first
\* position a search finds is one that satisfies what was searched for.
LEMMA MinIsLeast ==
    ASSUME NEW S \in SUBSET Nat, S # {}
    PROVE  Min(S) \in S /\ \A x \in S : Min(S) <= x
<1> DEFINE R == OpToRel(<, Nat)
<1>1. \A x, y \in Nat : <<y, x>> \in R <=> y < x
  BY DEF OpToRel
<1>2. IsWellFoundedOn(R, Nat)
  BY NatLessThanWellFounded
<1> HIDE DEF R
<1>3. PICK least \in S : \A y \in S : ~ (<<y, least>> \in R)
  BY <1>2, WFMin
<1>4. ASSUME NEW y \in S PROVE least <= y
  <2>1. least \in Nat /\ y \in Nat
    OBVIOUS
  <2>2. ~ (<<y, least>> \in R)
    BY <1>3
  <2>3. ~ (y < least)
    BY <1>1, <2>1, <2>2
  <2> QED
    BY <2>1, <2>3
<1> QED
  BY <1>4 DEF Min

\* A piece of a sequence: its elements, how many, and which.
LEMMA Piece ==
    ASSUME NEW S, NEW s \in Seq(S),
           NEW from \in 1..Len(s) + 1, NEW to \in from - 1..Len(s)
    PROVE  /\ SubSeq(s, from, to) \in Seq(S)
           /\ Len(SubSeq(s, from, to)) = to - from + 1
           /\ \A i \in 1..to - from + 1 : SubSeq(s, from, to)[i] = s[from + i - 1]
<1>1. \A i \in from..to : s[i] \in S
  BY ElementOfSeq
<1>2. from \in Int /\ to \in Int
  OBVIOUS
<1> QED
  BY <1>1, <1>2, SubSeqProperties

\* The beginning of a sequence and the element that follows it.
LEMMA AppendFront ==
    ASSUME NEW S, NEW s \in Seq(S), NEW k \in 0..Len(s) - 1
    PROVE  Append(SubSeq(s, 1, k), s[k + 1]) = SubSeq(s, 1, k + 1)
<1> DEFINE front == SubSeq(s, 1, k)
           longer == SubSeq(s, 1, k + 1)
           added == Append(front, s[k + 1])
<1>1. Len(s) \in Nat /\ k \in Nat /\ k + 1 \in 1..Len(s) /\ s[k + 1] \in S
  BY LenProperties, ElementOfSeq
<1>2. 1 \in 1..Len(s) + 1 /\ k \in 1 - 1..Len(s) /\ k + 1 \in 1 - 1..Len(s)
  BY <1>1
<1>3. front \in Seq(S) /\ Len(front) = k /\ \A i \in 1..k : front[i] = s[i]
  BY <1>1, <1>2, Piece
<1>4. /\ longer \in Seq(S) /\ Len(longer) = k + 1
      /\ \A i \in 1..k + 1 : longer[i] = s[i]
  BY <1>1, <1>2, Piece
<1> HIDE DEF front, longer
<1>5. /\ added \in Seq(S) /\ Len(added) = k + 1
      /\ \A i \in 1..k : added[i] = front[i]
      /\ added[k + 1] = s[k + 1]
  BY <1>1, <1>3, AppendProperties
<1> HIDE DEF added
<1>6. \A i \in 1..Len(added) : added[i] = longer[i]
  BY <1>1, <1>3, <1>4, <1>5
<1>7. Len(added) = Len(longer)
  BY <1>4, <1>5
<1>8. added = longer
  BY <1>4, <1>5, <1>6, <1>7, SeqEqual
<1> QED
  BY <1>8 DEF added, front, longer

Flags == {"F_WRAPS_BGP", "F_IS_PI", "F_NEEDS_PI", "F_ADDPATH", "F_HAS_STATE", "F_VALID",
          "F_IS_BGP", "F_AS32", "F_IS_EXT", "F_RD", "F_PE", "F_RE"}
Errors == {"ENOERR", "EINVOP", "EBADPEERIDXHDR", "ENEEDSPEERIDX", "EBADRIBENT",
           "ERIBNOTSUP", "EBADPEERIDX", "EBADBGP4MPHDR", "EAFINOTSUP", "EBADZEBRAHDR"}
Cells == Int

Recs == Records \cup Indexes
Pitab == [heap : Nat, pos : Seq(Cells)]
Message == [flags : SUBSET Flags, err : Errors, rec : Recs \cup {NoRecord}, buf : Nat,
            at : Nat, peer_index : {"none", "pi"}, pitab : Pitab, picount : Nat]

\* What an iteration returns: peers, or entries with their peers.
Items == UNION {Range(r.items) : r \in Recs}
Peers == {p.peer : p \in Items} \cup {Undecoded}
Returned == Items \cup [entry : Items, peer : Peers]
Answers == [items : Seq(Returned), null : BOOLEAN]

TypeOK ==
    /\ m \in [Both -> Message] /\ got \in [Both -> Answers]
    /\ freed \in SUBSET Nat /\ stray \in SUBSET {"freed", "missing", "beyond"}
    /\ untold \in BOOLEAN /\ open \in SUBSET Both

\* The flags of a message are those of its record, and what the calls add to them
\* fits the record; a table belongs to the record.
Own == {"F_RD", "F_PE", "F_RE"}
Sound(msg) ==
    /\ msg.rec \in Recs /\ msg.flags \ Own = mrtflags(msg.rec)
    /\ "F_PE" \in msg.flags => "F_IS_PI" \in msg.flags
    /\ "F_RE" \in msg.flags /\ msg.err = "ENOERR" =>
          \/ msg.rec.type = "TABLE_DUMP"
          \/ /\ msg.rec.type = "TABLE_DUMPV2"
             /\ "F_NEEDS_PI" \in msg.flags /\ msg.peer_index = "pi"
    /\ msg.pitab # NoTable =>
          /\ "F_IS_PI" \in msg.flags /\ msg.picount = msg.rec.count
          /\ msg.pitab.pos = Table(msg)

\* What the iteration of a message returned: nothing is said of the peers of an index
\* that ends within one.
Answered(msg, g) ==
    LET items == msg.rec.items
    IN  msg.err = "ENOERR" /\ msg.flags \cap {"F_PE", "F_RE"} # {} =>
          /\ msg.at <= Len(items)
          /\ "F_PE" \in msg.flags /\ msg.rec.cut # "item" =>
                g.items = SubSeq(items, 1, msg.at) /\ (g.null => msg.at = Len(items))
          /\ "F_RE" \in msg.flags =>
                /\ Len(g.items) = msg.at /\ (g.null => msg.at = Len(items))
                /\ \A i \in 1..msg.at :
                      /\ g.items[i].entry = items[i]
                      /\ msg.rec.type = "TABLE_DUMP" => g.items[i].peer = items[i].peer

\* The peers of the entries are those of the peer index.
NamedBy(msg, g, index) ==
    "F_RE" \in msg.flags /\ msg.err = "ENOERR" /\ msg.rec.type = "TABLE_DUMPV2"
    /\ WellFormed(index) =>
        \A i \in 1..msg.at :
            LET e == msg.rec.items[i]
            IN  e.idx < Len(index.items) /\ g.items[i].peer = index.items[e.idx + 1].peer

Opened == \A x \in open : Sound(m[x]) /\ Answered(m[x], got[x])
Named == "cur" \in open => NamedBy(m["cur"], got["cur"], m["pi"].rec)

\* Nobody holds what was freed, and no two messages in use hold the same.
Owned ==
    /\ freed \subseteq Held(m)
    /\ \A x \in open : {m[x].buf, m[x].pitab.heap} \cap freed = {}
    /\ m["cur"].pitab = NoTable
    /\ open = Both /\ m["cur"].buf # 0 => m["cur"].buf \notin {m["pi"].buf, m["pi"].pitab.heap}

\* A record that is linked has a peer index in use, and its table if it needs it and
\* the client was not left without an error.
Kept ==
    /\ "pi" \notin open => m["pi"].flags = {}
    /\ "cur" \in open /\ m["cur"].peer_index = "pi" =>
          /\ "pi" \in open
          /\ "F_NEEDS_PI" \in m["cur"].flags => m["pi"].pitab # NoTable \/ untold

IInv == TypeOK /\ NeverStrays /\ Opened /\ Named /\ Owned /\ Kept

-----------------------------------------------------------------------------
(* Where the peers of an index begin *)

Follows(f, n, items) ==
    f = [i \in 0..n |-> IF i = 0 THEN 0 ELSE f[i - 1] + items[i].size]

\* The offsets are what their recursive definition says.
LEMMA OffsetsFollow ==
    ASSUME NEW items, Len(items) \in Nat
    PROVE  Follows(Offsets(items), Len(items), items)
<1> DEFINE n == Len(items)
           Bad == {k \in 0..n : ~ \E f : Follows(f, k, items)}
<1>1. Bad = {}
  <2> SUFFICES ASSUME Bad # {} PROVE FALSE
    OBVIOUS
  <2> DEFINE k == Min(Bad)
  <2>1. Bad \in SUBSET Nat
    OBVIOUS
  <2>2. k \in Bad /\ \A x \in Bad : k <= x
    BY <2>1, MinIsLeast
  <2> HIDE DEF k
  <2>3. k \in 0..n /\ ~ \E f : Follows(f, k, items)
    BY <2>2
  <2>4. k # 0
    <3> DEFINE f == [i \in 0..0 |-> 0]
    <3>1. Follows(f, 0, items)
      BY DEF Follows
    <3> QED
      BY <2>3, <3>1
  <2>5. k - 1 \in 0..n /\ k - 1 \notin Bad
    BY <2>2, <2>3, <2>4
  <2>6. PICK f : Follows(f, k - 1, items)
    BY <2>5
  <2> DEFINE g == [i \in 0..k |-> IF i = 0 THEN 0 ELSE f[i - 1] + items[i].size]
  <2>7. \A i \in 0..k : i # k => g[i] = f[i]
    BY <2>3, <2>6 DEF Follows
  <2>8. g = [i \in 0..k |-> IF i = 0 THEN 0 ELSE g[i - 1] + items[i].size]
    <3>1. \A i \in 0..k : i # 0 => g[i - 1] = f[i - 1]
      BY <2>3, <2>7
    <3> QED
      BY <3>1
  <2> QED
    BY <2>3, <2>8 DEF Follows
<1>2. \E f : Follows(f, n, items)
  BY <1>1
<1> QED
  BY <1>2, Zenon DEF Offsets, Follows

Sizes(items) == \A i \in 1..Len(items) : items[i].size \in Nat \ {0}

\* Every peer begins behind those before it.
LEMMA OffsetsGrow ==
    ASSUME NEW items, Len(items) \in Nat, Sizes(items)
    PROVE  /\ Offset(items, 0) = 0
           /\ \A i \in 0..Len(items) : Offset(items, i) \in Nat
           /\ \A i \in 0..Len(items) : \A j \in 0..i - 1 :
                 Offset(items, j) < Offset(items, i)
<1> DEFINE n == Len(items)
           o == Offsets(items)
           Good(i) == o[i] \in Nat /\ \A j \in 0..i - 1 : o[j] < o[i]
           Bad == {i \in 0..n : ~ Good(i)}
<1>1. /\ o[0] = 0
      /\ \A i \in 1..n : o[i] = o[i - 1] + items[i].size
  <2> DEFINE Next0(f) == [i \in 0..n |-> IF i = 0 THEN 0 ELSE f[i - 1] + items[i].size]
  <2>1. o = Next0(o)
    BY OffsetsFollow DEF Follows
  <2>2. \A f : \A i \in 0..n : Next0(f)[i] = IF i = 0 THEN 0 ELSE f[i - 1] + items[i].size
    OBVIOUS
  <2> HIDE DEF o, Next0
  <2>3. \A i \in 0..n : o[i] = IF i = 0 THEN 0 ELSE o[i - 1] + items[i].size
    BY <2>1, <2>2
  <2> QED
    BY <2>3
<1> HIDE DEF o
<1>2. Bad = {}
  <2> SUFFICES ASSUME Bad # {} PROVE FALSE
    OBVIOUS
  <2> DEFINE k == Min(Bad)
  <2>1. Bad \in SUBSET Nat
    OBVIOUS
  <2>2. k \in Bad /\ \A x \in Bad : k <= x
    BY <2>1, MinIsLeast
  <2> HIDE DEF k
  <2>3. k \in 0..n /\ ~ Good(k)
    BY <2>2
  <2>4. k # 0
    BY <1>1, <2>3
  <2>5. k - 1 \in 0..n /\ k \in 1..n /\ Good(k - 1)
    BY <2>2, <2>3, <2>4
  <2>6. items[k].size \in Nat \ {0} /\ o[k] = o[k - 1] + items[k].size
    BY <1>1, <2>5 DEF Sizes
  <2>7. o[k] \in Nat /\ o[k - 1] < o[k] /\ o[k - 1] \in Nat
    BY <2>5, <2>6
  <2>8. ASSUME NEW j \in 0..k - 1 PROVE o[j] < o[k]
    <3>1. CASE j = k - 1
      BY <2>7, <3>1
    <3>2. CASE j # k - 1
      <4>1. j \in 0..(k - 1) - 1 /\ j \in 0..n
        BY <2>3, <3>2
      <4>2. o[j] < o[k - 1]
        BY <2>5, <4>1
      <4>3. j \notin Bad
        BY <2>2, <2>3, <2>8
      <4>4. o[j] \in Nat
        BY <4>1, <4>3
      <4> QED
        BY <2>7, <4>2, <4>4
    <3> QED
      BY <3>1, <3>2
  <2> QED
    BY <2>3, <2>7, <2>8
<1> QED
  BY <1>1, <1>2 DEF Offset, o

\* The peer decoded from where a peer begins is that peer.
LEMMA PeerIsFound ==
    ASSUME NEW S, NEW items \in Seq(S), Sizes(items), NEW i \in 1..Len(items)
    PROVE  PeerAt(items, Offset(items, i - 1)) = items[i].peer
<1> DEFINE o == Offset(items, i - 1)
           At(j) == j \in DOMAIN items /\ Offset(items, j - 1) = o
<1>1. Len(items) \in Nat /\ DOMAIN items = 1..Len(items)
  BY LenProperties
<1>2. \A j \in 0..Len(items) : \A k \in 0..j - 1 : Offset(items, k) < Offset(items, j)
  BY <1>1, OffsetsGrow
<1>3. \A j \in 0..Len(items) : Offset(items, j) \in Nat
  BY <1>1, OffsetsGrow
<1>4. ASSUME NEW j \in DOMAIN items, Offset(items, j - 1) = o
      PROVE  j = i
  <2>1. i - 1 \in 0..Len(items) /\ j - 1 \in 0..Len(items)
    BY <1>1
  <2>2. CASE j < i
    <3>1. j - 1 \in 0..(i - 1) - 1
      BY <1>1, <2>2
    <3> QED
      BY <1>2, <1>3, <1>4, <2>1, <3>1
  <2>3. CASE i < j
    <3>1. i - 1 \in 0..(j - 1) - 1
      BY <1>1, <2>3
    <3> QED
      BY <1>2, <1>3, <1>4, <2>1, <3>1
  <2> QED
    BY <1>1, <2>2, <2>3
<1>5. i \in DOMAIN items
  BY <1>1
<1>6. (CHOOSE j \in DOMAIN items : Offset(items, j - 1) = o) = i
  BY <1>4, <1>5
<1> QED
  BY <1>5, <1>6 DEF PeerAt

-----------------------------------------------------------------------------
(* Records *)

\* The flags of a record: a peer index needs none, and both are of TABLE_DUMPV2.
LEMMA FlagsAre ==
    ASSUME NEW r
    PROVE  /\ mrtflags(r) \subseteq Flags \ Own
           /\ "F_IS_PI" \in mrtflags(r) =>
                 r.type = "TABLE_DUMPV2" /\ "F_NEEDS_PI" \notin mrtflags(r)
<1>1. CASE r.type = "TABLE_DUMP"
  BY <1>1 DEF mrtflags, Flags, Own
<1>2. CASE r.type = "TABLE_DUMPV2"
  BY <1>2 DEF mrtflags, Flags, Own, If
<1>3. CASE r.type = "BGP"
  BY <1>3 DEF mrtflags, Flags, Own
<1>4. CASE r.type \notin {"TABLE_DUMP", "TABLE_DUMPV2", "BGP"}
  BY <1>4 DEF mrtflags, Flags, Own, If
<1> QED
  BY <1>1, <1>2, <1>3, <1>4

\* The items of a record are a sequence, and those of a peer index take room.
LEMMA RecordIs ==
    ASSUME NEW r \in Recs
    PROVE  /\ r.items \in Seq(Items) /\ Len(r.items) \in Nat
           /\ \A i \in 1..Len(r.items) : r.items[i] \in Items /\ r.items[i].peer \in Peers
           /\ "F_IS_PI" \in mrtflags(r) => r.count \in Nat /\ Sizes(r.items)
           /\ "F_NEEDS_PI" \in mrtflags(r) =>
                 \A i \in 1..Len(r.items) : r.items[i].idx \in Nat
<1>1. /\ r.items \in Seq(Range(r.items))
      /\ "F_IS_PI" \in mrtflags(r) =>
            r.count \in Nat /\ \A p \in Range(r.items) : p.size \in Nat \ {0}
      /\ "F_NEEDS_PI" \in mrtflags(r) => \A e \in Range(r.items) : e.idx \in Nat
  BY RecordsAssumption DEF Recs
<1>2. Range(r.items) \subseteq Items
  BY DEF Items
<1>3. r.items \in Seq(Items)
  BY <1>1, <1>2, SeqMonotonic
<1>4. Len(r.items) \in Nat
  BY <1>3, LenProperties
<1>5. \A i \in 1..Len(r.items) : r.items[i] \in Range(r.items)
  BY <1>1, ElementOfSeq
<1>6. \A p \in Items : p.peer \in Peers
  BY DEF Peers
<1> QED
  BY <1>1, <1>2, <1>3, <1>4, <1>5, <1>6 DEF Sizes

\* The table of a peer index: an offset for each peer announced, none negative.
LEMMA TableIs ==
    ASSUME NEW msg, msg.rec \in Recs, "F_IS_PI" \in mrtflags(msg.rec)
    PROVE  /\ Table(msg) \in Seq(Cells) /\ Table(msg) # NoTable.pos
           /\ WellFormed(msg.rec) =>
                 \A k \in 0..Len(msg.rec.items) - 1 :
                    Table(msg)[k + 1] = Offset(msg.rec.items, k)
<1> DEFINE items == msg.rec.items
           n == msg.rec.count
           At(i) == Offset(items, IF i > Len(items) THEN Len(items) ELSE i - 1)
           T == [i \in 1..n |-> At(i)]
<1>1. Len(items) \in Nat /\ n \in Nat /\ Sizes(items)
  BY RecordIs
<1>2. \A i \in 0..Len(items) : Offset(items, i) \in Nat
  BY <1>1, OffsetsGrow
<1>3. \A i \in 1..n : At(i) \in Nat
  <2> HIDE DEF items, n
  <2> QED
    BY <1>1, <1>2
<1>4. Table(msg) = T
  BY DEF Table
<1> HIDE DEF At
<1>5. T \in [1..n -> Cells]
  BY <1>3 DEF Cells
<1>6. T \in Seq(Cells)
  BY <1>1, <1>5, SeqDef
<1>7. T # NoTable.pos
  <2>1. NoTable.pos = <<-1>>
    BY DEF NoTable
  <2>2. SUFFICES ASSUME T = <<-1>> PROVE FALSE
    BY <2>1
  <2>3. DOMAIN T = 1..n /\ DOMAIN <<-1>> = 1..1 /\ <<-1>>[1] = -1
    OBVIOUS
  <2>4. 1 \in 1..n
    BY <2>2, <2>3
  <2>5. T[1] = At(1)
    BY <2>4
  <2> QED
    BY <1>3, <2>2, <2>3, <2>4, <2>5
<1>8. ASSUME WellFormed(msg.rec), NEW k \in 0..Len(items) - 1
      PROVE  T[k + 1] = Offset(items, k)
  <2>1. n = Len(items) /\ k + 1 \in 1..n /\ ~ (k + 1 > Len(items)) /\ (k + 1) - 1 = k
    BY <1>1, <1>8 DEF WellFormed
  <2> HIDE DEF items, n
  <2>2. T[k + 1] = At(k + 1)
    BY <2>1
  <2> QED
    BY <2>1, <2>2 DEF At
<1> QED
  BY <1>4, <1>6, <1>7, <1>8

\* What PeerAt returns is a peer, or nothing that was decoded.
LEMMA PeerAtIs ==
    ASSUME NEW items \in Seq(Items), NEW o
    PROVE  PeerAt(items, o) \in Peers
<1>1. \A i \in DOMAIN items : items[i].peer \in Peers
  <2>1. \A i \in DOMAIN items : items[i] \in Items
    BY ElementOfSeq, LenProperties
  <2> QED
    BY <2>1 DEF Peers
<1>2. Undecoded \in Peers
  BY DEF Peers
<1> QED
  BY <1>1, <1>2 DEF PeerAt

-----------------------------------------------------------------------------
(* The operators on one message *)

\* What a call leaves of a message as it was: all but its iteration and its error,
\* which is never taken back.
Alike(a, b) ==
    /\ a \in Message
    /\ a.rec = b.rec /\ a.buf = b.buf /\ a.pitab = b.pitab
    /\ a.peer_index = b.peer_index /\ a.picount = b.picount
    /\ a.flags \ {"F_PE", "F_RE"} = b.flags \ {"F_PE", "F_RE"}
    /\ b.err # "ENOERR" => a.err # "ENOERR"

\* A call that starts no iteration and does not go on with one.
Less(a, b) == Alike(a, b) /\ a.at = b.at /\ a.flags \subseteq b.flags

LEMMA Same ==
    ASSUME NEW msg \in Message
    PROVE  Less(msg, msg)
<1> QED
  BY DEF Less, Alike

LEMMA LessLess ==
    ASSUME NEW a, NEW b, NEW c, Less(a, b), Less(b, c)
    PROVE  Less(a, c)
<1> QED
  BY DEF Less, Alike

LEMMA FailIs ==
    ASSUME NEW msg \in Message, NEW err \in Errors \ {"ENOERR"}
    PROVE  /\ Less(Fail(msg, err), msg) /\ Fail(msg, err).err = err
           /\ Fail(msg, err).flags = msg.flags
<1> QED
  BY DEF Less, Alike, Fail, Message

LEMMA RefuseIs ==
    ASSUME NEW msg \in Message
    PROVE  /\ Less(Refuse(msg), msg) /\ Refuse(msg).err # "ENOERR"
           /\ Refuse(msg).flags = msg.flags
<1> DEFINE err == IF msg.err = "ENOERR" THEN "EINVOP" ELSE msg.err
<1>1. err \in Errors \ {"ENOERR"}
  BY DEF Message, Errors
<1>2. Refuse(msg) = Fail(msg, err)
  BY DEF Refuse, Fail
<1> HIDE DEF err
<1> QED
  BY <1>1, <1>2, FailIs

\* Taking a flag of an iteration from a message, or adding it.
LEMMA FlagIs ==
    ASSUME NEW msg \in Message, NEW f \in {"F_PE", "F_RE"}
    PROVE  /\ Less([msg EXCEPT !.flags = @ \ {f}], msg)
           /\ [msg EXCEPT !.flags = @ \ {f}].flags = msg.flags \ {f}
           /\ [msg EXCEPT !.flags = @ \ {f}].err = msg.err
           /\ Alike([msg EXCEPT !.flags = @ \cup {f}], msg)
           /\ [msg EXCEPT !.flags = @ \cup {f}].flags = msg.flags \cup {f}
           /\ [msg EXCEPT !.flags = @ \cup {f}].err = msg.err
           /\ [msg EXCEPT !.flags = @ \cup {f}].at = msg.at
<1> DEFINE less == msg.flags \ {f}
           more == msg.flags \cup {f}
<1>1. less \in SUBSET Flags /\ more \in SUBSET Flags /\ less \subseteq msg.flags
  BY DEF Message, Flags
<1>2. /\ less \ {"F_PE", "F_RE"} = msg.flags \ {"F_PE", "F_RE"}
      /\ more \ {"F_PE", "F_RE"} = msg.flags \ {"F_PE", "F_RE"}
  OBVIOUS
<1>3. /\ [msg EXCEPT !.flags = @ \ {f}] = [msg EXCEPT !.flags = less]
      /\ [msg EXCEPT !.flags = @ \cup {f}] = [msg EXCEPT !.flags = more]
  OBVIOUS
<1> HIDE DEF less, more
<1>4. Less([msg EXCEPT !.flags = less], msg) /\ Alike([msg EXCEPT !.flags = more], msg)
  BY <1>1, <1>2 DEF Less, Alike, Message
<1>5. /\ [msg EXCEPT !.flags = less].flags = less /\ [msg EXCEPT !.flags = less].err = msg.err
      /\ [msg EXCEPT !.flags = more].flags = more /\ [msg EXCEPT !.flags = more].err = msg.err
      /\ [msg EXCEPT !.flags = more].at = msg.at
  BY DEF Message
<1> QED
  BY <1>3, <1>4, <1>5 DEF less, more

LEMMA endpeerentsIs ==
    ASSUME NEW msg \in Message
    PROVE  /\ Less(endpeerents_(msg), msg)
           /\ IF Allowed(msg, {"F_PE"})
              THEN endpeerents_(msg).err = "ENOERR"
                   /\ endpeerents_(msg).flags = msg.flags \ {"F_PE"}
              ELSE endpeerents_(msg).err # "ENOERR"
<1>1. CASE Allowed(msg, {"F_PE"})
  BY <1>1, FlagIs DEF endpeerents_, Checked, Allowed
<1>2. CASE ~ Allowed(msg, {"F_PE"})
  BY <1>2, RefuseIs DEF endpeerents_, Checked
<1> QED
  BY <1>1, <1>2

\* Ending an iteration over entries goes on as before.
LEMMA endribentsIs ==
    ASSUME NEW msg \in Message
    PROVE  /\ Less(endribents_(msg), msg)
           /\ Allowed(msg, {"F_RE"}) => endribents_(msg) = msg
<1>1. CASE Allowed(msg, {"F_RE"})
  <2>1. msg.flags \cup {"F_RE"} = msg.flags
    BY <1>1 DEF Allowed
  <2>2. [msg EXCEPT !.flags = @ \cup {"F_RE"}] = msg
    BY <2>1 DEF Message
  <2> QED
    BY <1>1, <2>2, Same DEF endribents_, Checked
<1>2. CASE ~ Allowed(msg, {"F_RE"})
  BY <1>2, RefuseIs DEF endribents_, Checked
<1> QED
  BY <1>1, <1>2

LEMMA endpendingIs ==
    ASSUME NEW msg \in Message
    PROVE  /\ Less(endpending(msg), msg)
           /\ msg.err = "ENOERR" => endpending(msg).err = "ENOERR"
           /\ msg.err = "ENOERR" /\ "F_RE" \notin msg.flags =>
                 "F_PE" \notin endpending(msg).flags
<1>1. CASE "F_RE" \in msg.flags
  <2>1. endpending(msg) = endribents_(msg)
    BY <1>1 DEF endpending
  <2> QED
    BY <1>1, <2>1, endribentsIs DEF Allowed
<1>2. CASE "F_RE" \notin msg.flags /\ "F_PE" \in msg.flags
  <2>1. endpending(msg) = endpeerents_(msg)
    BY <1>2 DEF endpending
  <2>2. msg.err = "ENOERR" => Allowed(msg, {"F_PE"})
    BY <1>2 DEF Allowed
  <2> QED
    BY <1>2, <2>1, <2>2, endpeerentsIs
<1>3. CASE "F_RE" \notin msg.flags /\ "F_PE" \notin msg.flags
  <2>1. endpending(msg) = msg
    BY <1>3 DEF endpending
  <2> QED
    BY <1>3, <2>1, Same
<1> QED
  BY <1>1, <1>2, <1>3

LEMMA WithHeadIs ==
    ASSUME NEW msg \in Message
    PROVE  /\ Less(WithHead(msg), msg) /\ WithHead(msg).flags = msg.flags
           /\ msg.rec.cut # "head" => WithHead(msg) = msg
           /\ msg.rec.cut = "head" => WithHead(msg).err # "ENOERR"
<1>1. "EBADPEERIDXHDR" \in Errors \ {"ENOERR"}
  BY DEF Errors
<1> QED
  BY <1>1, FailIs, Same DEF WithHead

\* Starting to read peers, at the first, unless there is an error.
LEMMA startpeerentsIs ==
    ASSUME NEW msg \in Message
    PROVE  /\ Alike(startpeerents_(msg), msg)
           /\ IF Allowed(msg, {"F_IS_PI"})
              THEN /\ startpeerents_(msg).at = 0 /\ "F_PE" \in startpeerents_(msg).flags
                   /\ startpeerents_(msg).flags \subseteq msg.flags \cup {"F_PE"}
                   /\ (startpeerents_(msg).err = "ENOERR") = (msg.rec.cut # "head")
              ELSE Less(startpeerents_(msg), msg) /\ startpeerents_(msg).err # "ENOERR"
<1>1. CASE Allowed(msg, {"F_IS_PI"})
  <2> DEFINE e == endpending(msg)
             h == WithHead(e)
             f == [h EXCEPT !.flags = @ \cup {"F_PE"}]
             s == [f EXCEPT !.at = 0]
  <2>1. Less(e, msg) /\ e.err = "ENOERR" /\ e \in Message
    BY <1>1, endpendingIs DEF Allowed, Less, Alike
  <2> HIDE DEF e
  <2>2. /\ Less(h, e) /\ h.flags = e.flags /\ h \in Message
        /\ (h.err = "ENOERR") = (e.rec.cut # "head")
    BY <2>1, WithHeadIs DEF Less, Alike
  <2> HIDE DEF h
  <2>3. /\ Alike(f, h) /\ f.flags = h.flags \cup {"F_PE"} /\ f.err = h.err /\ f \in Message
    BY <2>2, FlagIs DEF Alike
  <2>4. startpeerents_(msg) = s
    <3>1. startpeerents_(msg) = [h EXCEPT !.flags = @ \cup {"F_PE"}, !.at = 0]
      BY <1>1 DEF startpeerents_, Checked, h, e
    <3> QED
      BY <3>1
  <2> HIDE DEF f
  <2>5. Alike(s, f) /\ s.at = 0 /\ s.flags = f.flags /\ s.err = f.err
    BY <2>3 DEF Alike, Message
  <2> HIDE DEF s
  <2>6. e.rec = msg.rec /\ e.flags \subseteq msg.flags
    BY <2>1 DEF Less, Alike
  <2>7. Alike(s, msg)
    BY <2>1, <2>2, <2>3, <2>5 DEF Less, Alike
  <2>8. s.flags = e.flags \cup {"F_PE"} /\ (s.err = "ENOERR") = (msg.rec.cut # "head")
    BY <2>2, <2>3, <2>5, <2>6
  <2> QED
    BY <1>1, <2>4, <2>5, <2>6, <2>7, <2>8
<1>2. CASE ~ Allowed(msg, {"F_IS_PI"})
  BY <1>2, RefuseIs DEF startpeerents_, Checked, Less
<1> QED
  BY <1>1, <1>2

\* A message stays sound unless an iteration starts.
LEMMA AlikeSound ==
    ASSUME NEW a, NEW b, Alike(a, b), Sound(b),
           "F_PE" \in a.flags => "F_IS_PI" \in a.flags,
           "F_RE" \in a.flags /\ a.err = "ENOERR" =>
              \/ a.rec.type = "TABLE_DUMP"
              \/ /\ a.rec.type = "TABLE_DUMPV2"
                 /\ "F_NEEDS_PI" \in a.flags /\ a.peer_index = "pi"
    PROVE  Sound(a)
<1>1. a.rec = b.rec /\ a.pitab = b.pitab /\ a.picount = b.picount
  BY DEF Alike
<1>2. a.flags \ Own = b.flags \ Own /\ ("F_IS_PI" \in a.flags <=> "F_IS_PI" \in b.flags)
  BY DEF Alike, Own
<1>3. Table(a) = Table(b)
  BY <1>1 DEF Table
<1> QED
  BY <1>1, <1>2, <1>3 DEF Sound

LEMMA LessKeepsAll ==
    ASSUME NEW a, NEW b, Less(a, b)
    PROVE  /\ Sound(b) => Sound(a)
           /\ \A g : Answered(b, g) => Answered(a, g)
           /\ \A g, index : NamedBy(b, g, index) => NamedBy(a, g, index)
<1>1. /\ Alike(a, b) /\ a.at = b.at /\ a.flags \subseteq b.flags /\ a.rec = b.rec
      /\ a.peer_index = b.peer_index /\ (a.err = "ENOERR" => b.err = "ENOERR")
  BY DEF Less, Alike
<1>2. Sound(b) => Sound(a)
  <2>1. SUFFICES ASSUME Sound(b) PROVE Sound(a)
    OBVIOUS
  <2>2. \A f \in {"F_IS_PI", "F_NEEDS_PI"} : f \in a.flags <=> f \in b.flags
    BY <1>1 DEF Alike
  <2>3. "F_PE" \in a.flags => "F_IS_PI" \in a.flags
    BY <1>1, <2>1, <2>2 DEF Sound
  <2>4. "F_RE" \in a.flags /\ a.err = "ENOERR" =>
           \/ a.rec.type = "TABLE_DUMP"
           \/ /\ a.rec.type = "TABLE_DUMPV2"
              /\ "F_NEEDS_PI" \in a.flags /\ a.peer_index = "pi"
    BY <1>1, <2>1, <2>2 DEF Sound
  <2> QED
    BY <1>1, <2>1, <2>3, <2>4, AlikeSound
<1>3. ASSUME NEW g, Answered(b, g)
      PROVE  Answered(a, g)
  BY <1>1, <1>3 DEF Answered
<1>4. ASSUME NEW g, NEW index, NamedBy(b, g, index)
      PROVE  NamedBy(a, g, index)
  BY <1>1, <1>4 DEF NamedBy
<1> QED
  BY <1>2, <1>3, <1>4

-----------------------------------------------------------------------------
(* Steps that change one message in use *)

\* Such a step keeps the invariant if what it makes of the message does, and if it
\* goes behind an end only where a peer index in use is bad.
BadIndex == \E x \in open : "F_IS_PI" \in m[x].flags /\ ~WellFormed(m[x].rec)

LEMMA TurnsOrStrays ==
    ASSUME IInv, NEW x \in open, NEW new, NEW g \in Answers, NEW how \in SUBSET {"beyond"},
           Strays(x, new, how), "beyond" \in how => BadIndex,
           got' = [got EXCEPT ![x] = g], Alike(new, m[x]), Sound(new), Answered(new, g),
           x = "cur" => NamedBy(new, g, m["pi"].rec)
    PROVE  IInv'
<1>1. /\ TypeOK /\ NeverStrays /\ Opened /\ Named /\ Owned /\ Kept
      /\ m' = [m EXCEPT ![x] = new] /\ freed' = freed \cap Held(m')
      /\ stray' = how /\ open' = open /\ untold' = untold
  BY DEF IInv, Strays
<1>2. /\ m \in [Both -> Message] /\ got \in [Both -> Answers] /\ new \in Message
      /\ open \in SUBSET Both /\ x \in Both /\ freed \in SUBSET Nat
  BY <1>1 DEF TypeOK, Alike
<1>3. /\ m'[x] = new /\ got'[x] = g
      /\ \A y \in Both : y # x => m'[y] = m[y] /\ got'[y] = got[y]
  BY <1>1, <1>2
<1>4. /\ new.rec = m[x].rec /\ new.buf = m[x].buf /\ new.pitab = m[x].pitab
      /\ new.peer_index = m[x].peer_index
      /\ "F_NEEDS_PI" \in new.flags <=> "F_NEEDS_PI" \in m[x].flags
      /\ "F_IS_PI" \in new.flags <=> "F_IS_PI" \in m[x].flags
  BY DEF Alike
<1>5. \A y \in Both : m'[y].rec = m[y].rec /\ m'[y].buf = m[y].buf
                      /\ m'[y].pitab = m[y].pitab /\ m'[y].peer_index = m[y].peer_index
  BY <1>3, <1>4
<1>6. TypeOK'
  BY <1>1, <1>2 DEF TypeOK
<1>7. Opened'
  BY <1>1, <1>2, <1>3 DEF Opened
<1>8. Named'
  <2>1. CASE x = "cur"
    BY <1>1, <1>3, <1>5, <2>1 DEF Named, Both
  <2>2. CASE x # "cur"
    BY <1>1, <1>3, <1>5, <2>2 DEF Named, Both
  <2> QED
    BY <2>1, <2>2
<1>9. Owned'
  BY <1>1, <1>2, <1>5 DEF Owned, Both
<1>10. Kept'
  <2>1. "pi" \notin open' => m'["pi"].flags = {}
    BY <1>1, <1>3 DEF Kept, Both
  <2>2. "F_NEEDS_PI" \in m'["cur"].flags <=> "F_NEEDS_PI" \in m["cur"].flags
    BY <1>3, <1>4 DEF Both
  <2> QED
    BY <1>1, <1>5, <2>1, <2>2 DEF Kept, Both
<1>11. NeverStrays'
  <2>1. \A y \in Both : "F_IS_PI" \in m[y].flags <=> "F_IS_PI" \in m'[y].flags
    BY <1>3, <1>4
  <2> QED
    BY <1>1, <1>2, <1>5, <2>1 DEF NeverStrays, BadIndex, WellFormed
<1> QED
  BY <1>1, <1>6, <1>7, <1>8, <1>9, <1>10, <1>11 DEF IInv

LEMMA Turns ==
    ASSUME IInv, NEW x \in open, NEW new, NEW g \in Answers, Becomes(x, new),
           got' = [got EXCEPT ![x] = g], Alike(new, m[x]), Sound(new), Answered(new, g),
           x = "cur" => NamedBy(new, g, m["pi"].rec)
    PROVE  IInv'
<1>1. Strays(x, new, {}) /\ {} \in SUBSET {"beyond"} /\ "beyond" \notin {}
  BY DEF Becomes
<1> QED
  BY <1>1, TurnsOrStrays

\* A call that takes something from the message, or makes it fail, is one.
LEMMA Lessens ==
    ASSUME IInv, NEW x \in open, NEW new, Becomes(x, new), got' = got, Less(new, m[x])
    PROVE  IInv'
<1>1. Opened /\ Named /\ got \in [Both -> Answers] /\ x \in Both
  BY DEF IInv, TypeOK
<1>2. got[x] \in Answers /\ got' = [got EXCEPT ![x] = got[x]]
  BY <1>1
<1>3. Sound(m[x]) /\ Answered(m[x], got[x])
  BY <1>1 DEF Opened
<1>4. x = "cur" => NamedBy(m[x], got[x], m["pi"].rec)
  BY <1>1 DEF Named
<1>5. /\ Sound(new) /\ Answered(new, got[x])
      /\ x = "cur" => NamedBy(new, got[x], m["pi"].rec)
  BY <1>3, <1>4, LessKeepsAll
<1>6. Alike(new, m[x])
  BY DEF Less
<1> QED
  BY <1>2, <1>5, <1>6, Turns

LEMMA InUse ==
    ASSUME IInv, NEW x \in open
    PROVE  m[x] \in Message /\ Sound(m[x]) /\ Answered(m[x], got[x])
<1> QED
  BY DEF IInv, TypeOK, Opened

LEMMA endpeerentsKeeps ==
    ASSUME IInv, NEW x \in Both, endpeerents(x)
    PROVE  IInv'
<1> QED
  BY InUse, endpeerentsIs, Lessens DEF endpeerents

LEMMA endribentsKeeps ==
    ASSUME IInv, endribents
    PROVE  IInv'
<1> QED
  BY InUse, endribentsIs, Lessens DEF endribents

LEMMA getpiKeeps ==
    ASSUME IInv, NEW x \in Both, getpi(x)
    PROVE  IInv'
<1>1. x \in open /\ m[x] \in Message /\ got' = got
  BY InUse DEF getpi
<1>2. /\ Less(Checked(m[x], {"F_IS_PI"}, WithHead(m[x])), m[x])
      /\ Less(Checked(m[x], {"F_IS_PI"}, m[x]), m[x])
  BY <1>1, RefuseIs, WithHeadIs, Same DEF Checked
<1> QED
  BY <1>1, <1>2, Lessens DEF getpi

LEMMA GetHeaderKeeps ==
    ASSUME IInv, GetHeader
    PROVE  IInv'
<1> DEFINE msg == m["cur"]
<1>1. "cur" \in open /\ msg \in Message /\ got' = got
  BY InUse DEF GetHeader
<1> HIDE DEF msg
<1>2. \A err \in {"EBADBGP4MPHDR", "EAFINOTSUP", "EBADZEBRAHDR", "EINVOP"} :
         Less(Fail(msg, err), msg)
  BY <1>1, FailIs DEF Errors
<1>3. Less(Refuse(msg), msg) /\ Less(msg, msg)
  BY <1>1, RefuseIs, Same
<1>4. Less(Bgp4mpHeader(msg), msg)
  BY <1>2, <1>3 DEF Bgp4mpHeader
<1>5. Less(ZebraHeader(msg), msg)
  BY <1>2, <1>3 DEF ZebraHeader
<1>6. Less(ZebraUnwrapped(msg), msg)
  BY <1>2, <1>3 DEF ZebraUnwrapped
<1>7. \A new \in Bgp4mpUnwrapped(msg) : Less(new, msg)
  BY <1>2, <1>3, <1>4 DEF Bgp4mpUnwrapped
<1> QED
  BY <1>1, <1>4, <1>5, <1>6, <1>7, Lessens DEF GetHeader, msg

\* What getribents makes of a message, and when it succeeds.
LEMMA EntriesIs ==
    ASSUME NEW msg \in Message, NEW counted \in BOOLEAN, NEW new \in Entries(msg, counted)
    PROVE  /\ Less(new, msg)
           /\ new.err = "ENOERR" =>
                 \/ msg.rec.type = "TABLE_DUMP"
                 \/ /\ msg.rec.type = "TABLE_DUMPV2" /\ "F_NEEDS_PI" \in msg.flags
                    /\ msg.peer_index = "pi"
<1>1. \A err \in {"ENEEDSPEERIDX", "EBADRIBENT", "ERIBNOTSUP"} :
         Less(Fail(msg, err), msg) /\ Fail(msg, err).err # "ENOERR"
  BY FailIs DEF Errors
<1>2. Less(Refuse(msg), msg) /\ Refuse(msg).err # "ENOERR" /\ Less(msg, msg)
  BY RefuseIs, Same
<1>3. msg.peer_index \in {"none", "pi"}
  BY DEF Message
<1>4. CASE msg.rec.type = "TABLE_DUMPV2"
  BY <1>1, <1>2, <1>3, <1>4 DEF Entries, Allowed
<1>5. CASE msg.rec.type = "TABLE_DUMP"
  BY <1>1, <1>2, <1>5 DEF Entries
<1>6. CASE msg.rec.type \notin {"TABLE_DUMPV2", "TABLE_DUMP"}
  BY <1>2, <1>6 DEF Entries
<1> QED
  BY <1>4, <1>5, <1>6

LEMMA getribentsKeeps ==
    ASSUME IInv, NEW counted \in BOOLEAN, getribents(counted)
    PROVE  IInv'
<1>1. "cur" \in open /\ m["cur"] \in Message /\ got' = got
  BY InUse DEF getribents
<1> QED
  BY <1>1, EntriesIs, Lessens DEF getribents

LEMMA NothingIs ==
    Nothing \in Answers /\ Nothing.items = <<>> /\ ~Nothing.null /\ Len(<<>>) = 0
<1> QED
  BY EmptySeq DEF Nothing, Answers

\* A peer index whose iteration was started, at the first peer.
LEMMA RestartedIs ==
    ASSUME NEW msg \in Message, Sound(msg), Allowed(msg, {"F_IS_PI"}), NEW new,
           new = startpeerents_(msg)
    PROVE  /\ new \in Message /\ Alike(new, msg) /\ Sound(new) /\ Answered(new, Nothing)
           /\ new.rec = msg.rec /\ "F_RE" \notin new.flags
           /\ new.flags \ {"F_PE"} = msg.flags \ {"F_PE"}
<1>1. /\ Alike(new, msg) /\ new.at = 0 /\ "F_PE" \in new.flags
      /\ new.flags \subseteq msg.flags \cup {"F_PE"}
  BY startpeerentsIs
<1>2. "F_RE" \notin msg.flags /\ msg.rec \in Recs /\ "F_IS_PI" \in msg.flags
  BY FlagsAre DEF Sound, Own, Allowed
<1>3. /\ "F_IS_PI" \in new.flags /\ "F_RE" \notin new.flags /\ new.rec = msg.rec
      /\ new \in Message /\ new.flags \ {"F_PE"} = msg.flags \ {"F_PE"}
  BY <1>1, <1>2 DEF Alike
<1>4. Sound(new)
  BY <1>1, <1>3, AlikeSound
<1>5. Answered(new, Nothing)
  <2>1. new.rec.items \in Seq(Items) /\ Len(new.rec.items) \in Nat
    BY <1>2, <1>3, RecordIs
  <2>2. SubSeq(new.rec.items, 1, 0) = <<>>
    BY <2>1, SubSeqEmpty
  <2> QED
    BY <1>1, <1>3, <2>1, <2>2, NothingIs DEF Answered
<1> QED
  BY <1>1, <1>3, <1>4, <1>5

LEMMA startpeerentsKeeps ==
    ASSUME IInv, NEW x \in Both, startpeerents(x)
    PROVE  IInv'
<1> DEFINE new == startpeerents_(m[x])
<1>1. /\ x \in open /\ m[x] \in Message /\ Sound(m[x]) /\ Answered(m[x], got[x])
      /\ Becomes(x, new)
  BY InUse DEF startpeerents
<1>2. CASE Allowed(m[x], {"F_IS_PI"})
  <2>1. /\ Alike(new, m[x]) /\ Sound(new) /\ Answered(new, Nothing)
        /\ "F_RE" \notin new.flags
    BY <1>1, <1>2, RestartedIs
  <2>2. got' = [got EXCEPT ![x] = Nothing]
    BY <1>2 DEF startpeerents
  <2> HIDE DEF new
  <2>3. x = "cur" => NamedBy(new, Nothing, m["pi"].rec)
    BY <2>1 DEF NamedBy
  <2> QED
    BY <1>1, <2>1, <2>2, <2>3, NothingIs, Turns
<1>3. CASE ~ Allowed(m[x], {"F_IS_PI"})
  <2>1. Less(new, m[x]) /\ got' = got
    <3>1. got' = [got EXCEPT ![x] = got[x]] /\ got \in [Both -> Answers]
      BY <1>3 DEF startpeerents, IInv, TypeOK
    <3> QED
      BY <1>1, <1>3, <3>1, startpeerentsIs
  <2> HIDE DEF new
  <2> QED
    BY <1>1, <2>1, Lessens
<1> QED
  BY <1>2, <1>3

LEMMA nextpeerentKeeps ==
    ASSUME IInv, NEW x \in Both, nextpeerent(x)
    PROVE  IInv'
<1> DEFINE msg == m[x]
           items == msg.rec.items
           g == got[x]
<1>1. /\ x \in open /\ msg \in Message /\ Sound(msg) /\ Answered(msg, g)
      /\ g \in Answers /\ got \in [Both -> Answers]
  BY InUse DEF nextpeerent, IInv, TypeOK
<1>2. CASE ~ Allowed(msg, {"F_PE"})
  BY <1>1, <1>2, RefuseIs, Lessens DEF nextpeerent
<1>3. ASSUME Allowed(msg, {"F_PE"})
      PROVE  /\ msg.err = "ENOERR" /\ "F_PE" \in msg.flags /\ "F_RE" \notin msg.flags
             /\ "F_IS_PI" \in msg.flags /\ msg.at \in Nat /\ msg.at <= Len(items)
             /\ msg.rec.cut # "item" =>
                   g.items = SubSeq(items, 1, msg.at) /\ (g.null => msg.at = Len(items))
             /\ items \in Seq(Items) /\ Len(items) \in Nat
  <2>1. msg.err = "ENOERR" /\ "F_PE" \in msg.flags /\ "F_IS_PI" \in msg.flags
    BY <1>1, <1>3 DEF Allowed, Sound
  <2>2. "F_RE" \notin msg.flags /\ msg.rec \in Recs
    BY <1>1, <2>1, FlagsAre DEF Sound, Own
  <2> QED
    BY <1>1, <2>1, <2>2, RecordIs DEF Answered, Message
<1>4. CASE Allowed(msg, {"F_PE"}) /\ msg.rec.cut # "item" /\ msg.at >= Len(items)
  <2> DEFINE h == [g EXCEPT !.null = TRUE]
  <2>1. Becomes(x, msg) /\ got' = [got EXCEPT ![x] = h]
    BY <1>4 DEF nextpeerent
  <2>2. h \in Answers /\ h.items = g.items
    BY <1>1 DEF Answers
  <2> HIDE DEF h
  <2>3. Answered(msg, h)
    BY <1>3, <1>4, <2>2 DEF Answered
  <2>4. x = "cur" => NamedBy(msg, h, m["pi"].rec)
    BY <1>3, <1>4 DEF NamedBy
  <2>5. Alike(msg, msg)
    BY <1>1, Same DEF Less
  <2> QED
    BY <1>1, <2>1, <2>2, <2>3, <2>4, <2>5, Turns
<1>5. CASE Allowed(msg, {"F_PE"}) /\ msg.rec.cut = "item" /\ Behind(msg.rec, msg.at + 1)
  <2> DEFINE new == [msg EXCEPT !.at = Len(items)]
  <2>1. Strays(x, new, {"beyond"}) /\ got' = got
    BY <1>5 DEF nextpeerent
  <2>2. /\ Alike(new, msg) /\ new.at = Len(items) /\ new.flags = msg.flags
        /\ new.err = msg.err /\ new.rec = msg.rec
    BY <1>1, <1>3, <1>5 DEF Alike, Message
  <2> HIDE DEF new
  <2>3. Sound(new)
    BY <1>1, <1>3, <1>5, <2>2, AlikeSound DEF Sound
  <2>4. Answered(new, g)
    BY <1>3, <1>5, <2>2 DEF Answered
  <2>5. x = "cur" => NamedBy(new, g, m["pi"].rec)
    BY <1>3, <1>5, <2>2 DEF NamedBy
  <2>6. BadIndex
    BY <1>1, <1>3, <1>5 DEF BadIndex, WellFormed
  <2>7. got' = [got EXCEPT ![x] = g] /\ {"beyond"} \in SUBSET {"beyond"}
    BY <1>1, <2>1
  <2> QED
    BY <1>1, <2>1, <2>2, <2>3, <2>4, <2>5, <2>6, <2>7, TurnsOrStrays
<1>6. CASE /\ Allowed(msg, {"F_PE"}) /\ ~(msg.rec.cut # "item" /\ msg.at >= Len(items))
           /\ ~(msg.rec.cut = "item" /\ Behind(msg.rec, msg.at + 1))
  <2> DEFINE at == msg.at + 1
             new == [msg EXCEPT !.at = at]
             h == [g EXCEPT !.items = Append(@, items[at])]
  <2>1. Becomes(x, new) /\ got' = [got EXCEPT ![x] = h]
    BY <1>6 DEF nextpeerent
  <2>0. msg.at \in 0..Len(items) - 1
    BY <1>3, <1>6 DEF Behind
  <2>2. at \in Nat /\ at \in 1..Len(items) /\ items[at] \in Items
    BY <1>3, <1>6, <2>0, ElementOfSeq
  <2>3. msg.rec.cut # "item" => Append(g.items, items[at]) = SubSeq(items, 1, at)
    <3>1. msg.rec.cut # "item" => g.items = SubSeq(items, 1, msg.at)
      BY <1>3, <1>6
    <3> QED
      BY <1>3, <1>6, <2>0, <3>1, AppendFront
  <2>4. Append(g.items, items[at]) \in Seq(Returned)
    BY <1>1, <2>2, AppendProperties DEF Answers, Returned
  <2>5. /\ h \in Answers /\ h.null = g.null
        /\ msg.rec.cut # "item" => h.items = SubSeq(items, 1, at)
    BY <1>1, <2>3, <2>4 DEF Answers
  <2>6. Alike(new, msg) /\ new.at = at /\ new.flags = msg.flags /\ new.err = msg.err
        /\ new.rec = msg.rec
    BY <1>1, <2>2 DEF Alike, Message
  <2> HIDE DEF at, new, h
  <2>7. Sound(new)
    BY <1>1, <1>3, <1>6, <2>6, AlikeSound DEF Sound
  <2>8. msg.rec.cut # "item" => ~g.null
    BY <1>3, <1>6, <2>0
  <2>9. Answered(new, h)
    BY <1>3, <1>6, <2>2, <2>5, <2>6, <2>8 DEF Answered
  <2>10. x = "cur" => NamedBy(new, h, m["pi"].rec)
    BY <1>3, <1>6, <2>6 DEF NamedBy
  <2> QED
    BY <1>1, <2>1, <2>5, <2>6, <2>7, <2>9, <2>10, Turns
<1> QED
  BY <1>2, <1>4, <1>5, <1>6

LEMMA startribentsKeeps ==
    ASSUME IInv, NEW counted \in BOOLEAN, startribents(counted)
    PROVE  IInv'
<1> DEFINE msg == m["cur"]
           e == endpending(msg)
<1>1. /\ "cur" \in open /\ msg \in Message /\ Sound(msg) /\ Answered(msg, got["cur"])
      /\ got \in [Both -> Answers]
  BY InUse DEF startribents, IInv, TypeOK
<1>2. PICK en \in Entries(e, counted) :
         Becomes("cur", [en EXCEPT !.flags = @ \cup {"F_RE"}, !.at = 0])
  BY DEF startribents
<1>3. Less(e, msg) /\ e \in Message
  BY <1>1, endpendingIs DEF Less, Alike
<1> HIDE DEF e
<1>4. /\ Less(en, e) /\ en \in Message
      /\ en.err = "ENOERR" =>
            \/ e.rec.type = "TABLE_DUMP"
            \/ /\ e.rec.type = "TABLE_DUMPV2" /\ "F_NEEDS_PI" \in e.flags
               /\ e.peer_index = "pi"
  BY <1>3, EntriesIs DEF Less, Alike
<1> DEFINE f == [en EXCEPT !.flags = @ \cup {"F_RE"}]
           new == [f EXCEPT !.at = 0]
<1>5. /\ Alike(f, en) /\ f.flags = en.flags \cup {"F_RE"} /\ f.err = en.err /\ f \in Message
  BY <1>4, FlagIs DEF Alike
<1>6. Becomes("cur", new)
  BY <1>2
<1> HIDE DEF f
<1>7. Alike(new, f) /\ new.at = 0 /\ new.flags = f.flags /\ new.err = f.err
  BY <1>5 DEF Alike, Message
<1> HIDE DEF new
<1>8. Alike(new, msg) /\ new.rec = msg.rec
  BY <1>3, <1>4, <1>5, <1>7 DEF Less, Alike
<1>9. new.err = "ENOERR" =>
         /\ "F_PE" \notin new.flags /\ msg.err = "ENOERR"
         /\ \/ new.rec.type = "TABLE_DUMP"
            \/ /\ new.rec.type = "TABLE_DUMPV2" /\ "F_NEEDS_PI" \in new.flags
               /\ new.peer_index = "pi"
  <2>1. SUFFICES ASSUME new.err = "ENOERR"
                 PROVE  /\ "F_PE" \notin new.flags /\ msg.err = "ENOERR"
                        /\ \/ new.rec.type = "TABLE_DUMP"
                           \/ /\ new.rec.type = "TABLE_DUMPV2" /\ "F_NEEDS_PI" \in new.flags
                              /\ new.peer_index = "pi"
    OBVIOUS
  <2>2. en.err = "ENOERR" /\ msg.err = "ENOERR"
    BY <1>5, <1>7, <1>8, <2>1 DEF Alike
  <2>3. \/ new.rec.type = "TABLE_DUMP"
        \/ /\ new.rec.type = "TABLE_DUMPV2" /\ "F_NEEDS_PI" \in new.flags
           /\ new.peer_index = "pi"
    BY <1>3, <1>4, <1>8, <2>2 DEF Less, Alike
  <2>4. "F_IS_PI" \notin msg.flags
    BY <1>1, <1>8, <2>3, FlagsAre DEF Sound, Own, Alike
  <2>5. "F_PE" \notin msg.flags
    BY <1>1, <2>4 DEF Sound
  <2>6. "F_PE" \notin new.flags
    BY <1>3, <1>4, <1>5, <1>7, <2>5 DEF Less
  <2> QED
    BY <2>2, <2>3, <2>6
<1>10. "F_PE" \in new.flags => "F_IS_PI" \in new.flags
  <2>1. "F_PE" \in new.flags => "F_PE" \in msg.flags
    BY <1>3, <1>4, <1>5, <1>7 DEF Less
  <2> QED
    BY <1>1, <1>8, <2>1 DEF Sound, Alike
<1>11. Sound(new)
  BY <1>1, <1>8, <1>9, <1>10, AlikeSound
<1>12. CASE msg.err = "ENOERR"
  <2>1. got' = [got EXCEPT !["cur"] = Nothing]
    BY <1>12 DEF startribents
  <2>2. Len(new.rec.items) \in Nat
    BY <1>1, <1>8, RecordIs DEF Sound
  <2>3. Answered(new, Nothing) /\ NamedBy(new, Nothing, m["pi"].rec)
    BY <1>7, <1>9, <2>2, NothingIs DEF Answered, NamedBy
  <2> QED
    BY <1>1, <1>6, <1>8, <1>11, <2>1, <2>3, NothingIs, Turns
<1>13. CASE msg.err # "ENOERR"
  <2>1. got' = [got EXCEPT !["cur"] = got["cur"]] /\ got["cur"] \in Answers
    BY <1>1, <1>13 DEF startribents, Both
  <2>2. Answered(new, got["cur"]) /\ NamedBy(new, got["cur"], m["pi"].rec)
    BY <1>9, <1>13 DEF Answered, NamedBy
  <2> QED
    BY <1>1, <1>6, <1>8, <1>11, <2>1, <2>2, Turns
<1> QED
  BY <1>12, <1>13

-----------------------------------------------------------------------------
(* Reading and linking *)

\* What the two messages hold.
LEMMA HeldIs ==
    ASSUME NEW mm
    PROVE  Held(mm) = {mm["cur"].buf, mm["cur"].pitab.heap,
                       mm["pi"].buf, mm["pi"].pitab.heap} \ {0}
<1> DEFINE Of(x) == {mm[x].buf, mm[x].pitab.heap}
<1>1. Held(mm) = (UNION {Of(x) : x \in Both}) \ {0}
  BY DEF Held
<1>2. UNION {Of(x) : x \in Both} = Of("cur") \cup Of("pi")
  <2> HIDE DEF Of
  <2> QED
    BY DEF Both
<1> QED
  BY <1>1, <1>2

\* An allocation is none that is held or was freed.
LEMMA FreshIs ==
    ASSUME NEW mm, NEW a, NEW b, NEW c, NEW d, Held(mm) \cup freed \subseteq {a, b, c, d}
    PROVE  Fresh(mm) \in 1..7 /\ Fresh(mm) \notin Held(mm) \cup freed
<1> DEFINE S == 1..7 \ (Held(mm) \cup freed)
<1>1. S # {}
  <2>1. SUFFICES ASSUME S = {} PROVE FALSE
    OBVIOUS
  <2>2. \A i \in 1..7 : i \in {a, b, c, d}
    BY <2>1
  <2>3. 1 \in 1..7 /\ 2 \in 1..7 /\ 3 \in 1..7 /\ 4 \in 1..7 /\ 5 \in 1..7
    OBVIOUS
  <2> HIDE DEF S
  <2>4. {1, 2, 3, 4, 5} \subseteq {a, b, c, d}
    BY <2>2, <2>3
  <2> QED
    BY <2>4
<1>2. S \in SUBSET Nat
  OBVIOUS
<1>3. Min(S) \in S
  BY <1>1, <1>2, MinIsLeast
<1> QED
  BY <1>3 DEF Fresh

\* A record that was read.
LEMMA ReadIs ==
    ASSUME NEW x \in Both, NEW r \in Recs, m \in [Both -> Message], Owned
    PROVE  LET n == Read(m, x, r)
           IN  /\ n \in [Both -> Message] /\ \A y \in Both : y # x => n[y] = m[y]
               /\ n[x].rec = r /\ n[x].flags = mrtflags(r) \cup {"F_RD"}
               /\ n[x].pitab = NoTable /\ n[x].peer_index = "none"
               /\ n[x].buf # 0 => n[x].buf \notin Held(m) \cup freed
               /\ Sound(n[x]) /\ \A g : Answered(n[x], g)
<1> DEFINE buf == IF r.big THEN Fresh(m) ELSE 0
           flags == mrtflags(r) \cup {"F_RD"}
           new == [Closed EXCEPT !.flags = flags, !.rec = r, !.buf = buf,
                                 !.picount = m[x].picount]
<1>1. Fresh(m) \in 1..7 /\ Fresh(m) \notin Held(m) \cup freed
  BY HeldIs, FreshIs DEF Owned
<1>2. buf \in Nat /\ (buf # 0 => buf \notin Held(m) \cup freed)
  BY <1>1
<1>3. flags \in SUBSET Flags /\ "F_PE" \notin flags /\ "F_RE" \notin flags
      /\ flags \ Own = mrtflags(r)
  BY FlagsAre DEF Flags, Own
<1>4. NoTable \in Pitab /\ m[x].picount \in Nat
  BY DEF NoTable, Pitab, Message, Cells
<1>5. Read(m, x, r) = [m EXCEPT ![x] = new]
  BY DEF Read
<1> HIDE DEF flags, buf
<1>6. /\ new.flags = flags /\ new.rec = r /\ new.buf = buf /\ new.pitab = NoTable
      /\ new.peer_index = "none"
  BY DEF Closed
<1>7. new \in Message
  BY <1>2, <1>3, <1>4 DEF Closed, Message, Errors
<1> HIDE DEF new
<1>8. Sound(new)
  BY <1>3, <1>6 DEF Sound
<1>9. \A g : Answered(new, g)
  BY <1>3, <1>6 DEF Answered
<1>10. /\ Read(m, x, r) \in [Both -> Message] /\ Read(m, x, r)[x] = new
       /\ \A y \in Both : y # x => Read(m, x, r)[y] = m[y]
  BY <1>5, <1>7
<1> QED
  BY <1>2, <1>6, <1>8, <1>9, <1>10 DEF flags

\* What linking a record makes of a peer index: it has a table, or an error, or an
\* iteration that was started over.
Indexed(a, pi, fresh, memory) ==
    /\ a \in Message /\ a.rec = pi.rec /\ a.buf = pi.buf
    /\ a.flags \ {"F_PE"} = pi.flags \ {"F_PE"}
    /\ a.pitab.heap \in {pi.pitab.heap, 0, fresh}
    /\ Sound(a)
    /\ IF NoRoom(pi, memory) THEN Answered(a, Nothing)
                             ELSE \A g : Answered(pi, g) => Answered(a, g)
    /\ Links(pi, memory) => a.pitab # NoTable

\* A peer index where the iteration over peers was started and ended.
LEMMA StartedIs ==
    ASSUME NEW pi \in Message, Sound(pi), Allowed(pi, {"F_IS_PI"}), NEW e,
           e = endpeerents_(startpeerents_(pi))
    PROVE  /\ e \in Message /\ Alike(e, pi) /\ Sound(e)
           /\ "F_IS_PI" \in e.flags /\ "F_RE" \notin e.flags
           /\ (e.err = "ENOERR") = (pi.rec.cut # "head")
           /\ e.err = "ENOERR" => "F_PE" \notin e.flags
           /\ e.flags \ {"F_PE"} = pi.flags \ {"F_PE"}
<1> DEFINE s == startpeerents_(pi)
<1>1. /\ Alike(s, pi) /\ "F_PE" \in s.flags /\ s.flags \subseteq pi.flags \cup {"F_PE"}
      /\ (s.err = "ENOERR") = (pi.rec.cut # "head") /\ s \in Message
  BY startpeerentsIs DEF Alike
<1> HIDE DEF s
<1>2. /\ Less(e, s) /\ (e.err = "ENOERR") = (s.err = "ENOERR") /\ e \in Message
      /\ s.err = "ENOERR" => e.flags = s.flags \ {"F_PE"}
  <2>1. e = endpeerents_(s)
    BY DEF s
  <2>2. Allowed(s, {"F_PE"}) <=> s.err = "ENOERR"
    BY <1>1 DEF Allowed
  <2>3. Less(e, s) /\ e \in Message
    BY <1>1, <2>1, endpeerentsIs DEF Less, Alike
  <2>4. s.err = "ENOERR" => e.err = "ENOERR" /\ e.flags = s.flags \ {"F_PE"}
    BY <1>1, <2>1, <2>2, endpeerentsIs
  <2>5. s.err # "ENOERR" => e.err # "ENOERR"
    BY <1>1, <2>1, <2>2, endpeerentsIs
  <2> QED
    BY <2>3, <2>4, <2>5
<1>3. Alike(e, pi)
  BY <1>1, <1>2 DEF Less, Alike
<1>4. "F_IS_PI" \in pi.flags /\ "F_IS_PI" \in e.flags
  <2>1. "F_IS_PI" \in pi.flags
    BY DEF Allowed
  <2>2. e.flags \ {"F_PE", "F_RE"} = pi.flags \ {"F_PE", "F_RE"}
    BY <1>3 DEF Alike
  <2>3. "F_IS_PI" \notin {"F_PE", "F_RE"}
    OBVIOUS
  <2> QED
    BY <2>1, <2>2, <2>3
<1>5. "F_RE" \notin pi.flags
  <2>1. pi.flags \ Own = mrtflags(pi.rec) /\ pi.err = "ENOERR"
    BY DEF Sound, Allowed
  <2>2. pi.rec.type = "TABLE_DUMPV2" /\ "F_NEEDS_PI" \notin pi.flags
    BY <1>4, <2>1, FlagsAre DEF Own
  <2> QED
    BY <2>1, <2>2 DEF Sound
<1>6. "F_RE" \notin e.flags
  BY <1>1, <1>2, <1>5 DEF Less
<1>7. Sound(e)
  BY <1>3, <1>4, <1>6, AlikeSound
<1>8. e.flags \ {"F_PE"} = pi.flags \ {"F_PE"}
  BY <1>3, <1>5, <1>6 DEF Alike
<1>9. e.err = "ENOERR" => "F_PE" \notin e.flags
  BY <1>2
<1>10. (e.err = "ENOERR") = (pi.rec.cut # "head")
  BY <1>1, <1>2
<1> QED
  BY <1>2, <1>3, <1>4, <1>6, <1>7, <1>8, <1>9, <1>10

\* The table fits the peer index that it is stored in.
LEMMA FullIs ==
    ASSUME NEW pi \in Message, Sound(pi), NEW e, NEW h \in Nat, NEW memory,
           e \in Message, Alike(e, pi), Sound(e), e.err = "ENOERR",
           "F_IS_PI" \in e.flags, "F_RE" \notin e.flags, "F_PE" \notin e.flags,
           e.flags \ {"F_PE"} = pi.flags \ {"F_PE"}
    PROVE  Indexed([e EXCEPT !.pitab = [heap |-> h, pos |-> Table(pi)],
                             !.picount = pi.rec.count, !.at = Len(pi.rec.items)], pi, h, memory)
<1> DEFINE tab == [heap |-> h, pos |-> Table(pi)]
           count == pi.rec.count
           at == Len(pi.rec.items)
           full == [e EXCEPT !.pitab = tab, !.picount = count, !.at = at]
<1>1. e.rec = pi.rec /\ e.buf = pi.buf
  BY DEF Alike
<1>2. "F_IS_PI" \in mrtflags(pi.rec) /\ pi.rec \in Recs
  BY <1>1 DEF Sound, Own
<1>3. /\ Table(pi) \in Seq(Cells) /\ Table(pi) # NoTable.pos /\ count \in Nat /\ at \in Nat
  BY <1>2, TableIs, RecordIs
<1>4. tab \in Pitab /\ tab.pos = Table(pi) /\ tab.heap = h /\ tab # NoTable
  BY <1>3 DEF Pitab
<1> HIDE DEF tab, count, at
<1>5. /\ full.rec = e.rec /\ full.buf = e.buf /\ full.pitab = tab /\ full.picount = count
      /\ full.flags = e.flags /\ full.err = e.err /\ full.peer_index = e.peer_index
      /\ full.at = at
  BY DEF Message
<1>6. full \in Message
  BY <1>3, <1>4 DEF Message
<1> HIDE DEF full
<1>7. Table(full) = Table(pi)
  BY <1>1, <1>5 DEF Table
<1>8. Sound(full)
  <2>1. full.rec \in Recs /\ full.flags \ Own = mrtflags(full.rec)
    BY <1>5 DEF Sound
  <2>2. full.pitab.pos = Table(full) /\ full.picount = full.rec.count
    BY <1>1, <1>4, <1>5, <1>7 DEF count
  <2> QED
    BY <1>5, <2>1, <2>2 DEF Sound
<1>9. \A g : Answered(full, g)
  BY <1>5 DEF Answered
<1>10. full.rec = pi.rec /\ full.buf = pi.buf /\ full.pitab.heap = h /\ full.pitab # NoTable
       /\ full.flags = e.flags
  BY <1>1, <1>4, <1>5
<1>11. Indexed(full, pi, h, memory)
  BY <1>6, <1>8, <1>9, <1>10 DEF Indexed
<1> QED
  BY <1>11 DEF full, tab, count, at

\* Linking the record that is read.
LEMMA LinkedIs ==
    ASSUME NEW mm \in [Both -> Message], Sound(mm["pi"]), Fresh(mm) \in 1..7, NEW memory
    PROVE  LET n == Linked(mm, "cur", "pi", memory)
           IN  /\ n \in [Both -> Message]
               /\ n["cur"] = [mm["cur"] EXCEPT !.peer_index = "pi"]
               /\ Indexed(n["pi"], mm["pi"], Fresh(mm), memory)
<1> DEFINE n == Linked(mm, "cur", "pi", memory)
           pi == mm["pi"]
           cur == [mm["cur"] EXCEPT !.peer_index = "pi"]
           s == startpeerents_(pi)
           h == IF pi.rec.count > FastPeers THEN Fresh(mm) ELSE 0
           e == endpeerents_(s)
           full == [e EXCEPT !.pitab = [heap |-> h, pos |-> Table(pi)],
                             !.picount = pi.rec.count, !.at = Len(pi.rec.items)]
           new == CASE pi.pitab # NoTable -> pi
                    [] pi.pitab = NoTable /\ ~Allowed(pi, {"F_IS_PI"}) -> s
                    [] NoRoom(pi, memory) -> s
                    [] pi.pitab = NoTable /\ Allowed(pi, {"F_IS_PI"}) /\ e.err # "ENOERR" -> e
                    [] OTHER -> full
<1>1. n = [[mm EXCEPT !["cur"].peer_index = "pi"] EXCEPT !["pi"] = new]
  BY DEF Linked
<1>2. /\ pi \in Message /\ mm["cur"] \in Message
      /\ "cur" \in Both /\ "pi" \in Both /\ "cur" # "pi"
  BY DEF Both
<1>3. cur \in Message
  BY <1>2 DEF Message
<1>4. Indexed(pi, pi, Fresh(mm), memory) \/ pi.pitab = NoTable
  BY <1>2 DEF Indexed, NoRoom
<1>5. ASSUME ~Allowed(pi, {"F_IS_PI"}), pi.pitab = NoTable
      PROVE  Indexed(s, pi, Fresh(mm), memory) /\ ~NoRoom(pi, memory)
  <2>1. /\ Less(s, pi) /\ Alike(s, pi) /\ s.err # "ENOERR" /\ ~Links(pi, memory)
        /\ ~NoRoom(pi, memory)
    BY <1>2, <1>5, startpeerentsIs DEF Links, NoRoom
  <2>2. s.flags = pi.flags
    BY <1>2, <1>5, RefuseIs DEF startpeerents_, Checked
  <2> HIDE DEF s
  <2>3. s \in Message /\ s.rec = pi.rec /\ s.buf = pi.buf /\ s.pitab = pi.pitab
    BY <2>1 DEF Alike
  <2>4. Sound(s) /\ \A g : Answered(pi, g) => Answered(s, g)
    BY <1>2, <2>1, LessKeepsAll
  <2> QED
    BY <2>1, <2>2, <2>3, <2>4 DEF Indexed
<1>6. ASSUME NoRoom(pi, memory)
      PROVE  Indexed(s, pi, Fresh(mm), memory) /\ pi.pitab = NoTable /\ Allowed(pi, {"F_IS_PI"})
  <2>1. pi.pitab = NoTable /\ Allowed(pi, {"F_IS_PI"}) /\ ~Links(pi, memory)
    BY <1>6 DEF NoRoom, Links
  <2>2. /\ s \in Message /\ Alike(s, pi) /\ Sound(s) /\ Answered(s, Nothing)
        /\ s.flags \ {"F_PE"} = pi.flags \ {"F_PE"}
    BY <1>2, <2>1, RestartedIs
  <2> HIDE DEF s
  <2> QED
    BY <1>6, <2>1, <2>2 DEF Indexed, Alike
<1>7. ASSUME Allowed(pi, {"F_IS_PI"}), pi.pitab = NoTable, ~NoRoom(pi, memory)
      PROVE  Indexed(IF e.err # "ENOERR" THEN e ELSE full, pi, Fresh(mm), memory)
  <2>1. /\ e \in Message /\ Alike(e, pi) /\ Sound(e)
        /\ "F_IS_PI" \in e.flags /\ "F_RE" \notin e.flags
        /\ (e.err = "ENOERR") = (pi.rec.cut # "head")
        /\ e.err = "ENOERR" => "F_PE" \notin e.flags
        /\ e.flags \ {"F_PE"} = pi.flags \ {"F_PE"}
    BY <1>2, <1>7, StartedIs
  <2>2. h \in Nat /\ h \in {0, Fresh(mm)}
    OBVIOUS
  <2> HIDE DEF e, h
  <2>3. e.err # "ENOERR" => Indexed(e, pi, Fresh(mm), memory)
    <3>1. e.err # "ENOERR" => \A g : Answered(e, g)
      BY DEF Answered
    <3>2. e.err # "ENOERR" => ~Links(pi, memory)
      BY <1>7, <2>1 DEF Links
    <3>3. e.rec = pi.rec /\ e.buf = pi.buf /\ e.pitab = pi.pitab
      BY <2>1 DEF Alike
    <3> QED
      BY <1>7, <2>1, <3>1, <3>2, <3>3 DEF Indexed
  <2>4. e.err = "ENOERR" => Indexed(full, pi, h, memory)
    BY <1>2, <2>1, <2>2, FullIs
  <2> HIDE DEF full
  <2>5. e.err = "ENOERR" => Indexed(full, pi, Fresh(mm), memory)
    BY <2>2, <2>4 DEF Indexed
  <2> QED
    BY <2>3, <2>5
<1>8. /\ pi.pitab # NoTable => new = pi
      /\ pi.pitab = NoTable /\ ~Allowed(pi, {"F_IS_PI"}) /\ ~NoRoom(pi, memory) => new = s
      /\ pi.pitab = NoTable /\ Allowed(pi, {"F_IS_PI"}) /\ NoRoom(pi, memory) => new = s
      /\ pi.pitab = NoTable /\ Allowed(pi, {"F_IS_PI"}) /\ ~NoRoom(pi, memory) =>
            new = IF e.err # "ENOERR" THEN e ELSE full
  <2>1. NoRoom(pi, memory) => pi.pitab = NoTable /\ Allowed(pi, {"F_IS_PI"}) /\ e.err = "ENOERR"
    <3>1. NoRoom(pi, memory) => /\ pi.pitab = NoTable /\ Allowed(pi, {"F_IS_PI"})
                               /\ pi.rec.cut # "head"
      BY DEF NoRoom
    <3> QED
      BY <1>2, <3>1, StartedIs
  <2> HIDE DEF e, s, full, pi
  <2> QED
    BY <2>1
<1> HIDE DEF new, e, s, full
<1>9. Indexed(new, pi, Fresh(mm), memory)
  BY <1>4, <1>5, <1>6, <1>7, <1>8
<1>10. new \in Message
  BY <1>9 DEF Indexed
<1>11. n["pi"] = new /\ n["cur"] = cur /\ n \in [Both -> Message]
  BY <1>1, <1>2, <1>3, <1>10
<1> QED
  BY <1>9, <1>11

\* What the invariant says of the two messages.
LEMMA Facts ==
    ASSUME IInv
    PROVE  /\ m \in [Both -> Message] /\ got \in [Both -> Answers] /\ open \in SUBSET Both
           /\ freed \in SUBSET Nat /\ untold \in BOOLEAN /\ Owned /\ Opened /\ Named /\ Kept
           /\ freed \subseteq {m["cur"].buf, m["pi"].buf, m["pi"].pitab.heap} \ {0}
           /\ m["cur"].pitab.heap = 0 /\ 0 \notin freed
<1>1. /\ m \in [Both -> Message] /\ got \in [Both -> Answers] /\ open \in SUBSET Both
      /\ freed \in SUBSET Nat /\ untold \in BOOLEAN /\ Owned /\ Opened /\ Named /\ Kept
  BY DEF IInv, TypeOK
<1>2. m["cur"].pitab.heap = 0
  BY <1>1 DEF Owned, NoTable
<1>3. freed \subseteq {m["cur"].buf, m["pi"].buf, m["pi"].pitab.heap} \ {0}
  BY <1>1, <1>2, HeldIs DEF Owned
<1> QED
  BY <1>1, <1>2, <1>3

\* The record is read into curmsg, and perhaps linked to a peer index in use; the
\* client uses one that needs the peer index only if it is good, or was not told.
LEMMA CurRead ==
    ASSUME IInv, "cur" \notin open, NEW r \in Recs, NEW link \in BOOLEAN,
           NEW memory, link => "pi" \in open,
           Linking(link, Read(m, "cur", r), [got EXCEPT !["cur"] = Nothing], memory),
           open' \in {open, open \cup {"cur"}}, untold' \in BOOLEAN,
           "cur" \in open' /\ link /\ "F_NEEDS_PI" \in mrtflags(r) =>
              Links(m["pi"], memory) \/ untold'
    PROVE  IInv'
<1> DEFINE n == Read(m, "cur", r)
           c == m'["cur"]
           p == m'["pi"]
           pi == m["pi"]
           g == [got EXCEPT !["cur"] = Nothing]
           NewGot == IF link /\ NoRoom(pi, memory) THEN [g EXCEPT !["pi"] = Nothing] ELSE g
<1>0. /\ m' = IF link THEN Linked(n, "cur", "pi", memory) ELSE n
      /\ freed' = freed \cap Held(m')
      /\ stray' = If(link /\ Overruns(pi, memory), "beyond") /\ got' = NewGot
  BY DEF Linking
<1>1. /\ m \in [Both -> Message] /\ got \in [Both -> Answers] /\ open \in SUBSET Both
      /\ freed \in SUBSET Nat /\ Owned /\ Opened /\ Named /\ Kept
      /\ freed \subseteq {m["cur"].buf, m["pi"].buf, m["pi"].pitab.heap} \ {0}
      /\ 0 \notin freed
  BY Facts
<1>2. "cur" \in Both /\ "pi" \in Both /\ "cur" # "pi" /\ \A x \in Both : x \in {"cur", "pi"}
  BY DEF Both
<1>3. /\ n \in [Both -> Message] /\ n["pi"] = pi
      /\ n["cur"].rec = r /\ n["cur"].flags = mrtflags(r) \cup {"F_RD"}
      /\ n["cur"].pitab = NoTable /\ n["cur"].peer_index = "none"
      /\ n["cur"].buf # 0 => n["cur"].buf \notin Held(m) \cup freed
      /\ Sound(n["cur"])
  BY <1>1, <1>2, ReadIs
<1> HIDE DEF n
<1>4. "F_PE" \notin n["cur"].flags /\ "F_RE" \notin n["cur"].flags
  BY <1>3, FlagsAre DEF Own
<1>5. Held(n) \subseteq {n["cur"].buf, pi.buf, pi.pitab.heap} \ {0}
  BY <1>3, HeldIs DEF NoTable
<1>6. Fresh(n) \in 1..7 /\ Fresh(n) \notin Held(n) \cup freed
  <2>1. Held(n) \cup freed \subseteq
           {m["cur"].buf, m["pi"].buf, m["pi"].pitab.heap, n["cur"].buf}
    BY <1>1, <1>5
  <2> QED
    BY <2>1, FreshIs
<1>7. n["cur"].buf # 0 => n["cur"].buf \notin {pi.buf, pi.pitab.heap}
  BY <1>3, HeldIs
<1>8. "pi" \in open => Sound(pi) /\ Answered(pi, got["pi"])
                       /\ {pi.buf, pi.pitab.heap} \cap freed = {}
  BY <1>1 DEF Opened, Owned
<1>9. link => /\ m' \in [Both -> Message] /\ c = [n["cur"] EXCEPT !.peer_index = "pi"]
              /\ Indexed(p, pi, Fresh(n), memory)
  <2>1. SUFFICES ASSUME link PROVE /\ m' \in [Both -> Message]
                                   /\ c = [n["cur"] EXCEPT !.peer_index = "pi"]
                                   /\ Indexed(p, pi, Fresh(n), memory)
    OBVIOUS
  <2>2. m' = Linked(n, "cur", "pi", memory) /\ Sound(n["pi"])
    BY <1>0, <1>3, <1>8, <2>1
  <2> QED
    BY <1>3, <1>6, <2>2, LinkedIs
<1>10. ~link => m' = n
  BY <1>0
<1>11. /\ m' \in [Both -> Message] /\ c.flags = n["cur"].flags /\ c.buf = n["cur"].buf
       /\ c.rec = r /\ c.pitab = NoTable /\ (c.peer_index = "pi" => link)
  <2>1. CASE link
    <3>1. n["cur"] \in Message
      BY <1>2, <1>3
    <3> QED
      BY <1>3, <1>9, <2>1, <3>1 DEF Message
  <2>2. CASE ~link
    BY <1>3, <1>10, <2>2
  <2> QED
    BY <2>1, <2>2
<1>12. /\ "pi" \in open => Sound(p) /\ Answered(p, got'["pi"]) /\ p.buf = pi.buf
       /\ p.pitab.heap \in {pi.pitab.heap, 0, Fresh(n)}
       /\ "pi" \notin open => p = pi
       /\ got' \in [Both -> Answers]
  <2>1. /\ got' \in [Both -> Answers]
        /\ got'["pi"] = IF link /\ NoRoom(pi, memory) THEN Nothing ELSE got["pi"]
    <3> HIDE DEF pi
    <3> QED
      BY <1>0, <1>1, <1>2, NothingIs
  <2>2. CASE link
    BY <1>8, <1>9, <2>1, <2>2 DEF Indexed
  <2>3. CASE ~link
    BY <1>3, <1>8, <1>10, <2>1, <2>3
  <2> QED
    BY <2>1, <2>2, <2>3
<1>13. Sound(c) /\ \A any : Answered(c, any)
  <2>1. Sound(c)
    BY <1>3, <1>4, <1>11 DEF Sound
  <2>2. \A any : Answered(c, any)
    BY <1>4, <1>11 DEF Answered
  <2> QED
    BY <2>1, <2>2
<1>14. NeverStrays' /\ stray' \subseteq {"beyond"}
  <2>1. stray' = If(link /\ Overruns(pi, memory), "beyond")
    BY <1>0
  <2>2. link /\ Overruns(pi, memory) =>
           /\ "pi" \in open' /\ "F_IS_PI" \in p.flags /\ p.rec.cut # "no"
    BY <1>9 DEF Overruns, Indexed, Allowed
  <2> HIDE DEF p, pi
  <2> QED
    BY <2>1, <2>2 DEF If, NeverStrays, WellFormed, p
<1> HIDE DEF c, p, pi
<1>15. TypeOK'
  <2>1. open' \in SUBSET Both
    BY <1>1, <1>2
  <2> QED
    BY <1>0, <1>1, <1>11, <1>12, <1>14, <2>1 DEF TypeOK
<1>16. Opened'
  BY <1>1, <1>2, <1>12, <1>13 DEF Opened, c, p
<1>17. Named'
  BY <1>4, <1>11 DEF Named, NamedBy, c
<1>18. Owned'
  <2>1. freed' \subseteq Held(m') /\ freed' \subseteq freed
    BY <1>0
  <2>2. \A x \in open' : {m'[x].buf, m'[x].pitab.heap} \cap freed = {}
    <3>1. {c.buf, c.pitab.heap} \cap freed = {}
      BY <1>1, <1>3, <1>11 DEF NoTable
    <3>2. "pi" \in open => {p.buf, p.pitab.heap} \cap freed = {}
      BY <1>1, <1>6, <1>8, <1>12
    <3> QED
      BY <1>1, <1>2, <3>1, <3>2 DEF c, p
  <2>3. "pi" \in open /\ c.buf # 0 => c.buf \notin {p.buf, p.pitab.heap}
    <3>1. c.buf # 0 => c.buf \in Held(n)
      BY <1>11, HeldIs
    <3> QED
      BY <1>6, <1>7, <1>11, <1>12, <3>1
  <2> QED
    BY <1>2, <1>11, <2>1, <2>2, <2>3 DEF Owned, c, p
<1>19. Kept'
  <2>1. "pi" \notin open' => p.flags = {}
    BY <1>1, <1>2, <1>12 DEF Kept, pi
  <2>2. "cur" \in open' /\ c.peer_index = "pi" =>
           /\ "pi" \in open' /\ ("F_NEEDS_PI" \in c.flags => p.pitab # NoTable \/ untold')
    <3>1. SUFFICES ASSUME "cur" \in open', c.peer_index = "pi"
                   PROVE  /\ "pi" \in open'
                          /\ "F_NEEDS_PI" \in c.flags => p.pitab # NoTable \/ untold'
      OBVIOUS
    <3>2. link /\ "pi" \in open'
      BY <1>11, <3>1
    <3>3. "F_NEEDS_PI" \in c.flags => "F_NEEDS_PI" \in mrtflags(r)
      BY <1>3, <1>11
    <3>4. "F_NEEDS_PI" \in c.flags => Links(pi, memory) \/ untold'
      BY <3>1, <3>2, <3>3 DEF pi
    <3> QED
      BY <1>9, <3>2, <3>4 DEF Indexed
  <2> QED
    BY <2>1, <2>2 DEF Kept, c, p
<1> QED
  BY <1>14, <1>15, <1>16, <1>17, <1>18, <1>19 DEF IInv

LEMMA setmrtreadKeeps ==
    ASSUME IInv, NEW r \in Records, setmrtread(r)
    PROVE  IInv'
<1> DEFINE link == m["pi"].flags # {}
<1>1. r \in Recs /\ link \in BOOLEAN
  BY DEF Recs
<1>2. link => "pi" \in open
  BY Facts DEF Kept
<1>3. PICK memory \in BOOLEAN :
         /\ Linking(link, Read(m, "cur", r), [got EXCEPT !["cur"] = Nothing], memory)
         /\ untold' = (link /\ ~Links(m["pi"], memory) /\ "F_NEEDS_PI" \in mrtflags(r))
  BY DEF setmrtread
<1>4. "cur" \notin open /\ open' = open \cup {"cur"}
  BY DEF setmrtread
<1> HIDE DEF link
<1>5. /\ untold' \in BOOLEAN
      /\ link /\ "F_NEEDS_PI" \in mrtflags(r) => Links(m["pi"], memory) \/ untold'
  BY <1>1, <1>3
<1> QED
  BY <1>1, <1>2, <1>3, <1>4, <1>5, CurRead

LEMMA setmrtreadfromKeeps ==
    ASSUME IInv, NEW r \in Records, setmrtreadfrom(r)
    PROVE  IInv'
<1> DEFINE link == "F_NEEDS_PI" \in mrtflags(r) /\ "F_RD" \in m["pi"].flags
<1>1. r \in Recs /\ link \in BOOLEAN
  BY DEF Recs
<1>2. link => "pi" \in open
  BY Facts DEF Kept
<1>3. PICK memory \in BOOLEAN :
         /\ Linking(link, Read(m, "cur", r), [got EXCEPT !["cur"] = Nothing], memory)
         /\ open' = IF link /\ ~Links(m["pi"], memory) THEN open ELSE open \cup {"cur"}
  BY DEF setmrtreadfrom
<1>4. "cur" \notin open /\ untold' \in BOOLEAN
  BY DEF setmrtreadfrom
<1> HIDE DEF link
<1>5. /\ open' \in {open, open \cup {"cur"}}
      /\ "cur" \in open' /\ link => Links(m["pi"], memory)
  BY <1>3, <1>4
<1> QED
  BY <1>1, <1>2, <1>3, <1>4, <1>5, CurRead

\* A peer index is read when no record in use is linked to the one before.
LEMMA setmrtread_rKeeps ==
    ASSUME IInv, NEW x \in Both, NEW r \in Recs, setmrtread_r(x, r)
    PROVE  IInv'
<1>1. /\ x \notin open /\ m' = Read(m, x, r) /\ open' = open \cup {x}
      /\ freed' = freed \cap Held(m') /\ got' = [got EXCEPT ![x] = Nothing]
      /\ stray' = {} /\ untold' = (untold /\ x # "cur") /\ untold' \in BOOLEAN
  BY DEF setmrtread_r
<1>2. CASE x = "cur"
  <2>1. Linking(FALSE, Read(m, "cur", r), [got EXCEPT !["cur"] = Nothing], TRUE)
    BY <1>1, <1>2 DEF Linking, If
  <2> QED
    BY <1>1, <1>2, <2>1, CurRead
<1>3. CASE x = "pi"
  <2>1. /\ m \in [Both -> Message] /\ got \in [Both -> Answers] /\ open \in SUBSET Both
        /\ freed \in SUBSET Nat /\ untold \in BOOLEAN /\ Owned /\ Opened /\ Named /\ Kept
        /\ freed \subseteq {m["cur"].buf, m["pi"].buf, m["pi"].pitab.heap} \ {0}
        /\ 0 \notin freed
    BY Facts
  <2>2. "cur" \in Both /\ "pi" \in Both /\ "cur" # "pi" /\ \A y \in Both : y \in {"cur", "pi"}
    BY DEF Both
  <2> DEFINE c == m["cur"]
             p == m'["pi"]
  <2>3. /\ m' \in [Both -> Message] /\ m'["cur"] = c /\ p.pitab = NoTable
        /\ p.buf # 0 => p.buf \notin Held(m) \cup freed
        /\ Sound(p) /\ \A g : Answered(p, g)
    <3> DEFINE n == Read(m, "pi", r)
    <3>1. /\ n \in [Both -> Message] /\ \A y \in Both : y # "pi" => n[y] = m[y]
          /\ n["pi"].pitab = NoTable
          /\ n["pi"].buf # 0 => n["pi"].buf \notin Held(m) \cup freed
          /\ Sound(n["pi"]) /\ \A g : Answered(n["pi"], g)
      BY <2>1, <2>2, ReadIs
    <3>2. m' = n
      BY <1>1, <1>3
    <3> HIDE DEF n
    <3> QED
      BY <2>2, <3>1, <3>2
  <2>4. "pi" \notin open /\ ("cur" \in open => c.peer_index # "pi")
    BY <1>1, <1>3, <2>1 DEF Kept
  <2>5. "cur" \in open => /\ Sound(c) /\ Answered(c, got["cur"])
                          /\ {c.buf, c.pitab.heap} \cap freed = {}
    BY <2>1 DEF Opened, Owned
  <2>6. got'["cur"] = got["cur"] /\ got' \in [Both -> Answers]
    BY <1>1, <1>3, <2>1, <2>2, NothingIs
  <2> HIDE DEF c, p
  <2>7. TypeOK'
    BY <1>1, <1>3, <2>1, <2>2, <2>3, <2>6 DEF TypeOK
  <2>8. Opened'
    BY <1>1, <1>3, <2>1, <2>2, <2>3, <2>5, <2>6 DEF Opened, p
  <2>9. "cur" \in open => NamedBy(c, got["cur"], p.rec)
    <3>1. "cur" \in open => ~("F_RE" \in c.flags /\ c.err = "ENOERR" /\ c.rec.type = "TABLE_DUMPV2")
      BY <2>4, <2>5 DEF Sound
    <3> QED
      BY <3>1 DEF NamedBy
  <2>10. Named'
    BY <1>1, <1>3, <2>2, <2>3, <2>6, <2>9 DEF Named, p
  <2>11. Owned'
    <3>1. freed' \subseteq Held(m') /\ freed' \subseteq freed
      BY <1>1
    <3>2. {p.buf, p.pitab.heap} \cap freed = {}
      BY <2>1, <2>3 DEF NoTable
    <3>3. c.buf # 0 => c.buf \in Held(m)
      BY HeldIs DEF c
    <3>4. c.buf # 0 => c.buf \notin {p.buf, p.pitab.heap}
      BY <2>3, <3>3 DEF NoTable
    <3>5. c.pitab = NoTable
      BY <2>1 DEF Owned, c
    <3>6. \A y \in open' : {m'[y].buf, m'[y].pitab.heap} \cap freed' = {}
      BY <1>1, <1>3, <2>1, <2>2, <2>3, <2>5, <3>1, <3>2 DEF p
    <3> QED
      BY <2>3, <3>1, <3>4, <3>5, <3>6 DEF Owned, p
  <2>12. Kept'
    BY <1>1, <1>3, <2>2, <2>3, <2>4 DEF Kept
  <2> QED
    BY <1>1, <2>7, <2>8, <2>10, <2>11, <2>12 DEF IInv, NeverStrays
<1> QED
  BY <1>2, <1>3 DEF Both

LEMMA ReadFailsKeeps ==
    ASSUME IInv, NEW x \in Both, NEW r \in Recs, ReadFails(x, r)
    PROVE  IInv'
<1>1. /\ m \in [Both -> Message] /\ got \in [Both -> Answers] /\ open \in SUBSET Both
      /\ freed \in SUBSET Nat /\ untold \in BOOLEAN /\ Owned /\ Opened /\ Named /\ Kept
      /\ freed \subseteq {m["cur"].buf, m["pi"].buf, m["pi"].pitab.heap} \ {0}
      /\ m["cur"].pitab.heap = 0
  BY Facts
<1>2. x = "cur" /\ "cur" \notin open
  BY <1>1 DEF ReadFails, Kept, Both
<1>3. PICK new \in Unread(m, x, r) : Becomes(x, new)
  BY DEF ReadFails
<1>4. got' = got /\ m' = [m EXCEPT !["cur"] = new] /\ freed' = freed \cap Held(m')
      /\ open' = open /\ stray' = {} /\ untold' = untold
  BY <1>2, <1>3 DEF Becomes, Strays, ReadFails
<1>5. Fresh(m) \in 1..7
  <2>1. Held(m) \cup freed \subseteq
           {m["cur"].buf, m["pi"].buf, m["pi"].pitab.heap, m["cur"].pitab.heap}
    BY <1>1, HeldIs
  <2> QED
    BY <2>1, FreshIs
<1>6. new \in Message /\ new.pitab = NoTable
  <2> DEFINE old == m["cur"]
             buf == IF r.big THEN Fresh(m) ELSE 0
  <2>1. old \in Message /\ old.pitab = NoTable
    BY <1>1 DEF Owned, Both
  <2>2. buf \in Nat
    BY <1>5
  <2>3. new \in {[old EXCEPT !.rec = NoRecord], [old EXCEPT !.rec = r, !.buf = buf]}
    BY <1>2, <1>3 DEF Unread
  <2> HIDE DEF old, buf
  <2> QED
    BY <2>1, <2>2, <2>3 DEF Message
<1>7. m' \in [Both -> Message] /\ m'["pi"] = m["pi"] /\ m'["cur"] = new
  BY <1>1, <1>4, <1>6 DEF Both
<1>8. TypeOK'
  BY <1>1, <1>4, <1>7 DEF TypeOK
<1>9. \A y \in open : y = "pi" /\ m'[y] = m[y]
  BY <1>1, <1>2, <1>7 DEF Both
<1>10. Opened' /\ Named'
  BY <1>1, <1>2, <1>4, <1>9 DEF Opened, Named
<1>11. Owned'
  <2>1. freed' \subseteq Held(m') /\ freed' \subseteq freed
    BY <1>4
  <2>2. open' # Both
    BY <1>2, <1>4 DEF Both
  <2> QED
    BY <1>1, <1>4, <1>6, <1>7, <1>9, <2>1, <2>2 DEF Owned
<1>12. Kept'
  BY <1>1, <1>2, <1>4, <1>7 DEF Kept
<1> QED
  BY <1>4, <1>8, <1>10, <1>11, <1>12 DEF IInv, NeverStrays

-----------------------------------------------------------------------------
(* Closing, copying and linking messages *)

LEMMA mrtcloseKeeps ==
    ASSUME IInv, NEW x \in Both, mrtclose(x)
    PROVE  IInv'
<1> DEFINE mine == ({m[x].buf} \cup IF "F_IS_PI" \in m[x].flags THEN {m[x].pitab.heap} ELSE {})
                   \ {0}
           new == [Closed EXCEPT !.picount = m[x].picount, !.pitab = m[x].pitab]
<1>1. /\ x \in open /\ (x = "pi" => "cur" \notin open \/ m["cur"].peer_index # "pi")
      /\ m' = [m EXCEPT ![x] = new]
      /\ stray' = If(mine \cap freed # {}, "freed") /\ untold' = (untold /\ x # "cur")
      /\ freed' = (freed \cup mine) \cap Held(m') /\ open' = open \ {x}
      /\ got' = [got EXCEPT ![x] = Nothing]
  BY DEF mrtclose
<1>2. /\ m \in [Both -> Message] /\ got \in [Both -> Answers] /\ open \in SUBSET Both
      /\ freed \in SUBSET Nat /\ untold \in BOOLEAN /\ Owned /\ Opened /\ Named /\ Kept
      /\ m["cur"].pitab.heap = 0
  BY Facts
<1>3. /\ "cur" \in Both /\ "pi" \in Both /\ "cur" # "pi"
      /\ \A y \in Both : y \in {"cur", "pi"}
  BY DEF Both
<1>4. mine \subseteq {m[x].buf, m[x].pitab.heap} \ {0} /\ mine \subseteq Nat
  BY <1>2, <1>3 DEF Message, Pitab
<1>5. stray' = {}
  <2>1. mine \cap freed = {}
    BY <1>1, <1>2, <1>4 DEF Owned
  <2> HIDE DEF mine
  <2> QED
    BY <1>1, <2>1 DEF If
<1> HIDE DEF mine
<1>6. /\ new \in Message /\ new.pitab = m[x].pitab /\ new.flags = {}
      /\ new.peer_index = "none" /\ new.buf = 0
  BY <1>2, <1>3 DEF Closed, Message, Errors
<1> HIDE DEF new
<1>7. /\ m' \in [Both -> Message] /\ m'[x] = new /\ got' \in [Both -> Answers]
      /\ \A y \in Both : y # x => m'[y] = m[y] /\ got'[y] = got[y]
  BY <1>1, <1>2, <1>6, NothingIs
<1>8. TypeOK'
  BY <1>1, <1>2, <1>4, <1>5, <1>7 DEF TypeOK
<1>9. Opened'
  BY <1>1, <1>2, <1>7 DEF Opened
<1>10. Named'
  <2>1. SUFFICES ASSUME "cur" \in open' PROVE NamedBy(m'["cur"], got'["cur"], m'["pi"].rec)
    BY DEF Named
  <2>2. x = "pi" /\ "cur" \in open
    BY <1>1, <1>2, <1>3, <2>1
  <2>3. m'["cur"] = m["cur"] /\ Sound(m["cur"]) /\ m["cur"].peer_index # "pi"
    BY <1>1, <1>2, <1>3, <1>7, <2>2 DEF Opened
  <2>4. ~("F_RE" \in m["cur"].flags /\ m["cur"].err = "ENOERR"
          /\ m["cur"].rec.type = "TABLE_DUMPV2")
    BY <2>3 DEF Sound
  <2> QED
    BY <2>3, <2>4 DEF NamedBy
<1>11. Owned'
  <2>1. freed' \subseteq Held(m') /\ freed' \subseteq freed \cup mine
    BY <1>1
  <2>2. m'["cur"].pitab = NoTable
    BY <1>2, <1>3, <1>6, <1>7 DEF Owned
  <2>3. ASSUME NEW y \in open'
        PROVE  {m'[y].buf, m'[y].pitab.heap} \cap freed' = {}
    <3>1. y \in open /\ y # x /\ m'[y] = m[y] /\ open = Both
      BY <1>1, <1>2, <1>3, <1>7
    <3>2. {m[y].buf, m[y].pitab.heap} \cap freed = {}
      BY <1>2, <3>1 DEF Owned
    <3>3. m["cur"].buf # 0 => m["cur"].buf \notin {m["pi"].buf, m["pi"].pitab.heap}
      BY <1>2, <3>1 DEF Owned
    <3>4. {m[y].buf, m[y].pitab.heap} \cap mine = {}
      <4>1. CASE y = "cur"
        <5>1. x = "pi"
          BY <1>3, <3>1, <4>1
        <5> QED
          BY <1>2, <1>4, <3>3, <4>1, <5>1
      <4>2. CASE y = "pi"
        <5>1. x = "cur"
          BY <1>3, <3>1, <4>2
        <5>2. \A z \in mine : z = m["cur"].buf /\ z # 0
          BY <1>2, <1>4, <5>1
        <5>3. \A z \in mine : z \notin {m["pi"].buf, m["pi"].pitab.heap}
          BY <3>3, <5>2
        <5> QED
          BY <4>2, <5>3
      <4> QED
        BY <1>3, <3>1, <4>1, <4>2
    <3> QED
      BY <2>1, <3>1, <3>2, <3>4
  <2>4. open' # Both
    BY <1>1, <1>2
  <2> QED
    BY <2>1, <2>2, <2>3, <2>4 DEF Owned
<1>12. Kept'
  <2>1. "pi" \notin open' => m'["pi"].flags = {}
    BY <1>1, <1>2, <1>3, <1>6, <1>7 DEF Kept
  <2>2. "cur" \in open' => m'["cur"].peer_index # "pi"
    BY <1>1, <1>2, <1>3, <1>7
  <2> QED
    BY <2>1, <2>2 DEF Kept
<1> QED
  BY <1>5, <1>8, <1>9, <1>10, <1>11, <1>12 DEF IInv, NeverStrays

\* The copy has the buffer of the original, and the client closes one of them only.
LEMMA setribpiKeeps ==
    ASSUME Careful, IInv, setribpi
    PROVE  IInv'
<1> DEFINE c == m["cur"]
           p == endpending(c)
<1>1. /\ m \in [Both -> Message] /\ got \in [Both -> Answers] /\ open \in SUBSET Both
      /\ freed \in SUBSET Nat /\ untold \in BOOLEAN /\ Owned /\ Opened /\ Named /\ Kept
  BY Facts
<1>0. stray' = {} /\ untold' = untold
  BY DEF setribpi
<1>2. /\ "cur" \in Both /\ "pi" \in Both /\ "cur" # "pi"
      /\ \A y \in Both : y \in {"cur", "pi"}
  BY DEF Both
<1>3. /\ "cur" \in open /\ c \in Message /\ Sound(c) /\ Answered(c, got["cur"])
      /\ {c.buf, c.pitab.heap} \cap freed = {} /\ c.pitab = NoTable
  BY <1>1, <1>2 DEF setribpi, Opened, Owned
<1>4. CASE c.err = "ENOERR" /\ "F_IS_PI" \in c.flags
  <2>1. /\ m' = [m EXCEPT !["pi"] = p]
        /\ open' = IF c.buf # 0 THEN {"pi"} ELSE Both
        /\ freed' = freed \cap Held(m')
        /\ got' = [got EXCEPT !["pi"] = Nothing]
    BY <1>4 DEF setribpi
  <2> HIDE DEF c
  <2>2. Less(p, c) /\ ("F_RE" \notin c.flags => "F_PE" \notin p.flags)
    BY <1>3, <1>4, endpendingIs
  <2>3. c.rec.type = "TABLE_DUMPV2" /\ "F_NEEDS_PI" \notin c.flags
    BY <1>3, <1>4, FlagsAre DEF Sound, Own
  <2>4. "F_RE" \notin c.flags
    BY <1>3, <1>4, <2>3 DEF Sound
  <2> HIDE DEF p
  <2>5. /\ p \in Message /\ p.buf = c.buf /\ p.pitab = NoTable
        /\ "F_PE" \notin p.flags /\ "F_RE" \notin p.flags
    BY <1>3, <2>2, <2>4 DEF Less, Alike
  <2>6. Sound(p) /\ \A g : Answered(p, g)
    <3>1. Sound(p)
      BY <1>3, <2>2, LessKeepsAll
    <3> QED
      BY <2>5, <3>1 DEF Answered
  <2>7. /\ m' \in [Both -> Message] /\ m'["cur"] = c /\ m'["pi"] = p
        /\ got' \in [Both -> Answers] /\ got'["cur"] = got["cur"]
    BY <1>1, <1>2, <2>1, <2>5, NothingIs DEF c
  <2>8. "pi" \in open' /\ open' \in SUBSET Both /\ (open' = Both => c.buf = 0)
    BY <1>2, <2>1
  <2>9. TypeOK'
    BY <1>0, <1>1, <2>1, <2>7, <2>8 DEF TypeOK
  <2>10. Opened'
    BY <1>2, <1>3, <2>6, <2>7, <2>8 DEF Opened
  <2>11. Named'
    BY <2>4, <2>7 DEF Named, NamedBy
  <2>12. Owned'
    <3>1. freed' \subseteq Held(m') /\ freed' \subseteq freed
      BY <2>1
    <3>2. \A y \in open' : {m'[y].buf, m'[y].pitab.heap} \cap freed' = {}
      BY <1>2, <1>3, <2>5, <2>7, <2>8, <3>1
    <3> QED
      BY <1>3, <2>7, <2>8, <3>1, <3>2 DEF Owned
  <2>13. Kept'
    BY <2>3, <2>7, <2>8 DEF Kept
  <2> QED
    BY <1>0, <2>9, <2>10, <2>11, <2>12, <2>13 DEF IInv, NeverStrays
<1>5. CASE ~(c.err = "ENOERR" /\ "F_IS_PI" \in c.flags)
  <2>1. UNCHANGED <<m, open, freed, got>>
    BY <1>5 DEF setribpi
  <2> QED
    BY <1>0, <2>1 DEF IInv, NeverStrays, TypeOK, Opened, Named, Owned, Kept
<1> QED
  BY <1>4, <1>5

LEMMA setribpi_rKeeps ==
    ASSUME IInv, NEW safe \in BOOLEAN, setribpi_r(safe)
    PROVE  IInv'
<1> DEFINE c == m["cur"]
           pi == m["pi"]
           d == m'["cur"]
           p == m'["pi"]
<1>1. /\ m \in [Both -> Message] /\ got \in [Both -> Answers] /\ open \in SUBSET Both
      /\ freed \in SUBSET Nat /\ untold \in BOOLEAN /\ Owned /\ Opened /\ Named /\ Kept
      /\ freed \subseteq {m["cur"].buf, m["pi"].buf, m["pi"].pitab.heap} \ {0}
      /\ c.pitab.heap = 0 /\ 0 \notin freed
  BY Facts
<1>2. /\ "cur" \in Both /\ "pi" \in Both /\ "cur" # "pi"
      /\ \A y \in Both : y \in {"cur", "pi"}
  BY DEF Both
<1>0. PICK memory \in BOOLEAN :
         /\ Linking(TRUE, m, got, memory)
         /\ open' = IF Links(m["pi"], memory) THEN open ELSE {"pi"}
  BY DEF setribpi_r
<1> DEFINE NewGot == IF TRUE /\ NoRoom(pi, memory) THEN [got EXCEPT !["pi"] = Nothing] ELSE got
<1>3. /\ open = Both /\ m' = Linked(m, "cur", "pi", memory) /\ untold' = FALSE
      /\ open' = (IF Links(pi, memory) THEN open ELSE {"pi"})
      /\ freed' = freed \cap Held(m')
      /\ stray' = If(TRUE /\ Overruns(pi, memory), "beyond") /\ got' = NewGot
  <2>1. Linking(TRUE, m, got, memory)
    BY <1>0
  <2>2. /\ m' = Linked(m, "cur", "pi", memory) /\ freed' = freed \cap Held(m')
        /\ stray' = If(TRUE /\ Overruns(pi, memory), "beyond") /\ got' = NewGot
    BY <2>1, Zenon DEF Linking
  <2>3. open = Both /\ untold' = FALSE
    BY DEF setribpi_r
  <2> QED
    BY <1>0, <2>2, <2>3
<1>4. /\ c \in Message /\ Sound(c) /\ Answered(c, got["cur"])
      /\ pi \in Message /\ Sound(pi) /\ Answered(pi, got["pi"])
      /\ {c.buf, c.pitab.heap} \cap freed = {} /\ {pi.buf, pi.pitab.heap} \cap freed = {}
      /\ c.buf # 0 => c.buf \notin {pi.buf, pi.pitab.heap}
      /\ c.pitab = NoTable /\ NamedBy(c, got["cur"], pi.rec)
  BY <1>1, <1>2, <1>3 DEF Opened, Owned, Named
<1>5. Fresh(m) \in 1..7 /\ Fresh(m) \notin Held(m) \cup freed
  <2>1. Held(m) \cup freed \subseteq
           {m["cur"].buf, m["pi"].buf, m["pi"].pitab.heap, m["cur"].pitab.heap}
    BY <1>1, HeldIs
  <2> QED
    BY <2>1, FreshIs
<1>6. /\ m' \in [Both -> Message] /\ d = [c EXCEPT !.peer_index = "pi"]
      /\ Indexed(p, pi, Fresh(m), memory)
  BY <1>1, <1>3, <1>4, <1>5, LinkedIs
<1>7. /\ Sound(p) /\ Answered(p, got'["pi"]) /\ p.buf = pi.buf /\ p.rec = pi.rec
      /\ p.pitab.heap \in {pi.pitab.heap, 0, Fresh(m)}
      /\ (Links(pi, memory) => p.pitab # NoTable)
      /\ got' \in [Both -> Answers] /\ got'["cur"] = got["cur"]
  <2>1. /\ got' \in [Both -> Answers] /\ got'["cur"] = got["cur"]
        /\ got'["pi"] = IF NoRoom(pi, memory) THEN Nothing ELSE got["pi"]
    <3> HIDE DEF pi
    <3> QED
      BY <1>1, <1>2, <1>3, NothingIs
  <2> QED
    BY <1>4, <1>6, <2>1 DEF Indexed
<1>17. NeverStrays' /\ stray' \subseteq {"beyond"}
  <2>1. stray' = If(TRUE /\ Overruns(pi, memory), "beyond") /\ "pi" \in open'
    BY <1>2, <1>3
  <2>2. Overruns(pi, memory) => "F_IS_PI" \in p.flags /\ p.rec.cut # "no"
    BY <1>6 DEF Overruns, Indexed, Allowed
  <2> HIDE DEF p, pi
  <2> QED
    BY <2>1, <2>2 DEF If, NeverStrays, WellFormed, p
<1> HIDE DEF c, pi, d, p
<1>8. /\ d.flags = c.flags /\ d.err = c.err /\ d.rec = c.rec /\ d.buf = c.buf
      /\ d.at = c.at /\ d.pitab = c.pitab /\ d.peer_index = "pi"
  BY <1>4, <1>6 DEF Message
<1>9. Sound(d)
  BY <1>4, <1>8 DEF Sound
<1>10. Answered(d, got["cur"]) /\ NamedBy(d, got["cur"], p.rec)
  <2>1. Answered(d, got["cur"])
    BY <1>4, <1>8 DEF Answered
  <2>2. NamedBy(d, got["cur"], p.rec)
    BY <1>4, <1>7, <1>8 DEF NamedBy
  <2> QED
    BY <2>1, <2>2
<1>11. "pi" \in open' /\ open' \in SUBSET Both /\ ("cur" \in open' => Links(pi, memory))
  BY <1>2, <1>3
<1>12. TypeOK'
  BY <1>1, <1>3, <1>6, <1>7, <1>11, <1>17 DEF TypeOK
<1>13. Opened'
  BY <1>2, <1>3, <1>7, <1>9, <1>10, <1>11 DEF Opened, d, p
<1>14. Named'
  BY <1>3, <1>7, <1>10 DEF Named, d, p
<1>15. Owned'
  <2>1. freed' \subseteq Held(m') /\ freed' \subseteq freed
    BY <1>3
  <2>2. {d.buf, d.pitab.heap} \cap freed = {} /\ {p.buf, p.pitab.heap} \cap freed = {}
    BY <1>1, <1>4, <1>5, <1>7, <1>8
  <2>3. \A y \in open' : {m'[y].buf, m'[y].pitab.heap} \cap freed' = {}
    BY <1>2, <1>11, <2>1, <2>2 DEF d, p
  <2>4. d.buf # 0 => d.buf \in Held(m)
    BY <1>8, HeldIs DEF c
  <2>5. d.buf # 0 => d.buf \notin {p.buf, p.pitab.heap}
    BY <1>4, <1>5, <1>7, <1>8, <2>4
  <2> QED
    BY <1>4, <1>8, <2>1, <2>3, <2>5 DEF Owned, d, p
<1>16. Kept'
  BY <1>7, <1>11 DEF Kept, d, p
<1> QED
  BY <1>12, <1>13, <1>14, <1>15, <1>16, <1>17 DEF IInv

-----------------------------------------------------------------------------
(* The next entry of a RIB *)

\* The peer index of a linked record is good to use, and names a peer, unless its table
\* is missing and the client was not told.
LEMMA PeerOfIs ==
    ASSUME IInv, "cur" \in open, NEW e,
           m["cur"].rec.type = "TABLE_DUMPV2", "F_RE" \in m["cur"].flags,
           m["cur"].err = "ENOERR", e.idx \in Nat, e.idx < m[m["cur"].peer_index].picount
    PROVE  /\ Misused(m["cur"]) # {} => Misused(m["cur"]) = {"missing"} /\ untold
           /\ m["cur"].peer_index = "pi" /\ "pi" \in open
           /\ Misused(m["cur"]) = {} =>
                 "F_IS_PI" \in m["pi"].flags /\ PeerOf(m["cur"], e) \in Peers
           /\ Misused(m["cur"]) = {} /\ WellFormed(m["pi"].rec) =>
                 /\ e.idx < Len(m["pi"].rec.items)
                 /\ PeerOf(m["cur"], e) = m["pi"].rec.items[e.idx + 1].peer
<1> DEFINE c == m["cur"]
           pi == m["pi"]
           items == pi.rec.items
<1>1. Sound(c) /\ Owned /\ Opened /\ Kept
  BY InUse DEF IInv
<1>2. c.peer_index = "pi" /\ "F_NEEDS_PI" \in c.flags
  BY <1>1 DEF Sound
<1>3. "pi" \in open /\ (pi.pitab # NoTable \/ untold)
  BY <1>1, <1>2 DEF Kept
<1>4. Sound(pi) /\ {pi.buf, pi.pitab.heap} \cap freed = {}
  BY <1>1, <1>3 DEF Opened, Owned
<1>5. Misused(c) = If(pi.pitab = NoTable, "missing")
  BY <1>2, <1>4 DEF Misused, If
<1>6. /\ Misused(c) # {} => Misused(c) = {"missing"} /\ untold
      /\ Misused(c) = {} => pi.pitab # NoTable
  BY <1>3, <1>5 DEF If
<1>7. ASSUME Misused(c) = {}
      PROVE  /\ pi.rec \in Recs /\ "F_IS_PI" \in mrtflags(pi.rec) /\ "F_IS_PI" \in pi.flags
             /\ pi.pitab.pos = Table(pi) /\ pi.picount = pi.rec.count
  <2>1. pi.pitab # NoTable
    BY <1>6, <1>7
  <2> QED
    BY <1>4, <2>1 DEF Sound, Own
<1>8. ASSUME Misused(c) = {}
      PROVE  /\ "F_IS_PI" \in pi.flags /\ PeerOf(c, e) \in Peers
             /\ WellFormed(pi.rec) =>
                   e.idx < Len(items) /\ PeerOf(c, e) = items[e.idx + 1].peer
  <2>1. PeerOf(c, e) = PeerAt(items, Table(pi)[e.idx + 1])
    BY <1>2, <1>7, <1>8 DEF PeerOf
  <2>2. items \in Seq(Items) /\ Len(items) \in Nat /\ Sizes(items)
    BY <1>7, <1>8, RecordIs
  <2>3. PeerOf(c, e) \in Peers
    BY <2>1, <2>2, PeerAtIs
  <2>4. ASSUME WellFormed(pi.rec)
         PROVE  e.idx < Len(items) /\ PeerOf(c, e) = items[e.idx + 1].peer
    <3>1. e.idx < Len(items)
      BY <1>2, <1>7, <1>8, <2>4 DEF WellFormed
    <3> DEFINE i == e.idx + 1
    <3>2. i \in 1..Len(items) /\ e.idx \in 0..Len(items) - 1 /\ i - 1 = e.idx
      BY <2>2, <3>1
    <3>3. Table(pi)[e.idx + 1] = Offset(items, e.idx)
      BY <1>7, <1>8, <2>4, <3>2, TableIs
    <3>4. PeerAt(items, Offset(items, i - 1)) = items[i].peer
      BY <2>2, <3>2, PeerIsFound
    <3> HIDE DEF items
    <3> QED
      BY <2>1, <3>1, <3>2, <3>3, <3>4
  <2> QED
    BY <1>7, <1>8, <2>3, <2>4
<1>9. Misused(c) # {} => Misused(c) = {"missing"} /\ untold
  BY <1>6
<1>10. Misused(c) = {} => "F_IS_PI" \in pi.flags /\ PeerOf(c, e) \in Peers
  BY <1>8
<1>11. Misused(c) = {} /\ WellFormed(pi.rec) =>
          e.idx < Len(items) /\ PeerOf(c, e) = items[e.idx + 1].peer
  BY <1>8
<1> QED
  BY <1>2, <1>3, <1>9, <1>10, <1>11

LEMMA nextribentKeeps ==
    ASSUME IInv, nextribent
    PROVE  IInv'
<1> DEFINE msg == m["cur"]
           items == msg.rec.items
           g == got["cur"]
           at == msg.at + 1
           e == items[at]
           v2 == msg.rec.type = "TABLE_DUMPV2"
           bad == IF v2 /\ e.idx >= m[msg.peer_index].picount THEN "EBADPEERIDX"
                  ELSE "EBADRIBENT"
           Refused == LastIsCut(msg) \/ bad = "EBADPEERIDX"
           new == [msg EXCEPT !.at = at]
           behind == If(v2 /\ Behind(m[msg.peer_index].rec, e.idx + 1), "beyond")
           peer == IF v2 THEN PeerOf(msg, e) ELSE e.peer
           item == [entry |-> e, peer |-> peer]
           h == [g EXCEPT !.items = Append(@, item)]
           Errs == {bad, IF LastIsCut(msg) THEN "EBADRIBENT" ELSE bad}
           A == Becomes("cur", Refuse(msg)) /\ UNCHANGED got
           B == Becomes("cur", msg) /\ got' = [got EXCEPT !["cur"].null = TRUE]
           C == \E err \in Errs : Becomes("cur", Fail(msg, err)) /\ UNCHANGED got
           D == /\ stray' = Misused(msg) /\ open' = open \ {"cur"}
                /\ UNCHANGED <<m, freed, untold, got>>
           E == Strays("cur", new, behind) /\ got' = [got EXCEPT !["cur"] = h]
           Lost == v2 /\ Misused(msg) # {}
           Full == Allowed(msg, {"F_RE"})
           End == msg.at = Len(items)
           More == msg.at < Len(items)
<1>0. (CASE ~Full -> A [] Full /\ End -> B [] Full /\ More /\ Refused -> C
         [] Full /\ More /\ ~Refused /\ Lost -> D [] OTHER -> E)
  BY DEF nextribent
<1>1. /\ "cur" \in open /\ msg \in Message /\ Sound(msg) /\ Answered(msg, g)
      /\ NamedBy(msg, g, m["pi"].rec) /\ g \in Answers /\ got \in [Both -> Answers]
      /\ m \in [Both -> Message] /\ "cur" \in Both
  BY InUse, Facts DEF nextribent, Named, Both
<1>2. msg.rec \in Recs /\ items \in Seq(Items) /\ Len(items) \in Nat /\ msg.at \in Nat
  BY <1>1, RecordIs DEF Sound, Message
<1>3. CASE ~Allowed(msg, {"F_RE"})
  <2>1. A
    <3> HIDE DEF A, B, C, D, E, End, More, Refused, Lost
    <3> QED
      BY <1>0, <1>3
  <2> QED
    BY <1>1, <2>1, RefuseIs, Lessens
<1>4. ASSUME Allowed(msg, {"F_RE"})
      PROVE  /\ msg.err = "ENOERR" /\ "F_RE" \in msg.flags /\ "F_PE" \notin msg.flags
             /\ msg.at <= Len(items) /\ (g.null => msg.at = Len(items))
             /\ Len(g.items) = msg.at
             /\ \A i \in 1..msg.at :
                   /\ g.items[i].entry = items[i]
                   /\ msg.rec.type = "TABLE_DUMP" => g.items[i].peer = items[i].peer
             /\ \/ msg.rec.type = "TABLE_DUMP"
                \/ v2 /\ "F_NEEDS_PI" \in msg.flags /\ msg.peer_index = "pi"
  <2>1. msg.err = "ENOERR" /\ "F_RE" \in msg.flags
    BY <1>4 DEF Allowed
  <2>2. \/ msg.rec.type = "TABLE_DUMP"
        \/ v2 /\ "F_NEEDS_PI" \in msg.flags /\ msg.peer_index = "pi"
    BY <1>1, <2>1 DEF Sound
  <2>3. "F_IS_PI" \notin msg.flags
    BY <1>1, <2>2, FlagsAre DEF Sound, Own
  <2>4. "F_PE" \notin msg.flags
    BY <1>1, <2>3 DEF Sound
  <2> QED
    BY <1>1, <2>1, <2>2, <2>4 DEF Answered
<1>5. CASE Allowed(msg, {"F_RE"}) /\ msg.at = Len(items)
  <2> DEFINE k == [g EXCEPT !.null = TRUE]
  <2>1. Becomes("cur", msg) /\ got' = [got EXCEPT !["cur"] = k]
    <3>1. Full /\ End /\ ~More
      BY <1>2, <1>5
    <3>2. B
      <4> HIDE DEF Full, End, A, B, C, D, E, More, Refused, Lost
      <4> QED
        BY <1>0, <3>1
    <3> QED
      BY <3>2
  <2>2. k \in Answers /\ k.items = g.items
    BY <1>1 DEF Answers
  <2> HIDE DEF k
  <2>3. Answered(msg, k)
    BY <1>2, <1>4, <1>5, <2>2 DEF Answered
  <2>4. NamedBy(msg, k, m["pi"].rec)
    BY <1>1, <2>2 DEF NamedBy
  <2>5. Alike(msg, msg)
    BY <1>1, Same DEF Less
  <2> QED
    BY <1>1, <2>1, <2>2, <2>3, <2>4, <2>5, Turns
<1>6. CASE Allowed(msg, {"F_RE"}) /\ msg.at < Len(items) /\ Refused
  <2>1. PICK err \in {bad, IF LastIsCut(msg) THEN "EBADRIBENT" ELSE bad} :
           Becomes("cur", Fail(msg, err)) /\ UNCHANGED got
    <3>1. Full /\ ~End /\ More /\ Refused
      BY <1>2, <1>6
    <3>2. C
      <4> HIDE DEF Full, End, A, B, C, D, E, More, Refused, Lost
      <4> QED
        BY <1>0, <3>1
    <3> QED
      BY <3>2
  <2>2. err \in {"EBADPEERIDX", "EBADRIBENT"}
    OBVIOUS
  <2>3. Less(Fail(msg, err), msg)
    BY <1>1, <2>2, FailIs DEF Errors
  <2> QED
    BY <1>1, <2>1, <2>3, Lessens
<1>7. ASSUME Allowed(msg, {"F_RE"}), ~(msg.at = Len(items)),
             ~(msg.at < Len(items) /\ Refused)
      PROVE  /\ msg.at < Len(items) /\ at \in 1..Len(items) /\ at \in Nat /\ ~Refused
             /\ e \in Items /\ e.peer \in Peers
             /\ v2 => e.idx \in Nat /\ e.idx < m[msg.peer_index].picount
             /\ v2 => /\ Misused(msg) # {} => Misused(msg) = {"missing"} /\ untold
                      /\ msg.peer_index = "pi" /\ "pi" \in open
                      /\ Misused(msg) = {} =>
                            "F_IS_PI" \in m["pi"].flags /\ PeerOf(msg, e) \in Peers
                      /\ Misused(msg) = {} /\ WellFormed(m["pi"].rec) =>
                            /\ e.idx < Len(m["pi"].rec.items)
                            /\ PeerOf(msg, e) = m["pi"].rec.items[e.idx + 1].peer
  <2>1. msg.at < Len(items) /\ at \in 1..Len(items) /\ at \in Nat /\ ~Refused
    BY <1>2, <1>4, <1>7
  <2>2. e \in Items /\ e.peer \in Peers
    BY <1>2, <2>1, RecordIs
  <2>3. v2 => e.idx \in Nat
    <3>1. v2 => "F_NEEDS_PI" \in mrtflags(msg.rec)
      BY <1>1, <1>4, <1>7 DEF Sound, Own
    <3> QED
      BY <1>2, <2>1, <3>1, RecordIs
  <2>4. v2 => e.idx < m[msg.peer_index].picount
    <3>1. v2 => ~(e.idx >= m[msg.peer_index].picount) /\ m[msg.peer_index].picount \in Nat
      BY <1>1, <1>4, <1>7, <2>1 DEF Message, Both
    <3> QED
      BY <2>3, <3>1
  <2>5. v2 => /\ Misused(msg) # {} => Misused(msg) = {"missing"} /\ untold
              /\ msg.peer_index = "pi" /\ "pi" \in open
              /\ Misused(msg) = {} =>
                    "F_IS_PI" \in m["pi"].flags /\ PeerOf(msg, e) \in Peers
              /\ Misused(msg) = {} /\ WellFormed(m["pi"].rec) =>
                    /\ e.idx < Len(m["pi"].rec.items)
                    /\ PeerOf(msg, e) = m["pi"].rec.items[e.idx + 1].peer
    BY <1>1, <1>4, <1>7, <2>3, <2>4, PeerOfIs
  <2> QED
    BY <2>1, <2>2, <2>3, <2>4, <2>5
<1>8. CASE Allowed(msg, {"F_RE"}) /\ ~(msg.at = Len(items))
           /\ ~(msg.at < Len(items) /\ Refused) /\ Lost
  <2>1. D
    <3>1. Full /\ ~End /\ More /\ ~Refused /\ Lost
      BY <1>7, <1>8
    <3> HIDE DEF Full, End, A, B, C, D, E, More, Refused, Lost
    <3> QED
      BY <1>0, <3>1
  <2>2. stray' = {"missing"} /\ untold /\ untold' = untold
    BY <1>7, <1>8, <2>1
  <2>3. open' = open \ {"cur"} /\ m' = m /\ freed' = freed /\ got' = got
    BY <2>1
  <2>4. TypeOK /\ Opened /\ Named /\ Owned /\ Kept
    BY DEF IInv
  <2>5. TypeOK' /\ Opened' /\ Named'
    BY <2>2, <2>3, <2>4 DEF TypeOK, Opened, Named
  <2>6. Owned' /\ Kept'
    BY <2>2, <2>3, <2>4 DEF Owned, Kept, Both
  <2> QED
    BY <2>2, <2>5, <2>6 DEF IInv, NeverStrays
<1>9. CASE Allowed(msg, {"F_RE"}) /\ ~(msg.at = Len(items))
           /\ ~(msg.at < Len(items) /\ Refused) /\ ~Lost
  <2>1. Strays("cur", new, behind) /\ got' = [got EXCEPT !["cur"] = h]
    <3>1. Full /\ ~End /\ ~(More /\ Refused) /\ ~Lost
      BY <1>9
    <3>2. E
      <4> HIDE DEF Full, End, A, B, C, D, E, More, Refused, Lost
      <4> QED
        BY <1>0, <3>1
    <3> QED
      BY <3>2
  <2>2. msg.at < Len(items) /\ at \in 1..Len(items) /\ at \in Nat /\ ~Refused
    BY <1>7, <1>9
  <2>3. e \in Items /\ e.peer \in Peers
    BY <1>7, <1>9
  <2>6. v2 => /\ e.idx \in Nat /\ msg.peer_index = "pi" /\ "pi" \in open
              /\ "F_IS_PI" \in m["pi"].flags /\ PeerOf(msg, e) \in Peers
              /\ WellFormed(m["pi"].rec) =>
                    /\ e.idx < Len(m["pi"].rec.items)
                    /\ PeerOf(msg, e) = m["pi"].rec.items[e.idx + 1].peer
    BY <1>7, <1>9
  <2>7. (v2 => peer = PeerOf(msg, e)) /\ (~v2 => peer = e.peer) /\ peer \in Peers
    BY <2>3, <2>6
  <2> HIDE DEF peer
  <2>8. item \in Returned /\ item.entry = e /\ item.peer = peer
    BY <2>3, <2>7 DEF Returned
  <2> HIDE DEF item
  <2>9. /\ Append(g.items, item) \in Seq(Returned) /\ Len(Append(g.items, item)) = at
        /\ Append(g.items, item)[at] = item
        /\ \A i \in 1..msg.at : Append(g.items, item)[i] = g.items[i]
    BY <1>1, <1>4, <1>9, <2>8, AppendProperties DEF Answers
  <2>10. h \in Answers /\ h.items = Append(g.items, item) /\ h.null = g.null
    BY <1>1, <2>9 DEF Answers
  <2>11. Alike(new, msg) /\ new.at = at /\ new.flags = msg.flags /\ new.err = msg.err
         /\ new.rec = msg.rec /\ new.buf = msg.buf /\ new.pitab = msg.pitab
         /\ new.peer_index = msg.peer_index
    BY <1>1, <2>2 DEF Alike, Message
  <2>12. \A i \in 1..at : i = at \/ i \in 1..msg.at
    BY <1>2
  <2> HIDE DEF h, new
  <2>13. behind \in SUBSET {"beyond"} /\ ("beyond" \in behind => BadIndex)
    <3>1. v2 /\ Behind(m["pi"].rec, e.idx + 1) => BadIndex
      <4>1. SUFFICES ASSUME v2, Behind(m["pi"].rec, e.idx + 1), WellFormed(m["pi"].rec)
                     PROVE  FALSE
        BY <2>6 DEF BadIndex
      <4>2. e.idx \in Nat /\ e.idx < Len(m["pi"].rec.items) /\ Len(m["pi"].rec.items) \in Nat
        <5>1. Sound(m["pi"])
          BY <2>6, <4>1, InUse
        <5> QED
          BY <2>6, <4>1, <5>1, RecordIs DEF Sound
      <4>3. m["pi"].rec.cut = "no"
        BY <4>1 DEF WellFormed
      <4> HIDE DEF e
      <4> QED
        BY <4>1, <4>2, <4>3 DEF Behind
    <3>2. v2 => msg.peer_index = "pi"
      BY <2>6
    <3> HIDE DEF e, v2, msg
    <3> QED
      BY <3>1, <3>2 DEF If
  <2> HIDE DEF behind
  <2>14. Sound(new)
    BY <1>1, <2>11, AlikeSound DEF Sound
  <2>15. Answered(new, h)
    <3>1. ~g.null
      BY <1>4, <1>9, <2>2
    <3>2. \A i \in 1..at :
             /\ h.items[i].entry = items[i]
             /\ msg.rec.type = "TABLE_DUMP" => h.items[i].peer = items[i].peer
      <4>1. /\ h.items[at].entry = e
            /\ msg.rec.type = "TABLE_DUMP" => h.items[at].peer = e.peer
        BY <2>7, <2>8, <2>9, <2>10
      <4> HIDE DEF at, items, g
      <4> QED
        BY <1>4, <1>9, <2>9, <2>10, <2>12, <4>1
    <3>3. ~h.null /\ Len(h.items) = at
      BY <2>9, <2>10, <3>1
    <3>4. "F_PE" \notin new.flags /\ new.at = at /\ new.rec = msg.rec
      BY <1>4, <1>9, <2>11
    <3>5. at <= Len(items)
      BY <2>2
    <3> HIDE DEF at
    <3> QED
      BY <3>2, <3>3, <3>4, <3>5 DEF Answered
  <2>16. NamedBy(new, h, m["pi"].rec)
    <3> DEFINE index == m["pi"].rec
               Names(it, i) == /\ items[i].idx < Len(index.items)
                               /\ it.peer = index.items[items[i].idx + 1].peer
    <3>1. SUFFICES ASSUME v2, WellFormed(index)
                   PROVE  \A i \in 1..at : Names(h.items[i], i)
      BY <2>11 DEF NamedBy
    <3>2. \A i \in 1..msg.at : Names(g.items[i], i)
      BY <1>1, <1>4, <1>9, <3>1 DEF NamedBy
    <3>3. Names(item, at)
      BY <2>6, <2>7, <2>8, <3>1
    <3> HIDE DEF Names, at, items, g
    <3> QED
      BY <2>9, <2>10, <2>12, <3>2, <3>3
  <2> QED
    BY <1>1, <2>1, <2>10, <2>11, <2>13, <2>14, <2>15, <2>16, TurnsOrStrays
<1> QED
  BY <1>3, <1>5, <1>6, <1>8, <1>9

-----------------------------------------------------------------------------
(* The properties *)

LEMMA InitHolds ==
    ASSUME Init
    PROVE  IInv
<1>1. Closed \in Message /\ Closed.flags = {} /\ Closed.buf = 0 /\ Closed.pitab = NoTable
  BY DEF Closed, Message, Errors, NoTable, Pitab, Cells
<1>2. /\ m \in [Both -> Message] /\ m["cur"] = Closed /\ m["pi"] = Closed
      /\ got \in [Both -> Answers] /\ open = {} /\ freed = {} /\ stray = {}
      /\ untold = FALSE
  BY <1>1, NothingIs DEF Init, Both
<1>3. TypeOK /\ NeverStrays
  BY <1>2 DEF TypeOK, NeverStrays
<1>4. Opened /\ Named /\ Owned /\ Kept
  BY <1>1, <1>2 DEF Opened, Named, Owned, Kept, Both
<1> QED
  BY <1>3, <1>4 DEF IInv

LEMMA NextHolds ==
    ASSUME Careful, IInv, [Next]_vars
    PROVE  IInv'
<1>1. ASSUME NEW r \in Records, setmrtread(r) PROVE IInv'
  BY <1>1, setmrtreadKeeps
<1>2. ASSUME NEW r \in Records, setmrtreadfrom(r) PROVE IInv'
  BY <1>2, setmrtreadfromKeeps
<1>3. ASSUME NEW x \in Both, NEW r \in Recs, setmrtread_r(x, r) PROVE IInv'
  BY <1>3, setmrtread_rKeeps
<1>4. ASSUME NEW x \in Both, NEW r \in Recs, ReadFails(x, r) PROVE IInv'
  BY <1>4, ReadFailsKeeps
<1>5. ASSUME NEW x \in Both, mrtclose(x) PROVE IInv'
  BY <1>5, mrtcloseKeeps
<1>6. ASSUME NEW x \in Both, startpeerents(x) PROVE IInv'
  BY <1>6, startpeerentsKeeps
<1>7. ASSUME NEW x \in Both, nextpeerent(x) PROVE IInv'
  BY <1>7, nextpeerentKeeps
<1>8. ASSUME NEW x \in Both, endpeerents(x) PROVE IInv'
  BY <1>8, endpeerentsKeeps
<1>9. ASSUME NEW x \in Both, getpi(x) PROVE IInv'
  BY <1>9, getpiKeeps
<1>10. ASSUME setribpi PROVE IInv'
  BY <1>10, setribpiKeeps
<1>11. ASSUME NEW safe \in BOOLEAN, setribpi_r(safe) PROVE IInv'
  BY <1>11, setribpi_rKeeps
<1>12. ASSUME NEW counted \in BOOLEAN, getribents(counted) PROVE IInv'
  BY <1>12, getribentsKeeps
<1>13. ASSUME NEW counted \in BOOLEAN, startribents(counted) PROVE IInv'
  BY <1>13, startribentsKeeps
<1>14. ASSUME nextribent PROVE IInv'
  BY <1>14, nextribentKeeps
<1>15. ASSUME endribents PROVE IInv'
  BY <1>15, endribentsKeeps
<1>16. ASSUME GetHeader PROVE IInv'
  BY <1>16, GetHeaderKeeps
<1>17. ASSUME UNCHANGED vars PROVE IInv'
  BY <1>17 DEF vars, IInv, NeverStrays, TypeOK, Opened, Named, Owned, Kept
<1>18. "cur" \in Both /\ "pi" \in Both /\ Records \subseteq Recs /\ Indexes \subseteq Recs
  BY DEF Both, Recs
<1> QED
  BY <1>1, <1>2, <1>3, <1>4, <1>5, <1>6, <1>7, <1>8, <1>9, <1>10, <1>11, <1>12, <1>13,
     <1>14, <1>15, <1>16, <1>17, <1>18 DEF Next

\* The inductive invariant of a client that closes one only of two messages that share
\* a buffer.
THEOREM Invariance ==
    ASSUME Careful
    PROVE  Spec => []IInv
<1>1. Init => IInv
  BY InitHolds
<1>2. IInv /\ [Next]_vars => IInv'
  BY NextHolds
<1> QED
  BY <1>1, <1>2, PTL DEF Spec

\* In whatever order such a client reads, copies, links, iterates and closes its two
\* messages (setribpi, mrt.c:470-480; mrtclose_r, mrt.c:657-682), and whether there is
\* memory for a table or not (setuppitable, mrt.c:197-229): nothing that was freed is
\* used or freed, a table that is not there is used only for a RIB that setmrtread could
\* not link, and an end is gone behind only for a peer index that is cut short or
\* announces more peers than it has.
THEOREM NothingStrays ==
    ASSUME Careful
    PROVE  Spec => []NeverStrays
<1>1. IInv => NeverStrays
  BY DEF IInv, NeverStrays
<1> QED
  BY <1>1, Invariance, PTL

\* An iteration over the peers of an index that does not end within one goes on in
\* order, or fails, or was started over by a link that got no memory, although linking
\* a record to the peer index moves the same iterator (the FIXME at mrt.c:201).
THEOREM PeersComeInOrder ==
    ASSUME Careful
    PROVE  Spec => []PeersInOrder
<1>1. IInv => PeersInOrder
  BY DEF IInv, Opened, Answered, PeersInOrder
<1> QED
  BY <1>1, Invariance, PTL

\* The entries of a RIB come in order, each with the peer that its number names in
\* the peer index the record was linked to (nextribent, mrt.c:965-1024), for every
\* record and every peer index, and for tables in the message and on the heap.
THEOREM PeersAreNamed ==
    ASSUME Careful
    PROVE  Spec => []EntriesNameTheirPeers
<1>1. ASSUME IInv PROVE EntriesNameTheirPeers
  <2> DEFINE msg == m["cur"]
             g == got["cur"]
             index == m["pi"].rec
  <2> SUFFICES ASSUME "cur" \in open, "F_RE" \in msg.flags, msg.err = "ENOERR"
               PROVE  /\ Len(g.items) <= Len(msg.rec.items)
                      /\ \A i \in DOMAIN g.items :
                           LET e == msg.rec.items[i]
                           IN  /\ g.items[i].entry = e
                               /\ msg.rec.type = "TABLE_DUMP" => g.items[i].peer = e.peer
                               /\ msg.rec.type = "TABLE_DUMPV2" /\ WellFormed(index) =>
                                    /\ e.idx < Len(index.items)
                                    /\ g.items[i].peer = index.items[e.idx + 1].peer
                      /\ g.null => Len(g.items) = Len(msg.rec.items)
    BY DEF EntriesNameTheirPeers
  <2>1. /\ Answered(msg, g) /\ NamedBy(msg, g, index) /\ g \in Answers
        /\ msg \in Message
    BY <1>1, Facts, InUse DEF Named, Both
  <2>2. DOMAIN g.items = 1..Len(g.items)
    BY <2>1, LenProperties DEF Answers
  <2>3. /\ Len(g.items) = msg.at /\ msg.at <= Len(msg.rec.items)
        /\ g.null => msg.at = Len(msg.rec.items)
        /\ \A i \in 1..msg.at :
              /\ g.items[i].entry = msg.rec.items[i]
              /\ msg.rec.type = "TABLE_DUMP" => g.items[i].peer = msg.rec.items[i].peer
    BY <2>1 DEF Answered
  <2>4. msg.rec.type = "TABLE_DUMPV2" /\ WellFormed(index) =>
           \A i \in 1..msg.at :
              /\ msg.rec.items[i].idx < Len(index.items)
              /\ g.items[i].peer = index.items[msg.rec.items[i].idx + 1].peer
    BY <2>1 DEF NamedBy
  <2> HIDE DEF msg, g, index
  <2> QED
    BY <2>2, <2>3, <2>4
<1> QED
  BY <1>1, Invariance, PTL
=============================================================================
