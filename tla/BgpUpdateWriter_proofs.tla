----------------------- MODULE BgpUpdateWriter_proofs -----------------------
(***************************************************************************)
(* Proofs about BgpUpdateWriter, for every set of items, bodies and fields *)
(* and all sizes of the buffers: as long as the messages of the client fit *)
(* in fastbuf and setnlri is not used on others than empty NLRI, nothing   *)
(* is written or read outside the message, and the writer implements       *)
(* UpdateDoc.                                                              *)
(***************************************************************************)
EXTENDS BgpUpdateWriter, SequenceTheorems, TLAPS

\* A piece of a sequence: its elements, how many, and which.
LEMMA Piece ==
    ASSUME NEW S, NEW s \in Seq(S),
           NEW m \in 1..Len(s) + 1, NEW n \in m - 1..Len(s)
    PROVE  /\ SubSeq(s, m, n) \in Seq(S)
           /\ Len(SubSeq(s, m, n)) = n - m + 1
           /\ \A i \in 1..n - m + 1 : SubSeq(s, m, n)[i] = s[m + i - 1]
<1>1. \A i \in m..n : s[i] \in S
  BY ElementOfSeq
<1>2. m \in Int /\ n \in Int
  OBVIOUS
<1> QED
  BY <1>1, <1>2, SubSeqProperties

\* t lies in s, behind k cells.
Lies(s, k, t) == k + Len(t) <= Len(s) /\ \A i \in 1..Len(t) : s[k + i] = t[i]

\* A body with these three lists.
Framed(s, w, a, n) ==
    /\ Lies(s, 0, <<Len(w)>>) /\ Lies(s, 1, w)
    /\ Lies(s, Len(w) + 1, <<Len(a)>>) /\ Lies(s, Len(w) + 2, a)
    /\ Lies(s, Len(w) + Len(a) + 2, n)

\* The message m stands for a document with these lists: the open one is what was
\* written, and those behind it are set aside.
Holds(m, w, a, n) ==
    /\ m.pktlen = Len(w) + Len(a) + Len(n) + 2
    /\ Pending(m) \in {{}, {"F_NLRI"}} => Framed(m.cells, w, a, n)
    /\ Pending(m) = {"F_NLRI"} => m.ustart = Len(w) + Len(a) + 2 /\ m.uptr = m.pktlen
    /\ Pending(m) = {"F_WITHDRN"} =>
          /\ m.ustart = 1 /\ m.uptr = Len(w) + 1
          /\ Lies(m.cells, 1, w)
          /\ Len(m.pres) = Len(a) + Len(n) + 1
          /\ Lies(m.pres, 0, <<Len(a)>>) /\ Lies(m.pres, 1, a) /\ Lies(m.pres, Len(a) + 1, n)
    /\ Pending(m) = {"F_PATTR"} =>
          /\ m.ustart = Len(w) + 2 /\ m.uptr = Len(w) + Len(a) + 2
          /\ Lies(m.cells, 0, <<Len(w)>>) /\ Lies(m.cells, 1, w)
          /\ Lies(m.cells, Len(w) + 2, a)
          /\ Len(m.pres) = Len(n) /\ Lies(m.pres, 0, n)

HoldsSome(m) == \E w, a, n \in Seq(Items) : Holds(m, w, a, n)

\* A message that lies in its buffer, with one field open at most.
Sound(m) ==
    /\ m \in Messages /\ ~m.stray /\ FastSize <= m.bufsiz
    /\ m.pktlen <= m.bufsiz /\ (Pending(m) = {} => m.pktlen <= Len(m.cells))
    /\ Pending(m) \in {{}, {"F_WITHDRN"}, {"F_PATTR"}, {"F_NLRI"}}
    /\ "F_RD" \in m.flags => m.flags = {"F_RD"}
    /\ m.flags # {} => "F_RD" \in m.flags \/ "F_WR" \in m.flags

\* A message of which no call failed stands for a document.
Correct(m) ==
    /\ Sound(m)
    /\ m.flags = {} => ~IsUpdate(m)
    /\ m.flags # {} /\ m.err = "ENOERR" =>
          /\ m.pktlen <= MaxLen
          /\ Pending(m) # {} => IsUpdate(m) /\ m.at = m.alloc
          /\ IsUpdate(m) => HoldsSome(m)

IInv == Correct(msg)

-----------------------------------------------------------------------------
(* Pieces of sequences of cells *)

\* A single cell.
LEMMA CellLies ==
    ASSUME NEW s \in Seq(Cells), NEW k \in Nat, NEW x
    PROVE  Lies(s, k, <<x>>) <=> k + 1 <= Len(s) /\ s[k + 1] = x
<1>1. Len(<<x>>) = 1 /\ <<x>>[1] = x
  OBVIOUS
<1>2. \A i \in 1..1 : i = 1
  OBVIOUS
<1> QED
  BY <1>1, <1>2 DEF Lies

\* What lies in a sequence is that piece of it.
LEMMA LiesIs ==
    ASSUME NEW s \in Seq(Cells), NEW k \in Nat, NEW t \in Seq(Cells), Lies(s, k, t)
    PROVE  SubSeq(s, k + 1, k + Len(t)) = t
<1> DEFINE p == SubSeq(s, k + 1, k + Len(t))
<1>1. Len(s) \in Nat /\ Len(t) \in Nat /\ k + Len(t) <= Len(s)
      /\ \A i \in 1..Len(t) : s[k + i] = t[i]
  BY LenProperties DEF Lies
<1>2. k + 1 \in 1..Len(s) + 1 /\ k + Len(t) \in (k + 1) - 1..Len(s)
  BY <1>1
<1>3. /\ p \in Seq(Cells) /\ Len(p) = (k + Len(t)) - (k + 1) + 1
      /\ \A i \in 1..(k + Len(t)) - (k + 1) + 1 : p[i] = s[(k + 1) + i - 1]
  BY <1>2, Piece
<1>4. (k + Len(t)) - (k + 1) + 1 = Len(t) /\ \A i \in Int : (k + 1) + i - 1 = k + i
  BY <1>1
<1> HIDE DEF p
<1>5. Len(p) = Len(t) /\ \A i \in 1..Len(t) : p[i] = t[i]
  BY <1>1, <1>3, <1>4
<1>6. p = t
  BY <1>3, <1>5, SeqEqual
<1> QED
  BY <1>6 DEF p

\* A piece lies where it was taken from.
LEMMA PieceLies ==
    ASSUME NEW s \in Seq(Cells), NEW k \in 0..Len(s), NEW to \in k..Len(s)
    PROVE  LET p == SubSeq(s, k + 1, to)
           IN  p \in Seq(Cells) /\ Len(p) = to - k /\ Lies(s, k, p)
<1> DEFINE p == SubSeq(s, k + 1, to)
<1>1. Len(s) \in Nat
  BY LenProperties
<1>2. k + 1 \in 1..Len(s) + 1 /\ to \in (k + 1) - 1..Len(s)
  BY <1>1
<1>3. /\ p \in Seq(Cells) /\ Len(p) = to - (k + 1) + 1
      /\ \A i \in 1..to - (k + 1) + 1 : p[i] = s[(k + 1) + i - 1]
  BY <1>2, Piece
<1>4. to - (k + 1) + 1 = to - k /\ \A i \in Int : (k + 1) + i - 1 = k + i
  BY <1>1
<1> HIDE DEF p
<1>5. p \in Seq(Cells) /\ Len(p) = to - k /\ Lies(s, k, p)
  BY <1>1, <1>3, <1>4 DEF Lies
<1> QED
  BY <1>5 DEF p

\* What lies in a piece lies in the whole, and the other way round.
LEMMA LiesWithin ==
    ASSUME NEW s \in Seq(Cells), NEW k \in Nat, NEW t \in Seq(Cells), Lies(s, k, t),
           NEW j \in Nat, NEW u \in Seq(Cells)
    PROVE  /\ Lies(t, j, u) => Lies(s, k + j, u)
           /\ Lies(s, k + j, u) /\ j + Len(u) <= Len(t) => Lies(t, j, u)
<1>1. /\ Len(s) \in Nat /\ Len(t) \in Nat /\ Len(u) \in Nat /\ k + Len(t) <= Len(s)
      /\ \A i \in 1..Len(t) : s[k + i] = t[i]
  BY LenProperties DEF Lies
<1>2. j + Len(u) <= Len(t) => \A i \in 1..Len(u) : j + i \in 1..Len(t) /\ (k + j) + i = k + (j + i)
  BY <1>1
<1>3. j + Len(u) <= Len(t) => \A i \in 1..Len(u) : s[(k + j) + i] = t[j + i]
  BY <1>1, <1>2
<1>4. Lies(t, j, u) => Lies(s, k + j, u)
  BY <1>1, <1>3 DEF Lies
<1>5. Lies(s, k + j, u) /\ j + Len(u) <= Len(t) => Lies(t, j, u)
  BY <1>1, <1>3 DEF Lies
<1> QED
  BY <1>4, <1>5

\* One more cell behind what lies there.
LEMMA LiesAppend ==
    ASSUME NEW s \in Seq(Cells), NEW k \in Nat, NEW t \in Seq(Cells), NEW x \in Cells,
           Lies(s, k, t), Lies(s, k + Len(t), <<x>>)
    PROVE  Lies(s, k, Append(t, x))
<1> DEFINE u == Append(t, x)
<1>1. Len(s) \in Nat /\ Len(t) \in Nat /\ \A i \in 1..Len(t) : s[k + i] = t[i]
  BY LenProperties DEF Lies
<1>2. k + Len(t) + 1 <= Len(s) /\ s[k + Len(t) + 1] = x
  BY <1>1, CellLies
<1>3. Len(u) = Len(t) + 1 /\ u[Len(t) + 1] = x /\ \A i \in 1..Len(t) : u[i] = t[i]
  BY AppendProperties
<1> HIDE DEF u
<1>4. \A i \in 1..Len(u) : i \in 1..Len(t) \/ i = Len(t) + 1
  BY <1>1, <1>3
<1>5. \A i \in 1..Len(u) : s[k + i] = u[i]
  BY <1>1, <1>2, <1>3, <1>4
<1>6. k + Len(u) <= Len(s)
  BY <1>1, <1>2, <1>3
<1> QED
  BY <1>5, <1>6 DEF Lies, u

\* The two parts of a concatenation.
LEMMA ConcatLies ==
    ASSUME NEW s \in Seq(Cells), NEW t \in Seq(Cells)
    PROVE  /\ s \o t \in Seq(Cells) /\ Len(s \o t) = Len(s) + Len(t)
           /\ Lies(s \o t, 0, s) /\ Lies(s \o t, Len(s), t)
<1>1. /\ s \o t \in Seq(Cells) /\ Len(s \o t) = Len(s) + Len(t)
      /\ Len(s) \in Nat /\ Len(t) \in Nat
      /\ \A i \in 1..Len(s) + Len(t) :
            (s \o t)[i] = IF i <= Len(s) THEN s[i] ELSE t[i - Len(s)]
  BY ConcatProperties, LenProperties
<1> DEFINE c == s \o t
<1> HIDE DEF c
<1>2. \A i \in 1..Len(s) : c[0 + i] = s[i]
  BY <1>1 DEF c
<1>3. \A i \in 1..Len(t) : Len(s) + i \in 1..Len(s) + Len(t) /\ ~ (Len(s) + i <= Len(s))
                           /\ (Len(s) + i) - Len(s) = i
  BY <1>1
<1>4. \A i \in 1..Len(t) : c[Len(s) + i] = t[i]
  BY <1>1, <1>3 DEF c
<1> QED
  BY <1>1, <1>2, <1>4 DEF Lies, c

\* What memcpy does to what lies in the destination.
LEMMA CopyLies ==
    ASSUME NEW s \in Seq(Cells), NEW off \in 0..Len(s), NEW t \in Seq(Cells)
    PROVE  LET c == Copy(s, off, t)
           IN  /\ c \in Seq(Cells) /\ Len(s) <= Len(c) /\ off + Len(t) <= Len(c)
               /\ Lies(c, off, t)
               /\ \A k \in Nat, u \in Seq(Cells) :
                     Lies(s, k, u) /\ (k + Len(u) <= off \/ off + Len(t) <= k) => Lies(c, k, u)
<1> DEFINE n == IF off + Len(t) > Len(s) THEN off + Len(t) ELSE Len(s)
           c == [i \in 1..n |-> IF off < i /\ i <= off + Len(t) THEN t[i - off] ELSE s[i]]
<1>1. Len(s) \in Nat /\ Len(t) \in Nat /\ off \in Nat /\ off <= Len(s)
  BY LenProperties
<1>2. n \in Nat /\ Len(s) <= n /\ off + Len(t) <= n
      /\ (n = Len(s) \/ n = off + Len(t))
  BY <1>1
<1>3. c = Copy(s, off, t)
  BY DEF Copy
<1> HIDE DEF n
<1>4. \A i \in 1..n : IF off < i /\ i <= off + Len(t) THEN i - off \in 1..Len(t)
                                                      ELSE i \in 1..Len(s)
  BY <1>1, <1>2
<1>5. \A i \in 1..n : (IF off < i /\ i <= off + Len(t) THEN t[i - off] ELSE s[i]) \in Cells
  BY <1>4, ElementOfSeq
<1>6. c \in [1..n -> Cells] /\ \A i \in 1..n :
         c[i] = IF off < i /\ i <= off + Len(t) THEN t[i - off] ELSE s[i]
  BY <1>5
<1> HIDE DEF c
<1>7. c \in Seq(Cells) /\ Len(c) = n
  BY <1>2, <1>6, SeqDef, LenProperties
<1>8. Lies(c, off, t)
  <2>1. \A i \in 1..Len(t) : off + i \in 1..n /\ off < off + i /\ off + i <= off + Len(t)
                             /\ (off + i) - off = i
    BY <1>1, <1>2
  <2>2. \A i \in 1..Len(t) : c[off + i] = t[i]
    BY <1>6, <2>1
  <2> QED
    BY <1>2, <1>7, <2>2 DEF Lies
<1>9. ASSUME NEW k \in Nat, NEW u \in Seq(Cells), Lies(s, k, u),
             k + Len(u) <= off \/ off + Len(t) <= k
      PROVE  Lies(c, k, u)
  <2>1. Len(u) \in Nat /\ k + Len(u) <= Len(s) /\ \A i \in 1..Len(u) : s[k + i] = u[i]
    BY <1>9, LenProperties DEF Lies
  <2>2. \A i \in 1..Len(u) : k + i \in 1..n /\ ~ (off < k + i /\ k + i <= off + Len(t))
    BY <1>1, <1>2, <1>9, <2>1
  <2>3. \A i \in 1..Len(u) : c[k + i] = u[i]
    BY <1>6, <2>1, <2>2
  <2> QED
    BY <1>1, <1>2, <1>7, <2>1, <2>3 DEF Lies
<1> QED
  BY <1>2, <1>3, <1>7, <1>8, <1>9

-----------------------------------------------------------------------------
(* Fields in the body of a message *)

Total(w, a, n) == Len(w) + Len(a) + Len(n) + 2
Rec(w, a, n) == [withdrawn |-> w, attrs |-> a, nlri |-> n]

\* The lists of a document are cells, and so are their lengths.
LEMMA ListsAre ==
    ASSUME NEW w \in Seq(Items), NEW a \in Seq(Items), NEW n \in Seq(Items)
    PROVE  /\ w \in Seq(Cells) /\ a \in Seq(Cells) /\ n \in Seq(Cells)
           /\ Len(w) \in Nat /\ Len(a) \in Nat /\ Len(n) \in Nat
           /\ Total(w, a, n) <= MaxSize =>
                 <<Len(w)>> \in Seq(Cells) /\ <<Len(a)>> \in Seq(Cells)
<1>1. Items \subseteq Cells /\ Lengths \subseteq Cells
  BY DEF Cells
<1>2. w \in Seq(Cells) /\ a \in Seq(Cells) /\ n \in Seq(Cells)
  BY <1>1, SeqMonotonic
<1>3. Len(w) \in Nat /\ Len(a) \in Nat /\ Len(n) \in Nat
  BY LenProperties
<1>4. MaxSize \in Nat
  BY SizesAssumption
<1>5. Total(w, a, n) <= MaxSize => Len(w) \in Lengths /\ Len(a) \in Lengths
  BY <1>3, <1>4 DEF Total, Lengths
<1>6. \A x \in Lengths : <<x>> \in Seq(Cells)
  BY <1>1
<1> QED
  BY <1>2, <1>3, <1>5, <1>6

\* Where the lengths in a body are, and that it is well formed.
LEMMA FramedIs ==
    ASSUME NEW s \in Seq(Cells), NEW w \in Seq(Items), NEW a \in Seq(Items),
           NEW n \in Seq(Items), Framed(s, w, a, n), Total(w, a, n) <= MaxSize
    PROVE  /\ Total(w, a, n) <= Len(s) /\ Total(w, a, n) \in Nat
           /\ s[1] = Len(w) /\ s[Len(w) + 2] = Len(a)
           /\ Len(s) = Total(w, a, n) => WellFormed(s) /\ Parsed(s) = Rec(w, a, n)
<1>1. /\ w \in Seq(Cells) /\ a \in Seq(Cells) /\ n \in Seq(Cells)
      /\ Len(w) \in Nat /\ Len(a) \in Nat /\ Len(n) \in Nat /\ Len(s) \in Nat
      /\ <<Len(w)>> \in Seq(Cells) /\ <<Len(a)>> \in Seq(Cells)
  BY ListsAre, LenProperties
<1>2. Lies(s, 0, <<Len(w)>>) /\ Lies(s, 1, w)
      /\ Lies(s, Len(w) + 1, <<Len(a)>>) /\ Lies(s, Len(w) + 2, a)
      /\ Lies(s, Len(w) + Len(a) + 2, n)
  BY DEF Framed
<1>3. s[1] = Len(w)
  BY <1>1, <1>2, CellLies
<1>4. s[Len(w) + 2] = Len(a)
  <2>1. Len(w) + 1 \in Nat /\ (Len(w) + 1) + 1 = Len(w) + 2
    BY <1>1
  <2> QED
    BY <1>2, <2>1, CellLies
<1>5. Total(w, a, n) <= Len(s) /\ Total(w, a, n) \in Nat
  BY <1>1, <1>2 DEF Lies, Total
<1>6. ASSUME Len(s) = Total(w, a, n)
      PROVE  WellFormed(s)
  <2>1. MaxSize \in Nat
    BY SizesAssumption
  <2>2. s[1] \in Lengths /\ s[Len(w) + 2] \in Lengths
    BY <1>1, <1>3, <1>4, <2>1 DEF Lengths, Total
  <2>3. s # <<>> /\ DOMAIN s = 1..Len(s)
    <3>1. DOMAIN s = 1..Len(s) /\ Len(s) >= 2
      BY <1>1, <1>6, LenProperties DEF Total
    <3> QED
      BY <3>1, EmptySeq
  <2>4. \A i \in 1..Len(s) : \/ i = 1 \/ i = Len(w) + 2
                             \/ i - 1 \in 1..Len(w)
                             \/ i - (Len(w) + 2) \in 1..Len(a)
                             \/ i - (Len(w) + Len(a) + 2) \in 1..Len(n)
    BY <1>1, <1>6 DEF Total
  <2>5. /\ \A i \in 1..Len(w) : s[1 + i] = w[i] /\ w[i] \in Items
        /\ \A i \in 1..Len(a) : s[(Len(w) + 2) + i] = a[i] /\ a[i] \in Items
        /\ \A i \in 1..Len(n) : s[(Len(w) + Len(a) + 2) + i] = n[i] /\ n[i] \in Items
    BY <1>2, ElementOfSeq DEF Lies
  <2>6. ASSUME NEW i \in 1..Len(s), i # 1, i # Len(w) + 2
        PROVE  s[i] \in Items
    <3>1. CASE i - 1 \in 1..Len(w)
      <4>1. 1 + (i - 1) = i
        OBVIOUS
      <4> QED
        BY <2>5, <3>1, <4>1
    <3>2. CASE i - (Len(w) + 2) \in 1..Len(a)
      <4>1. (Len(w) + 2) + (i - (Len(w) + 2)) = i
        BY <1>1
      <4> QED
        BY <2>5, <3>2, <4>1
    <3>3. CASE i - (Len(w) + Len(a) + 2) \in 1..Len(n)
      <4>1. (Len(w) + Len(a) + 2) + (i - (Len(w) + Len(a) + 2)) = i
        BY <1>1
      <4> QED
        BY <2>5, <3>3, <4>1
    <3> QED
      BY <2>4, <2>6, <3>1, <3>2, <3>3
  <2>7. Len(w) + 2 <= Len(s) /\ Len(w) + 2 + Len(a) <= Len(s)
    BY <1>1, <1>6 DEF Total
  <2> QED
    BY <1>3, <1>4, <2>2, <2>3, <2>6, <2>7 DEF WellFormed
<1>7. ASSUME Len(s) = Total(w, a, n)
      PROVE  Parsed(s) = Rec(w, a, n)
  <2>1. Between(s, 1, s[1] + 1) = w
    <3>1. SubSeq(s, 1 + 1, 1 + Len(w)) = w
      BY <1>1, <1>2, LiesIs
    <3>2. 1 + Len(w) = s[1] + 1
      BY <1>1, <1>3
    <3> QED
      BY <3>1, <3>2 DEF Between
  <2>2. s[s[1] + 2] = Len(a) /\ s[1] + 2 = Len(w) + 2
        /\ s[1] + 2 + s[s[1] + 2] = (Len(w) + 2) + Len(a)
        /\ (Len(w) + 2) + Len(a) = Len(w) + Len(a) + 2
    BY <1>1, <1>3, <1>4
  <2>3. Between(s, s[1] + 2, s[1] + 2 + s[s[1] + 2]) = a
    <3>1. SubSeq(s, (Len(w) + 2) + 1, (Len(w) + 2) + Len(a)) = a
      BY <1>1, <1>2, LiesIs
    <3> QED
      BY <2>2, <3>1 DEF Between
  <2>4. Between(s, s[1] + 2 + s[s[1] + 2], Len(s)) = n
    <3>1. SubSeq(s, (Len(w) + Len(a) + 2) + 1, (Len(w) + Len(a) + 2) + Len(n)) = n
      BY <1>1, <1>2, LiesIs
    <3>2. (Len(w) + Len(a) + 2) + Len(n) = Len(s)
      BY <1>1, <1>7 DEF Total
    <3> QED
      BY <2>2, <3>1, <3>2 DEF Between
  <2> QED
    BY <2>1, <2>3, <2>4 DEF Parsed, Rec
<1> QED
  BY <1>3, <1>4, <1>5, <1>6, <1>7

\* A well-formed body is framed by the lists that are parsed from it.
LEMMA WellFormedIs ==
    ASSUME NEW s \in Seq(Cells), WellFormed(s)
    PROVE  \E w, a, n \in Seq(Items) : Framed(s, w, a, n) /\ Len(s) = Total(w, a, n)
<1> DEFINE k == s[1]
           l == s[k + 2]
           w == SubSeq(s, 1 + 1, k + 1)
           a == SubSeq(s, (k + 2) + 1, k + 2 + l)
           n == SubSeq(s, (k + 2 + l) + 1, Len(s))
<1>1. /\ k \in Nat /\ l \in Nat /\ k + 2 + l <= Len(s) /\ Len(s) \in Nat
      /\ DOMAIN s = 1..Len(s) /\ k + 2 <= Len(s)
      /\ \A i \in 1..Len(s) : i # 1 /\ i # k + 2 => s[i] \in Items
  <2>1. Lengths \subseteq Nat
    BY SizesAssumption DEF Lengths
  <2> QED
    BY <2>1, LenProperties DEF WellFormed
<1>2. s[1] = k /\ s[(k + 1) + 1] = l
  <2>1. (k + 1) + 1 = k + 2
    BY <1>1
  <2> QED
    BY <2>1
<1> HIDE DEF k, l
<1>3. w \in Seq(Cells) /\ Len(w) = k /\ Lies(s, 1, w)
  <2>1. 1 \in 0..Len(s) /\ k + 1 \in 1..Len(s) /\ (k + 1) - 1 = k
    BY <1>1
  <2> QED
    BY <2>1, PieceLies
<1>4. a \in Seq(Cells) /\ Len(a) = l /\ Lies(s, k + 2, a)
  <2>1. k + 2 \in 0..Len(s) /\ k + 2 + l \in k + 2..Len(s) /\ (k + 2 + l) - (k + 2) = l
    BY <1>1
  <2> QED
    BY <2>1, PieceLies
<1>5. n \in Seq(Cells) /\ Len(n) = Len(s) - (k + 2 + l) /\ Lies(s, k + 2 + l, n)
  <2>1. k + 2 + l \in 0..Len(s) /\ Len(s) \in k + 2 + l..Len(s)
    BY <1>1
  <2> QED
    BY <2>1, PieceLies
<1> HIDE DEF w, a, n
<1>6. ASSUME NEW j \in Nat, NEW t \in Seq(Cells), Lies(s, j, t),
             \A i \in 1..Len(t) : j + i # 1 /\ j + i # k + 2
      PROVE  t \in Seq(Items)
  <2>1. \A i \in 1..Len(t) : t[i] \in Items
    <3>1. Len(t) \in Nat /\ j + Len(t) <= Len(s) /\ \A i \in 1..Len(t) : s[j + i] = t[i]
      BY <1>6, LenProperties DEF Lies
    <3>2. \A i \in 1..Len(t) : j + i \in 1..Len(s)
      BY <1>1, <3>1
    <3> QED
      BY <1>1, <1>6, <3>1, <3>2
  <2>2. t \in [1..Len(t) -> Items] /\ Len(t) \in Nat
    BY <2>1, LenProperties
  <2> QED
    BY <2>2, SeqDef
<1>7. w \in Seq(Items)
  BY <1>1, <1>3, <1>6
<1>8. a \in Seq(Items)
  <2>1. k + 2 \in Nat /\ \A i \in 1..Len(a) : (k + 2) + i # 1 /\ (k + 2) + i # k + 2
    BY <1>1, <1>4
  <2> QED
    BY <1>4, <1>6, <2>1
<1>9. n \in Seq(Items)
  <2>1. k + 2 + l \in Nat
        /\ \A i \in 1..Len(n) : (k + 2 + l) + i # 1 /\ (k + 2 + l) + i # k + 2
    BY <1>1, <1>5
  <2> QED
    BY <1>5, <1>6, <2>1
<1>10. Lies(s, 0, <<k>>) /\ Lies(s, k + 1, <<l>>)
  <2>1. k + 1 \in Nat /\ 0 + 1 <= Len(s) /\ (k + 1) + 1 <= Len(s) /\ 0 + 1 = 1
    BY <1>1
  <2> QED
    BY <1>2, <2>1, CellLies
<1>11. Len(s) = Total(w, a, n) /\ k + 2 + l = k + l + 2
  BY <1>1, <1>3, <1>4, <1>5 DEF Total
<1>12. Framed(s, w, a, n)
  BY <1>3, <1>4, <1>5, <1>10, <1>11 DEF Framed
<1> QED
  BY <1>7, <1>8, <1>9, <1>11, <1>12

-----------------------------------------------------------------------------
(* The operators on one message *)

\* What stays when a field is opened or closed.
Alike(r, m) ==
    /\ r \in Messages /\ r.type = m.type /\ r.err = m.err /\ r.bufsiz = m.bufsiz
    /\ r.alloc = m.alloc /\ r.stray = m.stray

\* What the first cells and the length of a message in order are.
LEMMA HoldsFit ==
    ASSUME NEW m, NEW w \in Seq(Items), NEW a \in Seq(Items), NEW n \in Seq(Items),
           Holds(m, w, a, n), m.pktlen <= MaxSize
    PROVE  /\ Total(w, a, n) <= MaxSize /\ m.pktlen = Total(w, a, n)
           /\ w \in Seq(Cells) /\ a \in Seq(Cells) /\ n \in Seq(Cells)
           /\ Len(w) \in Nat /\ Len(a) \in Nat /\ Len(n) \in Nat
           /\ <<Len(w)>> \in Seq(Cells) /\ <<Len(a)>> \in Seq(Cells)
<1>1. m.pktlen = Total(w, a, n)
  BY DEF Holds, Total
<1> QED
  BY <1>1, ListsAre

\* bgprestore puts the cells set aside back behind what was written.
LEMMA RestoredIs ==
    ASSUME NEW m \in Messages, ~m.stray, m.at = m.alloc, m.pktlen <= m.bufsiz,
           m.uptr + Len(m.pres) = m.pktlen, m.uptr <= Len(m.cells),
           m.ustart \in 1..m.uptr, <<m.uptr - m.ustart>> \in Seq(Cells)
    PROVE  LET r == Restored(m)
           IN  /\ Alike(r, m) /\ r.pktlen = m.pktlen /\ r.flags = m.flags
               /\ Lies(r.cells, m.uptr, m.pres)
               /\ Lies(r.cells, m.ustart - 1, <<m.uptr - m.ustart>>)
               /\ \A k \in Nat, u \in Seq(Cells) :
                     Lies(m.cells, k, u) /\ k + Len(u) <= m.uptr
                     /\ (k + Len(u) <= m.ustart - 1 \/ m.ustart <= k) => Lies(r.cells, k, u)
<1> DEFINE back == Copy(m.cells, m.uptr, m.pres)
           cell == <<m.uptr - m.ustart>>
           c == Copy(back, m.ustart - 1, cell)
           r == [m EXCEPT !.cells = c, !.pres = <<>>]
<1>1. /\ m.cells \in Seq(Cells) /\ m.pres \in Seq(Cells) /\ m.pktlen \in Nat
      /\ m.uptr \in Nat /\ m.ustart \in Nat
      /\ Len(m.cells) \in Nat /\ Len(m.pres) \in Nat
  BY LenProperties DEF Messages
<1>2. m.pktlen - m.uptr = Len(m.pres) /\ Len(m.pres) \in 0..Len(m.pres)
  BY <1>1
<1>3. SubSeq(m.pres, 1, m.pktlen - m.uptr) = m.pres
  <2>1. SubSeq(m.pres, 1, Len(m.pres)) = m.pres
    BY <1>1, SubSeqFull
  <2> QED
    BY <1>2, <2>1
<1>4. Restored(m) = r
  <2> DEFINE k == m.pktlen - m.uptr
  <2>1. Restored(m) =
          IF m.at # m.alloc \/ k \notin 0..Len(m.pres) \/ m.pktlen > m.bufsiz
            THEN [m EXCEPT !.stray = TRUE]
            ELSE [m EXCEPT !.cells = Copy(Copy(@, m.uptr, SubSeq(m.pres, 1, k)),
                                          m.ustart - 1, <<m.uptr - m.ustart>>),
                           !.pres  = <<>>]
    BY DEF Restored
  <2>2. k \in 0..Len(m.pres) /\ ~ (m.pktlen > m.bufsiz)
    <3>1. m.bufsiz \in Nat
      BY DEF Messages
    <3> QED
      BY <1>1, <1>2, <3>1
  <2>3. SubSeq(m.pres, 1, k) = m.pres
    BY <1>3
  <2> HIDE DEF k
  <2> QED
    BY <2>1, <2>2, <2>3
<1>5. m.uptr \in 0..Len(m.cells)
  BY <1>1
<1>6. /\ back \in Seq(Cells) /\ Len(m.cells) <= Len(back) /\ Lies(back, m.uptr, m.pres)
      /\ \A k \in Nat, u \in Seq(Cells) :
            Lies(m.cells, k, u) /\ (k + Len(u) <= m.uptr \/ m.uptr + Len(m.pres) <= k)
            => Lies(back, k, u)
  BY <1>1, <1>5, CopyLies
<1> HIDE DEF back
<1>7. m.ustart - 1 \in 0..Len(back) /\ Len(cell) = 1 /\ cell \in Seq(Cells)
  BY <1>1, <1>6, LenProperties
<1> HIDE DEF cell
<1>8. /\ c \in Seq(Cells) /\ Lies(c, m.ustart - 1, cell)
      /\ \A k \in Nat, u \in Seq(Cells) :
            Lies(back, k, u) /\ (k + Len(u) <= m.ustart - 1 \/ (m.ustart - 1) + 1 <= k)
            => Lies(c, k, u)
  BY <1>6, <1>7, CopyLies
<1> HIDE DEF c
<1>9. (m.ustart - 1) + 1 = m.ustart
  BY <1>1
<1>10. Lies(c, m.uptr, m.pres)
  BY <1>1, <1>6, <1>8, <1>9
<1>11. ASSUME NEW k \in Nat, NEW u \in Seq(Cells), Lies(m.cells, k, u), k + Len(u) <= m.uptr,
              k + Len(u) <= m.ustart - 1 \/ m.ustart <= k
       PROVE  Lies(c, k, u)
  BY <1>6, <1>8, <1>9, <1>11
<1>12. <<>> \in Seq(Cells)
  BY EmptySeq
<1>13. /\ Alike(r, m) /\ r.pktlen = m.pktlen /\ r.flags = m.flags /\ r.cells = c
  BY <1>8, <1>12 DEF Alike, Messages
<1> QED
  BY <1>4, <1>8, <1>10, <1>11, <1>13 DEF cell

\* A message in which a field is open.
Open(m, f) ==
    /\ m \in Messages /\ ~m.stray /\ f \in FieldFlags /\ Pending(m) = {f}
    /\ m.at = m.alloc /\ m.pktlen <= m.bufsiz /\ m.pktlen <= MaxSize

\* Closing a field leaves a message that stands for the same document.
LEMMA EndFieldIs ==
    ASSUME NEW m, NEW f, Open(m, f),
           NEW w \in Seq(Items), NEW a \in Seq(Items), NEW n \in Seq(Items), Holds(m, w, a, n)
    PROVE  LET e == EndField(m, f)
           IN  /\ Alike(e, m) /\ e.flags = m.flags \ {f} /\ Pending(e) = {}
               /\ e.pktlen = m.pktlen /\ Holds(e, w, a, n)
<1> DEFINE r == IF f = "F_NLRI" THEN m ELSE Restored(m)
           e == [r EXCEPT !.flags = @ \ {f}]
           flags == m.flags \ {f}
<1>1. /\ m \in Messages /\ ~m.stray /\ f \in FieldFlags /\ Pending(m) = {f}
      /\ m.at = m.alloc /\ m.pktlen <= m.bufsiz /\ m.pktlen <= MaxSize
  BY DEF Open
<1>2. /\ w \in Seq(Cells) /\ a \in Seq(Cells) /\ n \in Seq(Cells)
      /\ Len(w) \in Nat /\ Len(a) \in Nat /\ Len(n) \in Nat
      /\ <<Len(w)>> \in Seq(Cells) /\ <<Len(a)>> \in Seq(Cells)
      /\ Len(<<Len(w)>>) = 1 /\ Len(<<Len(a)>>) = 1
      /\ m.pktlen = Len(w) + Len(a) + Len(n) + 2
  BY <1>1, HoldsFit DEF Total
<1>3. /\ m.cells \in Seq(Cells) /\ m.pres \in Seq(Cells)
      /\ Len(m.cells) \in Nat /\ Len(m.pres) \in Nat
  BY <1>1, LenProperties DEF Messages
<1>4. Alike(r, m) /\ r.pktlen = m.pktlen /\ r.flags = m.flags /\ Framed(r.cells, w, a, n)
  <2>1. CASE f = "F_NLRI"
    <3>1. Framed(m.cells, w, a, n)
      BY <1>1, <2>1 DEF Holds
    <3> QED
      BY <1>1, <2>1, <3>1 DEF Alike
  <2>2. CASE f = "F_WITHDRN"
    <3> DEFINE c == Restored(m).cells
    <3>1. /\ m.ustart = 1 /\ m.uptr = Len(w) + 1 /\ Lies(m.cells, 1, w)
          /\ Len(m.pres) = Len(a) + Len(n) + 1
          /\ Lies(m.pres, 0, <<Len(a)>>) /\ Lies(m.pres, 1, a) /\ Lies(m.pres, Len(a) + 1, n)
      BY <1>1, <2>2 DEF Holds
    <3>2. /\ m.uptr + Len(m.pres) = m.pktlen /\ m.uptr <= Len(m.cells)
          /\ m.ustart \in 1..m.uptr /\ m.uptr - m.ustart = Len(w) /\ m.ustart - 1 = 0
      BY <1>2, <1>3, <3>1 DEF Lies
    <3>3. /\ Alike(Restored(m), m) /\ Restored(m).pktlen = m.pktlen
          /\ Restored(m).flags = m.flags
          /\ Lies(c, m.uptr, m.pres) /\ Lies(c, 0, <<Len(w)>>)
          /\ Lies(m.cells, 1, w) /\ 1 + Len(w) <= m.uptr /\ m.ustart <= 1 => Lies(c, 1, w)
      BY <1>1, <1>2, <3>2, RestoredIs
    <3>4. Lies(c, 1, w) /\ c \in Seq(Cells) /\ m.uptr \in Nat
      BY <1>2, <3>1, <3>3 DEF Alike, Messages
    <3> HIDE DEF c
    <3>5. /\ Lies(c, m.uptr + 0, <<Len(a)>>) /\ Lies(c, m.uptr + 1, a)
          /\ Lies(c, m.uptr + (Len(a) + 1), n)
      <4>0. \A j \in Nat, u \in Seq(Cells) : Lies(m.pres, j, u) => Lies(c, m.uptr + j, u)
        BY <1>3, <3>3, <3>4, LiesWithin
      <4>1. Lies(c, m.uptr + 0, <<Len(a)>>)
        <5>1. 0 \in Nat /\ <<Len(a)>> \in Seq(Cells) /\ Lies(m.pres, 0, <<Len(a)>>)
          BY <1>2, <3>1
        <5> QED
          BY <4>0, <5>1
      <4>2. Lies(c, m.uptr + 1, a)
        <5>1. 1 \in Nat /\ a \in Seq(Cells) /\ Lies(m.pres, 1, a)
          BY <1>2, <3>1
        <5> QED
          BY <4>0, <5>1
      <4>3. Len(a) + 1 \in Nat
        BY <1>2
      <4> DEFINE j == Len(a) + 1
      <4> HIDE DEF j
      <4>4. j \in Nat /\ Lies(m.pres, j, n)
        BY <3>1, <4>3 DEF j
      <4>5. Lies(c, m.uptr + j, n)
        BY <1>2, <4>0, <4>4
      <4>6. Lies(c, m.uptr + (Len(a) + 1), n)
        BY <4>5 DEF j
      <4> QED
        BY <4>1, <4>2, <4>6
    <3>6. /\ m.uptr + 0 = Len(w) + 1 /\ m.uptr + 1 = Len(w) + 2
          /\ m.uptr + (Len(a) + 1) = Len(w) + Len(a) + 2
      BY <1>2, <3>1
    <3>7. Framed(c, w, a, n)
      BY <3>3, <3>4, <3>5, <3>6 DEF Framed
    <3> QED
      BY <2>2, <3>3, <3>7 DEF c
  <2>3. CASE f = "F_PATTR"
    <3> DEFINE c == Restored(m).cells
    <3>1. /\ m.ustart = Len(w) + 2 /\ m.uptr = Len(w) + Len(a) + 2
          /\ Lies(m.cells, 0, <<Len(w)>>) /\ Lies(m.cells, 1, w)
          /\ Lies(m.cells, Len(w) + 2, a)
          /\ Len(m.pres) = Len(n) /\ Lies(m.pres, 0, n)
      BY <1>1, <2>3 DEF Holds
    <3>2. /\ m.uptr + Len(m.pres) = m.pktlen /\ m.uptr <= Len(m.cells)
          /\ m.ustart \in 1..m.uptr /\ m.uptr - m.ustart = Len(a)
          /\ m.ustart - 1 = Len(w) + 1
      BY <1>2, <1>3, <3>1 DEF Lies
    <3>3. /\ Alike(Restored(m), m) /\ Restored(m).pktlen = m.pktlen
          /\ Restored(m).flags = m.flags
          /\ Lies(c, m.uptr, m.pres) /\ Lies(c, Len(w) + 1, <<Len(a)>>)
          /\ \A k \in Nat, u \in Seq(Cells) :
                Lies(m.cells, k, u) /\ k + Len(u) <= m.uptr
                /\ (k + Len(u) <= m.ustart - 1 \/ m.ustart <= k) => Lies(c, k, u)
      BY <1>1, <1>2, <3>2, RestoredIs
    <3>4. c \in Seq(Cells) /\ m.uptr \in Nat
      BY <1>2, <3>1, <3>3 DEF Alike, Messages
    <3> HIDE DEF c
    <3>5. Lies(c, 0, <<Len(w)>>)
      <4>1. 0 + Len(<<Len(w)>>) <= m.uptr /\ 0 + Len(<<Len(w)>>) <= m.ustart - 1
        BY <1>2, <3>1
      <4> QED
        BY <1>2, <3>1, <3>3, <4>1
    <3>6. Lies(c, 1, w)
      <4>1. 1 + Len(w) <= m.uptr /\ 1 + Len(w) <= m.ustart - 1
        BY <1>2, <3>1
      <4> QED
        BY <1>2, <3>1, <3>3, <4>1
    <3>7. Lies(c, Len(w) + 2, a)
      <4>1. Len(w) + 2 \in Nat /\ (Len(w) + 2) + Len(a) <= m.uptr /\ m.ustart <= Len(w) + 2
        BY <1>2, <3>1
      <4> QED
        BY <1>2, <3>1, <3>3, <4>1
    <3>8. Lies(c, m.uptr + 0, n) /\ m.uptr + 0 = Len(w) + Len(a) + 2
      BY <1>2, <1>3, <3>1, <3>3, <3>4, LiesWithin
    <3> QED
      BY <2>3, <3>3, <3>5, <3>6, <3>7, <3>8 DEF Framed, c
  <2> QED
    BY <1>1, <2>1, <2>2, <2>3 DEF FieldFlags
<1> HIDE DEF r
<1>5. flags \in SUBSET (FieldFlags \cup {"F_RD", "F_WR"}) /\ flags \cap FieldFlags = {}
  BY <1>1 DEF Messages, Pending
<1>6. e = [r EXCEPT !.flags = flags]
  BY <1>4
<1> HIDE DEF flags
<1>7. Alike(e, m) /\ e.flags = flags /\ e.pktlen = m.pktlen /\ e.cells = r.cells
  BY <1>4, <1>5, <1>6 DEF Alike, Messages
<1>8. e = EndField(m, f)
  BY DEF EndField, r
<1> HIDE DEF e
<1>9. Pending(e) = {}
  BY <1>5, <1>7 DEF Pending
<1>10. Holds(e, w, a, n)
  BY <1>2, <1>4, <1>7, <1>9 DEF Holds
<1> QED
  BY <1>7, <1>8, <1>9, <1>10 DEF flags

\* A message whose buffer holds all that is counted.
Ready(m) ==
    /\ m \in Messages /\ ~m.stray /\ m.pktlen <= m.bufsiz /\ m.pktlen <= MaxSize
    /\ Pending(m) \in {{}, {"F_WITHDRN"}, {"F_PATTR"}, {"F_NLRI"}}
    /\ Pending(m) # {} => m.at = m.alloc

\* Closing the field that is open, if there is one.
LEMMA EndPendingIs ==
    ASSUME NEW m, Ready(m),
           NEW w \in Seq(Items), NEW a \in Seq(Items), NEW n \in Seq(Items), Holds(m, w, a, n)
    PROVE  LET e == EndPending(m)
           IN  /\ Alike(e, m) /\ e.flags = m.flags \ FieldFlags /\ Pending(e) = {}
               /\ e.pktlen = m.pktlen /\ Holds(e, w, a, n)
<1>1. CASE Pending(m) = {}
  <2>1. EndPending(m) = m
    BY <1>1 DEF EndPending
  <2>2. m.flags = m.flags \ FieldFlags
    BY <1>1 DEF Pending, Ready, Messages
  <2>3. Alike(m, m)
    BY DEF Alike, Ready
  <2> QED
    BY <1>1, <2>1, <2>2, <2>3
<1>2. ASSUME NEW f \in FieldFlags, Pending(m) = {f}
      PROVE  LET e == EndPending(m)
             IN  /\ Alike(e, m) /\ e.flags = m.flags \ FieldFlags /\ Pending(e) = {}
                 /\ e.pktlen = m.pktlen /\ Holds(e, w, a, n)
  <2>1. EndPending(m) = EndField(m, f)
    <3>1. (CHOOSE g \in {f} : TRUE) = f
      OBVIOUS
    <3>2. Pending(m) # {}
      BY <1>2
    <3> QED
      BY <1>2, <3>1, <3>2 DEF EndPending
  <2>2. Open(m, f)
    BY <1>2 DEF Open, Ready
  <2>3. LET e == EndField(m, f)
        IN  /\ Alike(e, m) /\ e.flags = m.flags \ {f} /\ Pending(e) = {}
            /\ e.pktlen = m.pktlen /\ Holds(e, w, a, n)
    BY <2>2, EndFieldIs
  <2>4. m.flags \ {f} = m.flags \ FieldFlags
    BY <1>2 DEF Pending
  <2> QED
    BY <2>1, <2>3, <2>4
<1>3. Pending(m) = {} \/ \E f \in FieldFlags : Pending(m) = {f}
  BY DEF Ready, FieldFlags
<1> QED
  BY <1>1, <1>2, <1>3

\* A message in which no field is open.
Still(m) == Ready(m) /\ Pending(m) = {}

\* The lengths in the buffer tell where the fields are.
LEMMA SectionIs ==
    ASSUME NEW m, Still(m),
           NEW w \in Seq(Items), NEW a \in Seq(Items), NEW n \in Seq(Items), Holds(m, w, a, n)
    PROVE  /\ Framed(m.cells, w, a, n) /\ m.pktlen <= Len(m.cells)
           /\ WithdrawnLen(m) = Len(w) /\ AttribsAt(m) = Len(w) + 2
           /\ AttribsLen(m) = Len(a) /\ NlriAt(m) = Len(w) + Len(a) + 2
           /\ Section(m, "F_WITHDRN") = [ptr |-> 1, n |-> Len(w)]
           /\ Section(m, "F_PATTR") = [ptr |-> Len(w) + 2, n |-> Len(a)]
           /\ Section(m, "F_NLRI") = [ptr |-> Len(w) + Len(a) + 2, n |-> Len(n)]
<1>1. m \in Messages /\ Pending(m) = {} /\ m.pktlen <= MaxSize
  BY DEF Still, Ready
<1>2. /\ Total(w, a, n) <= MaxSize /\ m.pktlen = Total(w, a, n)
      /\ Len(w) \in Nat /\ Len(a) \in Nat /\ Len(n) \in Nat
  BY <1>1, HoldsFit
<1>3. m.cells \in Seq(Cells) /\ Framed(m.cells, w, a, n)
  BY <1>1 DEF Messages, Holds
<1>4. Total(w, a, n) <= Len(m.cells) /\ m.cells[1] = Len(w) /\ m.cells[Len(w) + 2] = Len(a)
  BY <1>2, <1>3, FramedIs
<1>5. WithdrawnLen(m) = Len(w) /\ AttribsAt(m) = Len(w) + 2 /\ AttribsLen(m) = Len(a)
  BY <1>4 DEF WithdrawnLen, AttribsAt, AttribsLen
<1>6. NlriAt(m) = Len(w) + Len(a) + 2
  BY <1>2, <1>5 DEF NlriAt
<1>7. m.pktlen - (Len(w) + Len(a) + 2) = Len(n)
  BY <1>2 DEF Total
<1> QED
  BY <1>2, <1>3, <1>4, <1>5, <1>6, <1>7 DEF Section

\* The empty list.
LEMMA NothingIs ==
    /\ <<>> \in Seq(Items) /\ <<>> \in Seq(Cells) /\ Len(<<>>) = 0
    /\ \A s, k : k <= Len(s) /\ k \in Nat => Lies(s, k, <<>>)
<1>1. <<>> \in Seq(Items) /\ <<>> \in Seq(Cells) /\ Len(<<>>) = 0
  BY EmptySeq
<1>2. \A i \in 1..0 : FALSE
  OBVIOUS
<1> QED
  BY <1>1, <1>2 DEF Lies

\* What is behind the withdrawn routes.
LEMMA BehindWithdrawn ==
    ASSUME NEW m, Still(m),
           NEW w \in Seq(Items), NEW a \in Seq(Items), NEW n \in Seq(Items), Holds(m, w, a, n)
    PROVE  LET p == SubSeq(m.cells, (Len(w) + 1) + 1, m.pktlen)
           IN  /\ p \in Seq(Cells) /\ Len(p) = Len(a) + Len(n) + 1
               /\ Lies(p, 0, <<Len(a)>>) /\ Lies(p, 1, a) /\ Lies(p, Len(a) + 1, n)
<1> DEFINE p == SubSeq(m.cells, (Len(w) + 1) + 1, m.pktlen)
<1>1. m \in Messages /\ m.pktlen <= MaxSize
  BY DEF Still, Ready
<1>2. /\ w \in Seq(Cells) /\ a \in Seq(Cells) /\ n \in Seq(Cells)
      /\ Len(w) \in Nat /\ Len(a) \in Nat /\ Len(n) \in Nat
      /\ <<Len(a)>> \in Seq(Cells) /\ Len(<<Len(a)>>) = 1
      /\ m.pktlen = Len(w) + Len(a) + Len(n) + 2
  BY <1>1, HoldsFit DEF Total
<1>3. /\ m.cells \in Seq(Cells) /\ Len(m.cells) \in Nat /\ m.pktlen \in Nat
      /\ m.pktlen <= Len(m.cells)
  BY <1>1, LenProperties, SectionIs DEF Messages
<1>4. /\ Lies(m.cells, Len(w) + 1, <<Len(a)>>) /\ Lies(m.cells, Len(w) + 2, a)
      /\ Lies(m.cells, Len(w) + Len(a) + 2, n)
  BY SectionIs DEF Framed
<1>5. Len(w) + 1 \in 0..Len(m.cells) /\ m.pktlen \in Len(w) + 1..Len(m.cells)
  BY <1>2, <1>3
<1>6. p \in Seq(Cells) /\ Len(p) = m.pktlen - (Len(w) + 1) /\ Lies(m.cells, Len(w) + 1, p)
  BY <1>3, <1>5, PieceLies
<1> HIDE DEF p
<1>7. Len(p) = Len(a) + Len(n) + 1
  BY <1>2, <1>6
<1>8. Lies(p, 0, <<Len(a)>>) /\ Lies(p, 1, a) /\ Lies(p, Len(a) + 1, n)
  <2> DEFINE k == Len(w) + 1
  <2>1. k \in Nat /\ k + 0 = Len(w) + 1 /\ k + 1 = Len(w) + 2
        /\ k + (Len(a) + 1) = Len(w) + Len(a) + 2
    BY <1>2
  <2>2. Lies(m.cells, k, p)
    BY <1>6
  <2> HIDE DEF k
  <2>3. Lies(m.cells, k + 0, <<Len(a)>>) /\ Lies(m.cells, k + 1, a)
        /\ Lies(m.cells, k + (Len(a) + 1), n)
    BY <1>4, <2>1
  <2>4. 0 + Len(<<Len(a)>>) <= Len(p) /\ 1 + Len(a) <= Len(p)
        /\ (Len(a) + 1) + Len(n) <= Len(p) /\ Len(a) + 1 \in Nat
    BY <1>2, <1>7
  <2>5. \A j \in Nat, u \in Seq(Cells) :
           Lies(m.cells, k + j, u) /\ j + Len(u) <= Len(p) => Lies(p, j, u)
    BY <1>3, <1>6, <2>1, <2>2, LiesWithin
  <2> QED
    BY <1>2, <2>3, <2>4, <2>5
<1> QED
  BY <1>6, <1>7, <1>8 DEF p

\* A start call leaves the field empty and what is behind it set aside.
LEMMA OpenedIs ==
    ASSUME NEW m, Still(m), NEW f \in FieldFlags,
           NEW w \in Seq(Items), NEW a \in Seq(Items), NEW n \in Seq(Items), Holds(m, w, a, n)
    PROVE  LET o == Opened(m, f)
           IN  /\ Alike(o, m) /\ o.flags = m.flags \cup {f} /\ Pending(o) = {f}
               /\ o.at = o.alloc /\ o.pktlen <= m.pktlen
               /\ Holds(o, IF f = "F_WITHDRN" THEN <<>> ELSE w,
                           IF f = "F_PATTR" THEN <<>> ELSE a,
                           IF f = "F_NLRI" THEN <<>> ELSE n)
<1>1. m \in Messages /\ Pending(m) = {} /\ m.pktlen <= MaxSize
  BY DEF Still, Ready
<1>2. /\ w \in Seq(Cells) /\ a \in Seq(Cells) /\ n \in Seq(Cells)
      /\ Len(w) \in Nat /\ Len(a) \in Nat /\ Len(n) \in Nat
      /\ <<Len(w)>> \in Seq(Cells) /\ <<Len(a)>> \in Seq(Cells)
      /\ Len(<<Len(w)>>) = 1 /\ Len(<<Len(a)>>) = 1
      /\ m.pktlen = Len(w) + Len(a) + Len(n) + 2
  BY <1>1, HoldsFit DEF Total
<1>3. /\ m.cells \in Seq(Cells) /\ Len(m.cells) \in Nat /\ m.pktlen \in Nat
      /\ m.alloc \in Nat /\ m.pktlen <= Len(m.cells)
      /\ m.flags \in SUBSET (FieldFlags \cup {"F_RD", "F_WR"})
  BY <1>1, LenProperties, SectionIs DEF Messages
<1>4. /\ Lies(m.cells, 0, <<Len(w)>>) /\ Lies(m.cells, 1, w)
      /\ Lies(m.cells, Len(w) + 1, <<Len(a)>>) /\ Lies(m.cells, Len(w) + 2, a)
      /\ Lies(m.cells, Len(w) + Len(a) + 2, n)
  BY SectionIs DEF Framed
<1>5. /\ Section(m, "F_WITHDRN") = [ptr |-> 1, n |-> Len(w)]
      /\ Section(m, "F_PATTR") = [ptr |-> Len(w) + 2, n |-> Len(a)]
      /\ Section(m, "F_NLRI") = [ptr |-> Len(w) + Len(a) + 2, n |-> Len(n)]
  BY SectionIs
\* Which record a start call makes, given where the field is.
<1>6. ASSUME NEW p \in Nat, NEW k \in Nat, Section(m, f) = [ptr |-> p, n |-> k],
             k <= m.pktlen, NEW pres \in Seq(Cells),
             pres = IF f = "F_NLRI" THEN <<>> ELSE SubSeq(m.cells, p + k + 1, m.pktlen)
      PROVE  LET o == Opened(m, f)
             IN  /\ Alike(o, m) /\ o.flags = m.flags \cup {f} /\ Pending(o) = {f}
                 /\ o.at = o.alloc /\ o.pktlen = m.pktlen - k /\ o.ustart = p /\ o.uptr = p
                 /\ o.pres = pres /\ o.cells = m.cells
  <2> DEFINE len == m.pktlen - k
             flags == m.flags \cup {f}
             o == [m EXCEPT !.pktlen = len, !.flags = flags, !.at = m.alloc,
                            !.ustart = p, !.uptr = p, !.pres = pres]
  <2>1. len \in Nat /\ flags \in SUBSET (FieldFlags \cup {"F_RD", "F_WR"})
        /\ flags \cap FieldFlags = {f}
    BY <1>1, <1>3, <1>6 DEF Pending
  <2>2. Opened(m, f) = o
    BY <1>1, <1>6 DEF Opened, Messages
  <2> HIDE DEF len, flags
  <2>3. /\ Alike(o, m) /\ o.flags = flags /\ o.at = o.alloc /\ o.pktlen = len
        /\ o.ustart = p /\ o.uptr = p /\ o.pres = pres /\ o.cells = m.cells
    BY <1>1, <1>3, <1>6, <2>1 DEF Alike, Messages
  <2> HIDE DEF o
  <2>4. Pending(o) = {f}
    BY <2>1, <2>3 DEF Pending
  <2> QED
    BY <2>2, <2>3, <2>4 DEF len, flags
<1> DEFINE o == Opened(m, f)
<1>7. CASE f = "F_WITHDRN"
  <2> DEFINE p == SubSeq(m.cells, (Len(w) + 1) + 1, m.pktlen)
  <2>2. /\ p \in Seq(Cells) /\ Len(p) = Len(a) + Len(n) + 1
        /\ Lies(p, 0, <<Len(a)>>) /\ Lies(p, 1, a) /\ Lies(p, Len(a) + 1, n)
    BY BehindWithdrawn
  <2>3. p = SubSeq(m.cells, 1 + Len(w) + 1, m.pktlen)
    <3>1. 1 + Len(w) + 1 = (Len(w) + 1) + 1
      BY <1>2
    <3> QED
      BY <3>1
  <2> HIDE DEF p
  <2>4. /\ Alike(o, m) /\ o.flags = m.flags \cup {f} /\ Pending(o) = {f}
        /\ o.at = o.alloc /\ o.pktlen = m.pktlen - Len(w) /\ o.ustart = 1 /\ o.uptr = 1
        /\ o.pres = p /\ o.cells = m.cells
    <3> DEFINE l == Len(w)
    <3>1. /\ 1 \in Nat /\ l \in Nat /\ l <= m.pktlen /\ p \in Seq(Cells)
          /\ Section(m, f) = [ptr |-> 1, n |-> l]
          /\ p = IF f = "F_NLRI" THEN <<>> ELSE SubSeq(m.cells, 1 + l + 1, m.pktlen)
      BY <1>2, <1>5, <1>7, <2>2, <2>3
    <3> HIDE DEF l
    <3>2. /\ Alike(o, m) /\ o.flags = m.flags \cup {f} /\ Pending(o) = {f}
          /\ o.at = o.alloc /\ o.pktlen = m.pktlen - l /\ o.ustart = 1 /\ o.uptr = 1
          /\ o.pres = p /\ o.cells = m.cells
      BY <1>6, <3>1, Zenon
    <3> QED
      BY <3>2 DEF l
  <2> HIDE DEF o
  <2>7. Lies(m.cells, 1, <<>>) /\ Len(<<>>) = 0
    <3>1. 1 <= Len(m.cells)
      BY <1>2, <1>3
    <3> QED
      BY <3>1, NothingIs
  <2>8. o.pktlen <= m.pktlen /\ o.pktlen = 0 + Len(a) + Len(n) + 2
    BY <1>2, <2>4
  <2>9. Holds(o, <<>>, a, n)
    <3> DEFINE none == <<>>
    <3>1. Lies(m.cells, 1, none) /\ Len(none) = 0
      BY <2>7
    <3> HIDE DEF none
    <3>2. Pending(o) = {"F_WITHDRN"}
      BY <1>7, <2>4
    <3>3. o.pktlen = Len(none) + Len(a) + Len(n) + 2 /\ o.uptr = Len(none) + 1
      BY <2>4, <2>8, <3>1
    <3>4. Holds(o, none, a, n)
      BY <2>2, <2>4, <3>1, <3>2, <3>3 DEF Holds
    <3> QED
      BY <3>4 DEF none
  <2> QED
    BY <1>7, <2>4, <2>8, <2>9 DEF o
<1>8. CASE f = "F_PATTR"
  <2> DEFINE p == SubSeq(m.cells, (Len(w) + Len(a) + 2) + 1, m.pktlen)
  <2>1. Len(w) + Len(a) + 2 \in 0..Len(m.cells)
        /\ m.pktlen \in Len(w) + Len(a) + 2..Len(m.cells)
    BY <1>2, <1>3
  <2>2. /\ p \in Seq(Cells) /\ Len(p) = m.pktlen - (Len(w) + Len(a) + 2)
        /\ Lies(m.cells, Len(w) + Len(a) + 2, p)
    BY <1>3, <2>1, PieceLies
  <2>3. p = SubSeq(m.cells, Len(w) + 2 + Len(a) + 1, m.pktlen)
    <3>1. Len(w) + 2 + Len(a) + 1 = (Len(w) + Len(a) + 2) + 1
      BY <1>2
    <3> QED
      BY <3>1
  <2> HIDE DEF p
  <2>4. /\ Alike(o, m) /\ o.flags = m.flags \cup {f} /\ Pending(o) = {f}
        /\ o.at = o.alloc /\ o.pktlen = m.pktlen - Len(a)
        /\ o.ustart = Len(w) + 2 /\ o.uptr = Len(w) + 2
        /\ o.pres = p /\ o.cells = m.cells
    <3> DEFINE q == Len(w) + 2
    <3>1. Len(a) <= m.pktlen /\ q \in Nat
      BY <1>2
    <3>2. p = SubSeq(m.cells, q + Len(a) + 1, m.pktlen) /\ Section(m, f) = [ptr |-> q, n |-> Len(a)]
      BY <1>5, <1>8, <2>3
    <3> HIDE DEF q
    <3>3. p = IF f = "F_NLRI" THEN <<>> ELSE SubSeq(m.cells, q + Len(a) + 1, m.pktlen)
      BY <1>8, <3>2
    <3>4. /\ Alike(o, m) /\ o.flags = m.flags \cup {f} /\ Pending(o) = {f}
          /\ o.at = o.alloc /\ o.pktlen = m.pktlen - Len(a)
          /\ o.ustart = q /\ o.uptr = q /\ o.pres = p /\ o.cells = m.cells
      <4> DEFINE l == Len(a)
      <4>1. q \in Nat /\ l \in Nat /\ l <= m.pktlen /\ p \in Seq(Cells)
            /\ Section(m, f) = [ptr |-> q, n |-> l]
            /\ p = IF f = "F_NLRI" THEN <<>> ELSE SubSeq(m.cells, q + l + 1, m.pktlen)
        BY <1>2, <2>2, <3>1, <3>2, <3>3
      <4> HIDE DEF l
      <4>2. /\ Alike(o, m) /\ o.flags = m.flags \cup {f} /\ Pending(o) = {f}
            /\ o.at = o.alloc /\ o.pktlen = m.pktlen - l
            /\ o.ustart = q /\ o.uptr = q /\ o.pres = p /\ o.cells = m.cells
        BY <1>6, <4>1, Zenon
      <4> QED
        BY <4>2 DEF l
    <3> QED
      BY <3>4 DEF q
  <2> HIDE DEF o
  <2>5. Len(p) = Len(n)
    BY <1>2, <2>2
  <2>6. Lies(p, 0, n)
    <3> DEFINE k == Len(w) + Len(a) + 2
    <3>1. k \in Nat /\ k + 0 = k
      BY <1>2
    <3>2. Lies(m.cells, k, p) /\ Lies(m.cells, k, n)
      BY <1>4, <2>2
    <3> HIDE DEF k
    <3>3. Lies(m.cells, k + 0, n) /\ 0 + Len(n) <= Len(p)
      BY <1>2, <2>5, <3>1, <3>2
    <3> QED
      BY <1>2, <1>3, <2>2, <3>1, <3>2, <3>3, LiesWithin
  <2>7. Lies(m.cells, Len(w) + 2, <<>>) /\ Len(<<>>) = 0
    <3>1. Len(w) + 2 <= Len(m.cells) /\ Len(w) + 2 \in Nat
      BY <1>2, <1>3
    <3> QED
      BY <3>1, NothingIs
  <2>8. o.pktlen <= m.pktlen /\ o.pktlen = Len(w) + 0 + Len(n) + 2 /\ o.uptr = Len(w) + 0 + 2
    BY <1>2, <2>4
  <2>9. Holds(o, w, <<>>, n)
    BY <1>4, <1>8, <2>4, <2>5, <2>6, <2>7, <2>8 DEF Holds
  <2> QED
    BY <1>8, <2>4, <2>8, <2>9 DEF o
<1>9. CASE f = "F_NLRI"
  <2> DEFINE k == Len(w) + Len(a) + 2
  <2>1. k \in Nat /\ Len(n) <= m.pktlen /\ m.pktlen - Len(n) = k
    BY <1>2
  <2>2. /\ Alike(o, m) /\ o.flags = m.flags \cup {f} /\ Pending(o) = {f}
        /\ o.at = o.alloc /\ o.pktlen = m.pktlen - Len(n)
        /\ o.ustart = k /\ o.uptr = k /\ o.cells = m.cells
    <3> DEFINE l == Len(n)
               none == <<>>
    <3>1. /\ k \in Nat /\ l \in Nat /\ l <= m.pktlen /\ none \in Seq(Cells)
          /\ Section(m, f) = [ptr |-> k, n |-> l]
          /\ none = IF f = "F_NLRI" THEN <<>> ELSE SubSeq(m.cells, k + l + 1, m.pktlen)
      BY <1>2, <1>5, <1>9, <2>1, NothingIs
    <3> HIDE DEF l, none, k
    <3>2. /\ Alike(o, m) /\ o.flags = m.flags \cup {f} /\ Pending(o) = {f}
          /\ o.at = o.alloc /\ o.pktlen = m.pktlen - l
          /\ o.ustart = k /\ o.uptr = k /\ o.cells = m.cells
      BY <1>6, <3>1, Zenon
    <3> QED
      BY <3>2 DEF l
  <2> HIDE DEF o
  <2>3. Lies(m.cells, k, <<>>) /\ Len(<<>>) = 0
    <3>1. k <= Len(m.cells)
      BY <1>2, <1>3
    <3> QED
      BY <2>1, <3>1, NothingIs
  <2>4. Framed(o.cells, w, a, <<>>)
    BY <1>4, <2>2, <2>3 DEF Framed
  <2>5. o.pktlen <= m.pktlen /\ o.pktlen = Len(w) + Len(a) + 0 + 2
    BY <1>2, <2>1, <2>2
  <2>6. Holds(o, w, a, <<>>)
    BY <1>9, <2>1, <2>2, <2>3, <2>4, <2>5 DEF Holds
  <2> QED
    BY <1>9, <2>2, <2>5, <2>6 DEF o
<1> QED
  BY <1>7, <1>8, <1>9 DEF FieldFlags

\* A cell written at the cursor is appended to the open list.
LEMMA WrittenIs ==
    ASSUME NEW m, NEW f, Open(m, f), m.pktlen < m.bufsiz, NEW x \in Items,
           NEW w \in Seq(Items), NEW a \in Seq(Items), NEW n \in Seq(Items), Holds(m, w, a, n)
    PROVE  LET r == Written(m, x)
           IN  /\ Alike(r, m) /\ r.flags = m.flags /\ Pending(r) = {f} /\ r.at = r.alloc
               /\ r.pktlen = m.pktlen + 1
               /\ Holds(r, IF f = "F_WITHDRN" THEN Append(w, x) ELSE w,
                           IF f = "F_PATTR" THEN Append(a, x) ELSE a,
                           IF f = "F_NLRI" THEN Append(n, x) ELSE n)
<1> DEFINE c == Copy(m.cells, m.uptr, <<x>>)
           at == m.uptr + 1
           len == m.pktlen + 1
           r == [m EXCEPT !.cells = c, !.uptr = at, !.pktlen = len]
<1>1. /\ m \in Messages /\ ~m.stray /\ f \in FieldFlags /\ Pending(m) = {f}
      /\ m.at = m.alloc /\ m.pktlen <= m.bufsiz /\ m.pktlen <= MaxSize
  BY DEF Open
<1>2. /\ w \in Seq(Cells) /\ a \in Seq(Cells) /\ n \in Seq(Cells)
      /\ Len(w) \in Nat /\ Len(a) \in Nat /\ Len(n) \in Nat
      /\ <<Len(w)>> \in Seq(Cells) /\ <<Len(a)>> \in Seq(Cells)
      /\ Len(<<Len(w)>>) = 1 /\ Len(<<Len(a)>>) = 1
      /\ m.pktlen = Len(w) + Len(a) + Len(n) + 2
  BY <1>1, HoldsFit DEF Total
<1>3. /\ m.cells \in Seq(Cells) /\ Len(m.cells) \in Nat
      /\ m.pktlen \in Nat /\ m.uptr \in Nat /\ m.bufsiz \in Nat
  BY <1>1, LenProperties DEF Messages
<1>4. x \in Cells /\ <<x>> \in Seq(Cells) /\ Len(<<x>>) = 1
  BY DEF Cells
<1>5. /\ f = "F_WITHDRN" => m.uptr = Len(w) + 1 /\ Lies(m.cells, 1, w)
      /\ f = "F_PATTR" => m.uptr = Len(w) + Len(a) + 2 /\ Lies(m.cells, Len(w) + 2, a)
      /\ f = "F_NLRI" => m.uptr = m.pktlen /\ Lies(m.cells, Len(w) + Len(a) + 2, n)
  BY <1>1 DEF Holds, Framed
<1>6. m.uptr <= Len(m.cells) /\ m.uptr <= m.pktlen
  BY <1>1, <1>2, <1>3, <1>5 DEF Lies, FieldFlags
<1>7. /\ c \in Seq(Cells) /\ Lies(c, m.uptr, <<x>>)
      /\ \A k \in Nat, u \in Seq(Cells) :
            Lies(m.cells, k, u) /\ k + Len(u) <= m.uptr => Lies(c, k, u)
  <2>1. m.uptr \in 0..Len(m.cells)
    BY <1>3, <1>6
  <2> QED
    BY <1>3, <1>4, <2>1, CopyLies
<1>8. Written(m, x) = r
  <2>1. ~ (m.at # m.alloc \/ m.uptr >= m.bufsiz)
    BY <1>1, <1>3, <1>6
  <2> QED
    BY <1>1, <2>1 DEF Written, Messages
<1> HIDE DEF c
<1>9. at \in Nat /\ len \in Nat
  BY <1>3
<1> HIDE DEF at, len
<1>10. /\ Alike(r, m) /\ r.flags = m.flags /\ r.at = r.alloc /\ r.pktlen = len
       /\ r.cells = c /\ r.uptr = at /\ r.ustart = m.ustart /\ r.pres = m.pres
  BY <1>1, <1>7, <1>9 DEF Alike, Messages
<1> HIDE DEF r
<1>11. Pending(r) = {f}
  BY <1>1, <1>10 DEF Pending
<1>12. \A t \in Seq(Items) : Append(t, x) \in Seq(Items) /\ Len(Append(t, x)) = Len(t) + 1
  BY AppendProperties
<1>13. CASE f = "F_WITHDRN"
  <2> DEFINE v == Append(w, x)
  <2>1. Lies(c, 1, w) /\ Lies(c, 1 + Len(w), <<x>>)
    <3>1. 1 + Len(w) = m.uptr /\ 1 + Len(w) <= m.uptr
      BY <1>2, <1>5, <1>13
    <3> QED
      BY <1>2, <1>5, <1>7, <1>13, <3>1
  <2>2. Lies(c, 1, v)
    BY <1>2, <1>4, <1>7, <2>1, LiesAppend
  <2>3. v \in Seq(Items) /\ Len(v) = Len(w) + 1
    BY <1>12
  <2> HIDE DEF v
  <2>4. at = Len(v) + 1 /\ len = Len(v) + Len(a) + Len(n) + 2
    BY <1>2, <1>5, <1>13, <2>3 DEF at, len
  <2>5. Pending(m) = {"F_WITHDRN"} /\ Pending(r) = {"F_WITHDRN"}
    BY <1>1, <1>11, <1>13
  <2>6. /\ m.ustart = 1 /\ Len(m.pres) = Len(a) + Len(n) + 1
        /\ Lies(m.pres, 0, <<Len(a)>>) /\ Lies(m.pres, 1, a) /\ Lies(m.pres, Len(a) + 1, n)
    BY <2>5 DEF Holds
  <2>7. Holds(r, v, a, n)
    BY <1>10, <2>2, <2>4, <2>5, <2>6 DEF Holds
  <2> QED
    BY <1>8, <1>10, <1>11, <1>13, <2>7 DEF v, len
<1>14. CASE f = "F_PATTR"
  <2> DEFINE v == Append(a, x)
             k == Len(w) + 2
  <2>1. k \in Nat /\ k + Len(a) = m.uptr /\ k + Len(a) <= m.uptr
        /\ 0 + 1 <= m.uptr /\ 1 + Len(w) <= m.uptr
    BY <1>2, <1>5, <1>14
  <2>2. Pending(m) = {"F_PATTR"} /\ Pending(r) = {"F_PATTR"}
    BY <1>1, <1>11, <1>14
  <2>3. /\ m.ustart = Len(w) + 2 /\ Lies(m.cells, 0, <<Len(w)>>) /\ Lies(m.cells, 1, w)
        /\ Lies(m.cells, k, a) /\ Len(m.pres) = Len(n) /\ Lies(m.pres, 0, n)
    BY <2>2 DEF Holds
  <2> HIDE DEF k
  <2>4. Lies(c, k, a) /\ Lies(c, k + Len(a), <<x>>) /\ Lies(c, 0, <<Len(w)>>) /\ Lies(c, 1, w)
    BY <1>2, <1>7, <2>1, <2>3
  <2>5. Lies(c, k, v)
    BY <1>2, <1>4, <1>7, <2>1, <2>4, LiesAppend
  <2>6. v \in Seq(Items) /\ Len(v) = Len(a) + 1
    BY <1>12
  <2> HIDE DEF v
  <2>7. at = Len(w) + Len(v) + 2 /\ len = Len(w) + Len(v) + Len(n) + 2
    BY <1>2, <1>5, <1>14, <2>6 DEF at, len
  <2>8. Holds(r, w, v, n)
    BY <1>10, <2>2, <2>3, <2>4, <2>5, <2>7 DEF Holds, k
  <2> QED
    BY <1>8, <1>10, <1>11, <1>14, <2>8 DEF v, len
<1>15. CASE f = "F_NLRI"
  <2> DEFINE v == Append(n, x)
             k == Len(w) + Len(a) + 2
  <2>1. /\ k \in Nat /\ k + Len(n) = m.uptr /\ k + Len(n) <= m.uptr
        /\ 0 + 1 <= m.uptr /\ 1 + Len(w) <= m.uptr
        /\ Len(w) + 1 \in Nat /\ (Len(w) + 1) + 1 <= m.uptr
        /\ Len(w) + 2 \in Nat /\ (Len(w) + 2) + Len(a) <= m.uptr
    BY <1>2, <1>5, <1>15
  <2>2. Pending(m) = {"F_NLRI"} /\ Pending(r) = {"F_NLRI"}
    BY <1>1, <1>11, <1>15
  <2>3. /\ m.ustart = k /\ Lies(m.cells, 0, <<Len(w)>>) /\ Lies(m.cells, 1, w)
        /\ Lies(m.cells, Len(w) + 1, <<Len(a)>>) /\ Lies(m.cells, Len(w) + 2, a)
        /\ Lies(m.cells, k, n)
    BY <2>2 DEF Holds, Framed
  <2> HIDE DEF k
  <2>4. /\ Lies(c, 0, <<Len(w)>>) /\ Lies(c, 1, w)
        /\ Lies(c, Len(w) + 1, <<Len(a)>>) /\ Lies(c, Len(w) + 2, a)
    BY <1>2, <1>7, <2>1, <2>3
  <2>5. Lies(c, k, n) /\ Lies(c, k + Len(n), <<x>>)
    BY <1>2, <1>7, <2>1, <2>3
  <2>6. Lies(c, k, v)
    BY <1>2, <1>4, <1>7, <2>1, <2>5, LiesAppend
  <2>7. v \in Seq(Items) /\ Len(v) = Len(n) + 1
    BY <1>12
  <2> HIDE DEF v
  <2>8. at = len /\ len = Len(w) + Len(a) + Len(v) + 2
    BY <1>2, <1>5, <1>15, <2>7 DEF at, len
  <2>9. Framed(c, w, a, v)
    BY <2>4, <2>6 DEF Framed, k
  <2>10. Holds(r, w, a, v)
    BY <1>10, <2>2, <2>3, <2>8, <2>9 DEF Holds, k
  <2> QED
    BY <1>8, <1>10, <1>11, <1>15, <2>10 DEF v, len
<1> QED
  BY <1>1, <1>13, <1>14, <1>15 DEF FieldFlags

\* While the message fits in the buffer no room has to be found.
LEMMA RoomEnough ==
    ASSUME NEW m, NEW n, m.pktlen + n <= m.bufsiz
    PROVE  bgpensure(m, n) = {m}
BY DEF bgpensure

\* Replacing the withdrawn routes moves what is behind them.
LEMMA ReplaceWithdrawnIs ==
    ASSUME NEW m, Still(m), m.err = "ENOERR",
           NEW w \in Seq(Items), NEW a \in Seq(Items), NEW n \in Seq(Items), Holds(m, w, a, n),
           NEW s \in Seq(Items), m.pktlen + Len(s) <= m.bufsiz, m.pktlen + Len(s) <= MaxSize,
           NEW r \in ReplaceWithdrawn(m, s)
    PROVE  /\ Alike(r, m) /\ r.flags = m.flags /\ Pending(r) = {}
           /\ r.pktlen <= m.pktlen + Len(s) /\ Holds(r, s, a, n)
<1> DEFINE p == SubSeq(m.cells, (Len(w) + 1) + 1, m.pktlen)
           head == <<Len(s)>>
           h == head \o s
           t == h \o p
           c == Copy(m.cells, 0, t)
           len == m.pktlen - Len(w) + Len(s)
           q == [m EXCEPT !.cells = c, !.pktlen = len]
<1>1. m \in Messages /\ Pending(m) = {} /\ m.pktlen <= MaxSize /\ m.bufsiz \in Nat
  BY DEF Still, Ready, Messages
<1>2. /\ a \in Seq(Cells) /\ n \in Seq(Cells)
      /\ Len(w) \in Nat /\ Len(a) \in Nat /\ Len(n) \in Nat
      /\ <<Len(a)>> \in Seq(Cells) /\ Len(<<Len(a)>>) = 1
      /\ m.pktlen = Len(w) + Len(a) + Len(n) + 2
  BY <1>1, HoldsFit DEF Total
<1>3. s \in Seq(Cells) /\ Len(s) \in Nat
  BY ListsAre
<1>4. head \in Seq(Cells) /\ Len(head) = 1
  <2>1. Len(s) \in Cells
    BY <1>2, <1>3, SizesAssumption DEF Cells, Lengths
  <2> QED
    BY <2>1
<1>5. m.cells \in Seq(Cells) /\ Len(m.cells) \in Nat
  BY <1>1, LenProperties DEF Messages
<1>6. /\ p \in Seq(Cells) /\ Len(p) = Len(a) + Len(n) + 1
      /\ Lies(p, 0, <<Len(a)>>) /\ Lies(p, 1, a) /\ Lies(p, Len(a) + 1, n)
  BY BehindWithdrawn
<1>7. r = q
  <2>1. WithdrawnLen(m) = Len(w)
    BY SectionIs
  <2>2. (IF Len(s) > Len(w) THEN bgpensure(m, Len(s) - Len(w)) ELSE {m}) = {m}
    <3>1. m.pktlen + (Len(s) - Len(w)) <= m.bufsiz
      BY <1>1, <1>2, <1>3
    <3> QED
      BY <3>1, RoomEnough
  <2>3. (Len(w) + 1) + 1 = Len(w) + 2
    BY <1>2
  <2> DEFINE rest == SubSeq(m.cells, Len(w) + 2, m.pktlen)
             new(e) == [e EXCEPT !.cells  = Copy(@, 0, <<Len(s)>> \o s \o rest),
                                 !.pktlen = @ - Len(w) + Len(s)]
             one(e) == CASE e.err # "ENOERR"  -> e
                         [] e.alloc # m.alloc -> [e EXCEPT !.stray = TRUE]
                         [] OTHER             -> new(e)
  <2>4. ReplaceWithdrawn(m, s) = {one(e) : e \in {m}}
    BY <2>1, <2>2 DEF ReplaceWithdrawn
  <2>5. one(m) = new(m)
    OBVIOUS
  <2>6. new(m) = q
    BY <1>1, <2>3 DEF Messages
  <2> HIDE DEF one
  <2> QED
    BY <2>4, <2>5, <2>6
<1> HIDE DEF p, head
<1>8. h \in Seq(Cells) /\ Len(h) = 1 + Len(s) /\ Lies(h, 0, head) /\ Lies(h, 1, s)
  BY <1>3, <1>4, ConcatLies
<1> HIDE DEF h
<1>9. t \in Seq(Cells) /\ Len(t) = Len(h) + Len(p) /\ Lies(t, 0, h) /\ Lies(t, Len(h), p)
  BY <1>6, <1>8, ConcatLies
<1> HIDE DEF t
<1>10. c \in Seq(Cells) /\ Len(t) <= Len(c) /\ Lies(c, 0, t)
  <2>1. 0 \in 0..Len(m.cells) /\ 0 + Len(t) = Len(t)
    BY <1>3, <1>5, <1>6, <1>8, <1>9
  <2> QED
    BY <1>5, <1>9, <2>1, CopyLies
<1> HIDE DEF c
<1>11. Lies(c, 0, h) /\ Lies(c, Len(h), p)
  <2>1. Len(h) \in Nat /\ 0 + 0 = 0 /\ 0 + Len(h) = Len(h)
    BY <1>3, <1>8
  <2>2. Lies(c, 0 + 0, h) /\ Lies(c, 0 + Len(h), p)
    BY <1>6, <1>8, <1>9, <1>10, <2>1, LiesWithin
  <2> QED
    BY <2>1, <2>2
<1>12. Lies(c, 0, head) /\ Lies(c, 1, s)
  <2>1. Lies(c, 0 + 0, head) /\ Lies(c, 0 + 1, s)
    BY <1>3, <1>4, <1>8, <1>10, <1>11, LiesWithin
  <2> QED
    BY <2>1
<1>13. /\ Lies(c, Len(h) + 0, <<Len(a)>>) /\ Lies(c, Len(h) + 1, a)
       /\ Lies(c, Len(h) + (Len(a) + 1), n)
  <2> DEFINE j == Len(a) + 1
             k == Len(h)
  <2>1. j \in Nat /\ k \in Nat /\ Lies(p, j, n) /\ Lies(c, k, p)
    BY <1>2, <1>3, <1>6, <1>8, <1>11
  <2> HIDE DEF j, k
  <2>2. Lies(c, k + 0, <<Len(a)>>)
    BY <1>2, <1>6, <1>10, <2>1, LiesWithin
  <2>3. Lies(c, k + 1, a)
    BY <1>2, <1>6, <1>10, <2>1, LiesWithin
  <2>4. Lies(c, k + j, n)
    BY <1>2, <1>6, <1>10, <2>1, LiesWithin
  <2> QED
    BY <2>2, <2>3, <2>4 DEF j, k
<1>14. /\ Len(h) + 0 = Len(s) + 1 /\ Len(h) + 1 = Len(s) + 2
       /\ Len(h) + (Len(a) + 1) = Len(s) + Len(a) + 2
  BY <1>2, <1>3, <1>8
<1>15. Framed(c, s, a, n)
  BY <1>12, <1>13, <1>14 DEF Framed, head
<1>16. len \in Nat /\ len = Len(s) + Len(a) + Len(n) + 2 /\ len <= m.pktlen + Len(s)
  BY <1>2, <1>3
<1> HIDE DEF len
<1>17. /\ Alike(q, m) /\ q.flags = m.flags /\ q.cells = c /\ q.pktlen = len
  BY <1>1, <1>10, <1>16 DEF Alike, Messages
<1> HIDE DEF q
<1>18. Pending(r) = {}
  BY <1>1, <1>7, <1>17 DEF Pending
<1>19. Holds(r, s, a, n)
  BY <1>7, <1>15, <1>16, <1>17, <1>18 DEF Holds
<1> QED
  BY <1>7, <1>16, <1>17, <1>18, <1>19

\* Removing the NLRI of a message without attributes writes the length of the
\* attributes again.
LEMMA ReplaceNlriIs ==
    ASSUME NEW m, Still(m), m.err = "ENOERR", AttribsLen(m) = 0,
           NEW w \in Seq(Items), NEW a \in Seq(Items), NEW n \in Seq(Items), Holds(m, w, a, n),
           NEW r \in ReplaceNlri(m, <<>>)
    PROVE  /\ Alike(r, m) /\ r.flags = m.flags /\ Pending(r) = {}
           /\ r.pktlen <= m.pktlen /\ Holds(r, w, a, <<>>)
<1> DEFINE none == <<>>
           zero == <<0>>
           off == Len(w) + 1
           c == Copy(m.cells, off, zero)
           len == m.pktlen - Len(n) + 0
           q == [m EXCEPT !.cells = c, !.pktlen = len]
<1>1. m \in Messages /\ Pending(m) = {} /\ m.pktlen <= MaxSize /\ m.bufsiz \in Nat
  BY DEF Still, Ready, Messages
<1>2. /\ w \in Seq(Cells) /\ a \in Seq(Cells) /\ n \in Seq(Cells)
      /\ Len(w) \in Nat /\ Len(a) \in Nat /\ Len(n) \in Nat
      /\ <<Len(w)>> \in Seq(Cells) /\ Len(<<Len(w)>>) = 1
      /\ m.pktlen = Len(w) + Len(a) + Len(n) + 2
  BY <1>1, HoldsFit DEF Total
<1>3. /\ m.cells \in Seq(Cells) /\ Len(m.cells) \in Nat /\ m.pktlen \in Nat
      /\ m.pktlen <= Len(m.cells)
  BY <1>1, LenProperties, SectionIs DEF Messages
<1>4. /\ Lies(m.cells, 0, <<Len(w)>>) /\ Lies(m.cells, 1, w)
  BY SectionIs DEF Framed
<1>5. Len(a) = 0 /\ Section(m, "F_NLRI") = [ptr |-> Len(w) + Len(a) + 2, n |-> Len(n)]
  BY SectionIs
<1>6. a = <<>>
  BY <1>2, <1>5, EmptySeq
<1>7. zero \in Seq(Cells) /\ Len(zero) = 1
  <2>1. 0 \in Cells
    BY SizesAssumption DEF Cells, Lengths
  <2> QED
    BY <2>1
<1>8. r = q
  <2> DEFINE sec == Section(m, "F_NLRI")
             new(e) == [e EXCEPT !.cells  = Copy(@, sec.ptr - 1, <<Len(none)>> \o none),
                                 !.pktlen = @ - sec.n + Len(none)]
             one(e) == CASE e.err # "ENOERR"  -> e
                         [] e.alloc # m.alloc -> [e EXCEPT !.stray = TRUE]
                         [] OTHER             -> new(e)
  <2>1. sec.ptr - 1 = off /\ sec.n = Len(n) /\ Len(none) = 0 /\ ~ (0 > Len(n))
    BY <1>2, <1>5, NothingIs
  <2>2. <<Len(none)>> \o none = zero
    <3>1. zero \o <<>> = zero
      BY <1>7, ConcatEmptySeq
    <3> QED
      BY <2>1, <3>1
  <2>3. ReplaceNlri(m, <<>>) = {one(e) : e \in {m}}
    BY <2>1 DEF ReplaceNlri
  <2>4. one(m) = new(m)
    OBVIOUS
  <2> HIDE DEF sec, none, zero, off
  <2>5. new(m) = q
    BY <1>1, <2>1, <2>2 DEF Messages
  <2> HIDE DEF one
  <2> QED
    BY <2>3, <2>4, <2>5
<1> HIDE DEF zero
<1>9. /\ c \in Seq(Cells) /\ Len(m.cells) <= Len(c) /\ Lies(c, off, zero)
      /\ \A k \in Nat, u \in Seq(Cells) : Lies(m.cells, k, u) /\ k + Len(u) <= off => Lies(c, k, u)
  <2>1. off \in 0..Len(m.cells)
    BY <1>2, <1>3
  <2> QED
    BY <1>3, <1>7, <2>1, CopyLies
<1> HIDE DEF c
<1>10. Lies(c, 0, <<Len(w)>>) /\ Lies(c, 1, w)
  <2>1. 0 + Len(<<Len(w)>>) <= off /\ 1 + Len(w) <= off /\ 0 \in Nat /\ 1 \in Nat
    BY <1>2
  <2> HIDE DEF off
  <2>2. Lies(c, 0, <<Len(w)>>)
    BY <1>2, <1>4, <1>9, <2>1
  <2>3. Lies(c, 1, w)
    BY <1>2, <1>4, <1>9, <2>1
  <2> QED
    BY <2>2, <2>3
<1>11. Lies(c, Len(w) + 2, <<>>)
  <2>1. Len(w) + 2 <= Len(c) /\ Len(w) + 2 \in Nat
    <3>1. Len(w) + 2 <= Len(m.cells)
      BY <1>2, <1>3
    <3>2. Len(c) \in Nat
      BY <1>9, LenProperties
    <3> QED
      BY <1>2, <1>3, <1>9, <3>1, <3>2
  <2> QED
    BY <2>1, NothingIs
<1>12. Framed(c, w, a, <<>>)
  <2>1. Len(w) + Len(a) + 2 = Len(w) + 2
    BY <1>2, <1>5
  <2>2. Lies(c, Len(w) + 1, <<Len(a)>>)
    BY <1>5, <1>9 DEF zero
  <2>3. Lies(c, Len(w) + 2, a) /\ Lies(c, Len(w) + Len(a) + 2, <<>>)
    BY <1>6, <1>11, <2>1
  <2> QED
    BY <1>10, <2>2, <2>3 DEF Framed
<1>13. len \in Nat /\ len = Len(w) + Len(a) + 0 + 2 /\ len <= m.pktlen
  BY <1>2
<1> HIDE DEF len
<1>14. /\ Alike(q, m) /\ q.flags = m.flags /\ q.cells = c /\ q.pktlen = len
  BY <1>1, <1>9, <1>13 DEF Alike, Messages
<1> HIDE DEF q
<1>15. Pending(r) = {}
  BY <1>1, <1>8, <1>14 DEF Pending
<1>16. Holds(r, w, a, <<>>)
  BY <1>8, <1>12, <1>13, <1>14, <1>15, NothingIs DEF Holds
<1> QED
  BY <1>8, <1>13, <1>14, <1>15, <1>16

\* The outcomes of bgpensure leave the buffer large enough for all that fits in
\* fastbuf, also when no memory was found.
LEMMA EnsureIs ==
    ASSUME NEW m \in Messages, ~m.stray, FastSize <= m.bufsiz, NEW n \in Nat,
           NEW e \in bgpensure(m, n)
    PROVE  /\ e \in Messages /\ ~e.stray /\ FastSize <= e.bufsiz
           /\ e.type = m.type /\ e.flags = m.flags /\ e.err \in {m.err, "ENOMEM"}
<1>1. /\ m.pktlen \in Nat /\ m.bufsiz \in Nat /\ m.alloc \in Nat
      /\ m.cells \in Seq(Cells) /\ Len(m.cells) \in Nat
  BY LenProperties DEF Messages
<1>2. MaxSize \in Nat /\ FastSize \in Nat /\ GrowStep \in Nat /\ FastSize <= MaxSize
  BY SizesAssumption
<1> DEFINE size == Smaller(m.pktlen + n + GrowStep, MaxSize)
           c == SubSeq(m.cells, 1, Smaller(m.pktlen, Len(m.cells)))
           alloc == m.alloc + 1
           g == [m EXCEPT !.bufsiz = size, !.alloc = alloc, !.cells = c]
<1>3. CASE e = m
  BY <1>3
<1>4. ASSUME ~ (m.pktlen + n <= m.bufsiz), e = Grown(m, n)
      PROVE  /\ e \in Messages /\ ~e.stray /\ FastSize <= e.bufsiz
             /\ e.type = m.type /\ e.flags = m.flags /\ e.err = m.err
  <2>1. size \in Nat /\ FastSize <= size
    BY <1>1, <1>2, <1>4 DEF Smaller
  <2>2. c \in Seq(Cells)
    <3>1. Smaller(m.pktlen, Len(m.cells)) \in 0..Len(m.cells)
      BY <1>1 DEF Smaller
    <3>2. \A k \in 0..Len(m.cells) : SubSeq(m.cells, 1, k) \in Seq(Cells)
      <4>1. \A k \in 0..Len(m.cells) : 1 \in 1..Len(m.cells) + 1 /\ k \in 1 - 1..Len(m.cells)
        BY <1>1
      <4> QED
        BY <1>1, <4>1, Piece
    <3> QED
      BY <3>1, <3>2
  <2>3. e = g
    BY <1>4 DEF Grown, Messages
  <2>4. alloc \in Nat
    BY <1>1
  <2> HIDE DEF size, c, alloc
  <2>5. /\ g \in Messages /\ g.stray = m.stray /\ g.bufsiz = size
        /\ g.type = m.type /\ g.flags = m.flags /\ g.err = m.err
    BY <2>1, <2>2, <2>4 DEF Messages
  <2> QED
    BY <2>1, <2>3, <2>5
<1>5. CASE e = [m EXCEPT !.err = "ENOMEM"]
  BY <1>5 DEF Messages
<1> QED
  BY <1>3, <1>4, <1>5 DEF bgpensure

\* A body that is set is what the message stands for, even when no memory was
\* found.
LEMMA ReplaceBodyIs ==
    ASSUME NEW m, NEW m0 \in Messages, m0 = EndPending(m), ~m0.stray, FastSize <= m0.bufsiz,
           Pending(m0) = {}, NEW b \in Bodies, Len(b) <= FastSize, Len(b) <= MaxSize,
           NEW r \in ReplaceBody(m, b)
    PROVE  /\ r \in Messages /\ ~r.stray /\ FastSize <= r.bufsiz /\ r.pktlen <= r.bufsiz
           /\ r.type = m0.type /\ r.flags = m0.flags /\ r.err \in {m0.err, "ENOMEM"}
           /\ Pending(r) = {} /\ r.pktlen = Len(b) /\ r.pktlen <= Len(r.cells)
           /\ HoldsSome(r)
<1>1. b \in Seq(Cells) /\ WellFormed(b) /\ Len(b) \in Nat
  BY BodiesAssumption, LenProperties
<1>2. HeaderLen \in Nat /\ Len(b) + HeaderLen \in Nat
  BY <1>1 DEF HeaderLen
<1>3. PICK e \in bgpensure(m0, Len(b) + HeaderLen) :
         r = IF Len(b) > e.bufsiz THEN [e EXCEPT !.stray = TRUE]
             ELSE [e EXCEPT !.cells = Copy(@, 0, b), !.pktlen = Len(b)]
  BY DEF ReplaceBody
<1>4. /\ e \in Messages /\ ~e.stray /\ FastSize <= e.bufsiz
      /\ e.type = m0.type /\ e.flags = m0.flags /\ e.err \in {m0.err, "ENOMEM"}
  BY <1>2, EnsureIs
<1>5. e.bufsiz \in Nat /\ FastSize \in Nat /\ e.cells \in Seq(Cells) /\ Len(e.cells) \in Nat
  BY <1>4, LenProperties, SizesAssumption DEF Messages
<1> DEFINE c == Copy(e.cells, 0, b)
           q == [e EXCEPT !.cells = c, !.pktlen = Len(b)]
<1>6. Len(b) <= e.bufsiz
  BY <1>1, <1>4, <1>5
<1>7. r = q
  BY <1>1, <1>3, <1>5, <1>6
<1>8. c \in Seq(Cells) /\ Len(b) <= Len(c) /\ Lies(c, 0, b)
  <2>1. 0 \in 0..Len(e.cells) /\ 0 + Len(b) = Len(b)
    BY <1>1, <1>5
  <2> QED
    BY <1>1, <1>5, <2>1, CopyLies
<1> HIDE DEF c
<1>9. /\ q \in Messages /\ ~q.stray /\ q.bufsiz = e.bufsiz /\ q.type = e.type
      /\ q.flags = e.flags /\ q.err = e.err /\ q.pktlen = Len(b) /\ q.cells = c
  BY <1>1, <1>4, <1>8 DEF Messages
<1> HIDE DEF q
<1>10. Pending(r) = {}
  BY <1>4, <1>7, <1>9 DEF Pending
<1>11. PICK w \in Seq(Items), a \in Seq(Items), n \in Seq(Items) :
          Framed(b, w, a, n) /\ Len(b) = Total(w, a, n)
  BY <1>1, WellFormedIs
<1>12. /\ w \in Seq(Cells) /\ a \in Seq(Cells) /\ n \in Seq(Cells)
       /\ Len(w) \in Nat /\ Len(a) \in Nat /\ Len(n) \in Nat
       /\ <<Len(w)>> \in Seq(Cells) /\ <<Len(a)>> \in Seq(Cells)
  BY <1>11, ListsAre
<1>13. Framed(c, w, a, n)
  <2>1. \A j \in Nat, u \in Seq(Cells) : Lies(b, j, u) => Lies(c, j, u)
    <3>1. \A j \in Nat : 0 + j = j
      OBVIOUS
    <3>2. \A j \in Nat, u \in Seq(Cells) : Lies(b, j, u) => Lies(c, 0 + j, u)
      BY <1>1, <1>8, LiesWithin
    <3> QED
      BY <3>1, <3>2
  <2>2. 0 \in Nat /\ 1 \in Nat /\ Len(w) + 1 \in Nat /\ Len(w) + 2 \in Nat
        /\ Len(w) + Len(a) + 2 \in Nat
    BY <1>12
  <2> QED
    BY <1>11, <1>12, <2>1, <2>2 DEF Framed
<1>14. Holds(r, w, a, n)
  BY <1>7, <1>9, <1>10, <1>11, <1>13 DEF Holds, Total
<1> QED
  BY <1>4, <1>6, <1>7, <1>8, <1>9, <1>10, <1>14 DEF HoldsSome

\* The cells that are counted, of a message that stands for a document.
LEMMA BodyIs ==
    ASSUME NEW m \in Messages, m.pktlen <= MaxSize, Pending(m) \in {{}, {"F_NLRI"}},
           NEW w \in Seq(Items), NEW a \in Seq(Items), NEW n \in Seq(Items), Holds(m, w, a, n)
    PROVE  LET b == SubSeq(m.cells, 1, m.pktlen)
           IN  WellFormed(b) /\ Parsed(b) = Rec(w, a, n) /\ m.pktlen <= Len(m.cells)
<1> DEFINE b == SubSeq(m.cells, 0 + 1, m.pktlen)
<1>1. /\ w \in Seq(Cells) /\ a \in Seq(Cells) /\ n \in Seq(Cells)
      /\ Len(w) \in Nat /\ Len(a) \in Nat /\ Len(n) \in Nat
      /\ <<Len(w)>> \in Seq(Cells) /\ <<Len(a)>> \in Seq(Cells)
      /\ Len(<<Len(w)>>) = 1 /\ Len(<<Len(a)>>) = 1
      /\ m.pktlen = Total(w, a, n) /\ Total(w, a, n) <= MaxSize
  BY HoldsFit
<1>2. m.cells \in Seq(Cells) /\ Len(m.cells) \in Nat /\ Framed(m.cells, w, a, n)
  BY LenProperties DEF Messages, Holds
<1>3. m.pktlen <= Len(m.cells)
  BY <1>1, <1>2, FramedIs
<1>4. b \in Seq(Cells) /\ Len(b) = m.pktlen /\ Lies(m.cells, 0, b)
  <2>1. 0 \in 0..Len(m.cells) /\ m.pktlen \in 0..Len(m.cells) /\ m.pktlen - 0 = m.pktlen
    BY <1>1, <1>2, <1>3 DEF Total
  <2> QED
    BY <1>2, <2>1, PieceLies
<1> HIDE DEF b
<1>5. \A j \in Nat, u \in Seq(Cells) :
         Lies(m.cells, j, u) /\ j + Len(u) <= Len(b) => Lies(b, j, u)
  <2>1. \A j \in Nat : 0 + j = j
    OBVIOUS
  <2>2. \A j \in Nat, u \in Seq(Cells) :
           Lies(m.cells, 0 + j, u) /\ j + Len(u) <= Len(b) => Lies(b, j, u)
    BY <1>2, <1>4, LiesWithin
  <2> QED
    BY <2>1, <2>2
<1>6. Framed(b, w, a, n)
  <2>1. /\ 0 \in Nat /\ 1 \in Nat /\ Len(w) + 1 \in Nat /\ Len(w) + 2 \in Nat
        /\ Len(w) + Len(a) + 2 \in Nat
        /\ 0 + Len(<<Len(w)>>) <= Len(b) /\ 1 + Len(w) <= Len(b)
        /\ (Len(w) + 1) + Len(<<Len(a)>>) <= Len(b) /\ (Len(w) + 2) + Len(a) <= Len(b)
        /\ (Len(w) + Len(a) + 2) + Len(n) <= Len(b)
    BY <1>1, <1>4 DEF Total
  <2> QED
    BY <1>1, <1>2, <1>5, <2>1 DEF Framed
<1>7. WellFormed(b) /\ Parsed(b) = Rec(w, a, n)
  BY <1>1, <1>4, <1>6, FramedIs
<1> QED
  BY <1>3, <1>7 DEF b

\* A message with the withdrawn routes put in front of what was set aside.
LEMMA BodyOfWithdrawn ==
    ASSUME NEW m \in Messages, m.pktlen <= MaxSize, Pending(m) = {"F_WITHDRN"},
           NEW w \in Seq(Items), NEW a \in Seq(Items), NEW n \in Seq(Items), Holds(m, w, a, n),
           NEW v \in Seq(Items), Len(v) <= Len(w)
    PROVE  LET b == (<<Len(v)>> \o v) \o m.pres
           IN  WellFormed(b) /\ Parsed(b) = Rec(v, a, n)
<1> DEFINE l == <<Len(v)>>
           h == l \o v
           b == h \o m.pres
<1>1. /\ a \in Seq(Cells) /\ n \in Seq(Cells)
      /\ Len(w) \in Nat /\ Len(a) \in Nat /\ Len(n) \in Nat
      /\ <<Len(a)>> \in Seq(Cells) /\ Len(<<Len(a)>>) = 1
      /\ Total(w, a, n) <= MaxSize
  BY HoldsFit
<1>2. v \in Seq(Cells) /\ Len(v) \in Nat
  BY ListsAre
<1>3. /\ m.pres \in Seq(Cells) /\ Len(m.pres) = Len(a) + Len(n) + 1
      /\ Lies(m.pres, 0, <<Len(a)>>) /\ Lies(m.pres, 1, a) /\ Lies(m.pres, Len(a) + 1, n)
  BY DEF Holds, Messages
<1>4. Total(v, a, n) <= MaxSize
  BY <1>1, <1>2, SizesAssumption DEF Total
<1>5. l \in Seq(Cells) /\ Len(l) = 1
  BY <1>4, ListsAre
<1> HIDE DEF l
<1>6. h \in Seq(Cells) /\ Len(h) = 1 + Len(v) /\ Lies(h, 0, l) /\ Lies(h, 1, v)
  BY <1>2, <1>5, ConcatLies
<1> HIDE DEF h
<1>7. b \in Seq(Cells) /\ Len(b) = Len(h) + Len(m.pres) /\ Lies(b, 0, h) /\ Lies(b, Len(h), m.pres)
  BY <1>3, <1>6, ConcatLies
<1> HIDE DEF b
<1>8. Lies(b, 0, l) /\ Lies(b, 1, v)
  <2>1. Lies(b, 0 + 0, l) /\ Lies(b, 0 + 1, v)
    BY <1>2, <1>5, <1>6, <1>7, LiesWithin
  <2> QED
    BY <2>1
<1>9. /\ Lies(b, Len(h) + 0, <<Len(a)>>) /\ Lies(b, Len(h) + 1, a)
      /\ Lies(b, Len(h) + (Len(a) + 1), n)
  <2> DEFINE j == Len(a) + 1
             k == Len(h)
  <2>1. j \in Nat /\ k \in Nat /\ Lies(m.pres, j, n) /\ Lies(b, k, m.pres)
    BY <1>1, <1>2, <1>3, <1>6, <1>7
  <2> HIDE DEF j, k
  <2>2. Lies(b, k + 0, <<Len(a)>>)
    BY <1>1, <1>3, <1>7, <2>1, LiesWithin
  <2>3. Lies(b, k + 1, a)
    BY <1>1, <1>3, <1>7, <2>1, LiesWithin
  <2>4. Lies(b, k + j, n)
    BY <1>1, <1>3, <1>7, <2>1, LiesWithin
  <2> QED
    BY <2>2, <2>3, <2>4 DEF j, k
<1>10. /\ Len(h) + 0 = Len(v) + 1 /\ Len(h) + 1 = Len(v) + 2
       /\ Len(h) + (Len(a) + 1) = Len(v) + Len(a) + 2
  BY <1>1, <1>2, <1>6
<1>11. Framed(b, v, a, n)
  BY <1>8, <1>9, <1>10 DEF Framed, l
<1>12. Len(b) = Total(v, a, n)
  BY <1>1, <1>2, <1>3, <1>6, <1>7 DEF Total
<1>13. WellFormed(b) /\ Parsed(b) = Rec(v, a, n)
  BY <1>4, <1>7, <1>11, <1>12, FramedIs
<1> QED
  BY <1>13 DEF b, h, l

\* A message with the attributes put between what is before them and what was set
\* aside.
LEMMA BodyOfAttribs ==
    ASSUME NEW m \in Messages, m.pktlen <= MaxSize, Pending(m) = {"F_PATTR"},
           NEW w \in Seq(Items), NEW a \in Seq(Items), NEW n \in Seq(Items), Holds(m, w, a, n)
    PROVE  LET b == ((SubSeq(m.cells, 1, Len(w) + 1) \o <<Len(a)>>) \o a) \o m.pres
           IN  Parsed(b) = Rec(w, a, n)
<1> DEFINE front == SubSeq(m.cells, 0 + 1, Len(w) + 1)
           l == <<Len(a)>>
           g == front \o l
           h == g \o a
           b == h \o m.pres
<1>1. /\ w \in Seq(Cells) /\ a \in Seq(Cells) /\ n \in Seq(Cells)
      /\ Len(w) \in Nat /\ Len(a) \in Nat /\ Len(n) \in Nat
      /\ <<Len(w)>> \in Seq(Cells) /\ Len(<<Len(w)>>) = 1
      /\ l \in Seq(Cells) /\ Len(l) = 1
      /\ Total(w, a, n) <= MaxSize
  BY HoldsFit
<1>2. /\ m.cells \in Seq(Cells) /\ Len(m.cells) \in Nat
      /\ Lies(m.cells, 0, <<Len(w)>>) /\ Lies(m.cells, 1, w)
      /\ m.pres \in Seq(Cells) /\ Len(m.pres) = Len(n) /\ Lies(m.pres, 0, n)
  BY LenProperties DEF Holds, Messages
<1> HIDE DEF l
<1>3. front \in Seq(Cells) /\ Len(front) = Len(w) + 1 /\ Lies(m.cells, 0, front)
  <2>1. 0 \in 0..Len(m.cells) /\ Len(w) + 1 \in 0..Len(m.cells)
        /\ (Len(w) + 1) - 0 = Len(w) + 1
    BY <1>1, <1>2 DEF Lies
  <2> QED
    BY <1>2, <2>1, PieceLies
<1> HIDE DEF front
<1>4. Lies(front, 0, <<Len(w)>>) /\ Lies(front, 1, w)
  <2>1. Lies(m.cells, 0 + 0, <<Len(w)>>) /\ Lies(m.cells, 0 + 1, w)
        /\ 0 + Len(<<Len(w)>>) <= Len(front) /\ 1 + Len(w) <= Len(front)
        /\ 0 \in Nat /\ 1 \in Nat
    BY <1>1, <1>2, <1>3
  <2>2. \A j \in Nat, u \in Seq(Cells) :
           Lies(m.cells, 0 + j, u) /\ j + Len(u) <= Len(front) => Lies(front, j, u)
    BY <1>2, <1>3, LiesWithin
  <2>3. Lies(front, 0, <<Len(w)>>)
    BY <1>1, <2>1, <2>2
  <2>4. Lies(front, 1, w)
    BY <1>1, <2>1, <2>2
  <2> QED
    BY <2>3, <2>4
<1>5. g \in Seq(Cells) /\ Len(g) = Len(w) + 2 /\ Lies(g, 0, front) /\ Lies(g, Len(w) + 1, l)
  <2>1. g \in Seq(Cells) /\ Len(g) = Len(front) + Len(l) /\ Lies(g, 0, front)
        /\ Lies(g, Len(front), l)
    BY <1>1, <1>3, ConcatLies
  <2> QED
    BY <1>1, <1>3, <2>1
<1> HIDE DEF g
<1>6. h \in Seq(Cells) /\ Len(h) = Len(w) + Len(a) + 2 /\ Lies(h, 0, g) /\ Lies(h, Len(w) + 2, a)
  <2>1. h \in Seq(Cells) /\ Len(h) = Len(g) + Len(a) /\ Lies(h, 0, g) /\ Lies(h, Len(g), a)
    BY <1>1, <1>5, ConcatLies
  <2> QED
    BY <1>1, <1>5, <2>1
<1> HIDE DEF h
<1>7. /\ b \in Seq(Cells) /\ Len(b) = Len(h) + Len(m.pres)
      /\ Lies(b, 0, h) /\ Lies(b, Len(h), m.pres)
  BY <1>2, <1>6, ConcatLies
<1> HIDE DEF b
\* What lies in a part lies in the whole.
<1>8. /\ \A j \in Nat, u \in Seq(Cells) : Lies(front, j, u) => Lies(g, j, u)
      /\ \A j \in Nat, u \in Seq(Cells) : Lies(g, j, u) => Lies(h, j, u)
      /\ \A j \in Nat, u \in Seq(Cells) : Lies(h, j, u) => Lies(b, j, u)
  <2>1. \A j \in Nat : 0 + j = j
    OBVIOUS
  <2>2. \A j \in Nat, u \in Seq(Cells) : Lies(front, j, u) => Lies(g, 0 + j, u)
    BY <1>3, <1>5, LiesWithin
  <2>3. \A j \in Nat, u \in Seq(Cells) : Lies(g, j, u) => Lies(h, 0 + j, u)
    BY <1>5, <1>6, LiesWithin
  <2>4. \A j \in Nat, u \in Seq(Cells) : Lies(h, j, u) => Lies(b, 0 + j, u)
    BY <1>6, <1>7, LiesWithin
  <2> QED
    BY <2>1, <2>2, <2>3, <2>4
<1>9. Lies(b, 0, <<Len(w)>>) /\ Lies(b, 1, w)
  <2>1. 0 \in Nat /\ 1 \in Nat
    OBVIOUS
  <2> QED
    BY <1>1, <1>4, <1>8, <2>1
<1>10. Lies(b, Len(w) + 1, l) /\ Lies(b, Len(w) + 2, a)
  <2>1. Len(w) + 1 \in Nat /\ Len(w) + 2 \in Nat
    BY <1>1
  <2> QED
    BY <1>1, <1>5, <1>6, <1>8, <2>1
<1>11. Lies(b, Len(w) + Len(a) + 2, n)
  <2> DEFINE k == Len(h)
  <2>1. k \in Nat /\ k + 0 = k /\ k = Len(w) + Len(a) + 2 /\ Lies(b, k, m.pres)
    BY <1>1, <1>6, <1>7
  <2> HIDE DEF k
  <2>2. Lies(b, k + 0, n)
    BY <1>1, <1>2, <1>7, <2>1, LiesWithin
  <2> QED
    BY <2>1, <2>2
<1>12. Framed(b, w, a, n)
  BY <1>9, <1>10, <1>11 DEF Framed, l
<1>13. Len(b) = Total(w, a, n)
  BY <1>1, <1>2, <1>6, <1>7 DEF Total
<1>14. Parsed(b) = Rec(w, a, n)
  BY <1>1, <1>7, <1>12, <1>13, FramedIs
<1> QED
  BY <1>14 DEF b, h, g, front, l

\* The document of a message is read from its lists.
LEMMA DocumentIs ==
    ASSUME NEW m \in Messages, m.pktlen <= MaxSize, ~Failed(m), IsUpdate(m),
           Pending(m) \in {{}, {"F_WITHDRN"}, {"F_PATTR"}, {"F_NLRI"}},
           NEW w \in Seq(Items), NEW a \in Seq(Items), NEW n \in Seq(Items), Holds(m, w, a, n)
    PROVE  Document(m) = Rec(w, a, n)
<1> DEFINE written == Between(m.cells, m.ustart, m.uptr)
           front == SubSeq(m.cells, 1, m.ustart - 1)
<1>1. Document(m) =
        IF Pending(m) \in {{}, {"F_NLRI"}}
          THEN Parsed(SubSeq(m.cells, 1, m.pktlen))
          ELSE Parsed(((front \o <<Len(written)>>) \o written) \o m.pres)
  BY DEF Document
<1>2. /\ w \in Seq(Cells) /\ a \in Seq(Cells) /\ Len(w) \in Nat /\ Len(a) \in Nat
      /\ m.cells \in Seq(Cells)
  BY HoldsFit DEF Messages
<1>3. CASE Pending(m) \in {{}, {"F_NLRI"}}
  BY <1>1, <1>3, BodyIs
<1>4. CASE Pending(m) = {"F_WITHDRN"}
  <2>1. m.ustart = 1 /\ m.uptr = Len(w) + 1 /\ Lies(m.cells, 1, w)
    BY <1>4 DEF Holds
  <2>2. written = w
    <3>1. SubSeq(m.cells, 1 + 1, 1 + Len(w)) = w
      BY <1>2, <2>1, LiesIs
    <3>2. 1 + Len(w) = Len(w) + 1
      BY <1>2
    <3> QED
      BY <2>1, <3>1, <3>2 DEF Between
  <2>3. front \o <<Len(written)>> = <<Len(w)>>
    <3>1. m.ustart - 1 = 0
      BY <2>1
    <3>2. SubSeq(m.cells, 1, 0) = <<>>
      BY <1>2, SubSeqEmpty
    <3>3. <<Len(w)>> \in Seq(Nat)
      BY <1>2
    <3> QED
      BY <2>2, <3>1, <3>2, <3>3, ConcatEmptySeq
  <2> HIDE DEF written, front
  <2>4. Document(m) = Parsed((<<Len(w)>> \o w) \o m.pres)
    BY <1>1, <1>4, <2>2, <2>3
  <2>5. Len(w) <= Len(w)
    BY <1>2
  <2> QED
    BY <1>4, <2>4, <2>5, BodyOfWithdrawn
<1>5. CASE Pending(m) = {"F_PATTR"}
  <2>1. m.ustart = Len(w) + 2 /\ m.uptr = Len(w) + Len(a) + 2 /\ Lies(m.cells, Len(w) + 2, a)
    BY <1>5 DEF Holds
  <2>2. written = a
    <3>1. SubSeq(m.cells, (Len(w) + 2) + 1, (Len(w) + 2) + Len(a)) = a
      <4>1. Len(w) + 2 \in Nat
        BY <1>2
      <4> QED
        BY <1>2, <2>1, <4>1, LiesIs
    <3>2. (Len(w) + 2) + Len(a) = Len(w) + Len(a) + 2
      BY <1>2
    <3> QED
      BY <2>1, <3>1, <3>2 DEF Between
  <2>3. front = SubSeq(m.cells, 1, Len(w) + 1)
    <3>1. m.ustart - 1 = Len(w) + 1
      BY <1>2, <2>1
    <3> QED
      BY <3>1
  <2> HIDE DEF written, front
  <2>4. Document(m) = Parsed(((SubSeq(m.cells, 1, Len(w) + 1) \o <<Len(a)>>) \o a) \o m.pres)
    BY <1>1, <1>5, <2>2, <2>3
  <2> QED
    BY <1>5, <2>4, BodyOfAttribs
<1> QED
  BY <1>3, <1>4, <1>5

-----------------------------------------------------------------------------
(* What a message is to UpdateDoc *)

\* The three lists as the record that UpdateDoc keeps.
LEMMA RecIs ==
    /\ Doc!Blank = Rec(<<>>, <<>>, <<>>)
    /\ \A w, a, n \in Seq(Items) : Rec(w, a, n) \in Doc!Docs
    /\ \A w, a, n, t :
          /\ [Rec(w, a, n) EXCEPT !["withdrawn"] = t] = Rec(t, a, n)
          /\ [Rec(w, a, n) EXCEPT !["attrs"] = t] = Rec(w, t, n)
          /\ [Rec(w, a, n) EXCEPT !["nlri"] = t] = Rec(w, a, t)
    /\ \A w, a, n : /\ Rec(w, a, n)["withdrawn"] = w /\ Rec(w, a, n)["attrs"] = a
                    /\ Rec(w, a, n)["nlri"] = n
<1>1. Doc!Blank = Rec(<<>>, <<>>, <<>>)
  BY DEF Rec, Doc!Blank, Doc!Lists
<1>2. \A w, a, n \in Seq(Items) : Rec(w, a, n) \in Doc!Docs
  BY DEF Rec, Doc!Docs, Doc!Lists
<1>3. \A w, a, n, t : [Rec(w, a, n) EXCEPT !["withdrawn"] = t] = Rec(t, a, n)
  BY DEF Rec
<1>4. \A w, a, n, t : [Rec(w, a, n) EXCEPT !["attrs"] = t] = Rec(w, t, n)
  BY DEF Rec
<1>5. \A w, a, n, t : [Rec(w, a, n) EXCEPT !["nlri"] = t] = Rec(w, a, t)
  BY DEF Rec
<1>6. \A w, a, n : /\ Rec(w, a, n)["withdrawn"] = w /\ Rec(w, a, n)["attrs"] = a
                   /\ Rec(w, a, n)["nlri"] = n
  BY DEF Rec
<1> QED
  BY <1>1, <1>2, <1>3, <1>4, <1>5, <1>6

\* The phase follows from the flags, the open list from those of the fields.
LEMMA ViewIs ==
    ASSUME NEW m
    PROVE  /\ m.flags = {} => Phase(m) = "closed"
           /\ m.flags # {} /\ "F_RD" \in m.flags => Phase(m) = "delivered"
           /\ m.flags # {} /\ "F_RD" \notin m.flags => Phase(m) = "writing"
           /\ Failed(m) \/ Pending(m) = {} => Current(m) = "none"
           /\ ~Failed(m) /\ Pending(m) = {"F_WITHDRN"} => Current(m) = "withdrawn"
           /\ ~Failed(m) /\ Pending(m) = {"F_PATTR"} => Current(m) = "attrs"
           /\ ~Failed(m) /\ Pending(m) = {"F_NLRI"} => Current(m) = "nlri"
           /\ Failed(m) \/ ~IsUpdate(m) => Document(m) = Rec(<<>>, <<>>, <<>>)
           /\ Failed(m) \in BOOLEAN
<1>1. /\ m.flags = {} => Phase(m) = "closed"
      /\ m.flags # {} /\ "F_RD" \in m.flags => Phase(m) = "delivered"
      /\ m.flags # {} /\ "F_RD" \notin m.flags => Phase(m) = "writing"
  BY DEF Phase
<1>2. /\ Failed(m) \/ Pending(m) = {} => Current(m) = "none"
      /\ ~Failed(m) /\ Pending(m) = {"F_WITHDRN"} => Current(m) = "withdrawn"
      /\ ~Failed(m) /\ Pending(m) = {"F_PATTR"} => Current(m) = "attrs"
      /\ ~Failed(m) /\ Pending(m) = {"F_NLRI"} => Current(m) = "nlri"
  BY DEF Current
<1>3. Failed(m) \/ ~IsUpdate(m) => Document(m) = Rec(<<>>, <<>>, <<>>)
  BY DEF Document, Rec
<1>4. Failed(m) \in BOOLEAN
  BY DEF Failed
<1> QED
  BY <1>1, <1>2, <1>3, <1>4

\* A message that is open and of which no call failed.
Good(m) == Correct(m) /\ m.flags # {} /\ m.err = "ENOERR"

LEMMA GoodIs ==
    ASSUME NEW m, Good(m), MaxLen <= FastSize
    PROVE  /\ Ready(m) /\ ~Failed(m) /\ m.pktlen <= MaxLen
           /\ Pending(m) # {} => IsUpdate(m)
           /\ \E w, a, n \in Seq(Items) :
                 Document(m) = Rec(w, a, n) /\ (IsUpdate(m) => Holds(m, w, a, n))
<1>1. /\ m \in Messages /\ ~m.stray /\ FastSize <= m.bufsiz
      /\ m.pktlen <= m.bufsiz /\ m.pktlen <= MaxLen
      /\ Pending(m) \in {{}, {"F_WITHDRN"}, {"F_PATTR"}, {"F_NLRI"}}
      /\ Pending(m) # {} => IsUpdate(m) /\ m.at = m.alloc
      /\ IsUpdate(m) => HoldsSome(m)
  BY DEF Good, Correct, Sound
<1>2. m.pktlen <= MaxSize
  <2>1. m.pktlen \in Nat /\ MaxLen \in Nat /\ MaxSize \in Nat /\ MaxLen <= MaxSize
    BY <1>1, SizesAssumption DEF Messages
  <2> QED
    BY <1>1, <2>1
<1>3. Ready(m)
  BY <1>1, <1>2 DEF Ready
<1>4. ~Failed(m)
  BY DEF Good, Failed
<1>5. CASE IsUpdate(m)
  <2>1. PICK w \in Seq(Items), a \in Seq(Items), n \in Seq(Items) : Holds(m, w, a, n)
    BY <1>1, <1>5 DEF HoldsSome
  <2>2. Document(m) = Rec(w, a, n)
    BY <1>1, <1>2, <1>4, <1>5, <2>1, DocumentIs
  <2> QED
    BY <1>1, <1>3, <1>4, <2>1, <2>2
<1>6. CASE ~IsUpdate(m)
  <2>1. Document(m) = Rec(<<>>, <<>>, <<>>) /\ <<>> \in Seq(Items)
    BY <1>6, ViewIs, NothingIs
  <2> QED
    BY <1>1, <1>3, <1>4, <1>6, <2>1
<1> QED
  BY <1>5, <1>6

\* The shape of a message a call returns.
Shaped(r) ==
    /\ r \in Messages /\ ~r.stray /\ FastSize <= r.bufsiz /\ r.pktlen <= MaxLen
    /\ Pending(r) \in {{}, {"F_WITHDRN"}, {"F_PATTR"}, {"F_NLRI"}}
    /\ Pending(r) # {} => r.at = r.alloc
    /\ r.flags # {} /\ ("F_RD" \in r.flags => r.flags = {"F_RD"})
    /\ "F_RD" \in r.flags \/ "F_WR" \in r.flags

\* A call that keeps the lists in place leaves a correct message.
LEMMA HoldsIsCorrect ==
    ASSUME NEW r, Shaped(r), r.err = "ENOERR", IsUpdate(r), MaxLen <= FastSize,
           NEW w \in Seq(Items), NEW a \in Seq(Items), NEW n \in Seq(Items), Holds(r, w, a, n)
    PROVE  Correct(r) /\ Document(r) = Rec(w, a, n) /\ ~Failed(r)
<1>1. /\ r \in Messages /\ ~r.stray /\ FastSize <= r.bufsiz /\ r.pktlen <= MaxLen
      /\ Pending(r) \in {{}, {"F_WITHDRN"}, {"F_PATTR"}, {"F_NLRI"}}
  BY DEF Shaped
<1>2. r.pktlen <= MaxSize /\ r.pktlen <= r.bufsiz
  <2>1. /\ r.pktlen \in Nat /\ r.bufsiz \in Nat /\ FastSize \in Nat
        /\ MaxLen \in Nat /\ MaxSize \in Nat /\ MaxLen <= MaxSize
    BY <1>1, SizesAssumption DEF Messages
  <2> QED
    BY <1>1, <2>1
<1>3. ~Failed(r)
  BY DEF Failed
<1>4. Document(r) = Rec(w, a, n)
  BY <1>1, <1>2, <1>3, DocumentIs
<1>5. Pending(r) = {} => r.pktlen <= Len(r.cells)
  <2>1. ASSUME Pending(r) = {}
        PROVE  r.pktlen <= Len(r.cells)
    <3>1. Pending(r) \in {{}, {"F_NLRI"}}
      BY <2>1
    <3> QED
      BY <1>1, <1>2, <3>1, BodyIs
  <2> QED
    BY <2>1
<1>6. Sound(r)
  BY <1>1, <1>2, <1>5 DEF Sound, Shaped
<1>7. HoldsSome(r)
  BY DEF HoldsSome
<1>8. Correct(r)
  BY <1>6, <1>7 DEF Correct, Shaped
<1> QED
  BY <1>3, <1>4, <1>8

\* A call that fails leaves a correct message and delivers nothing.
LEMMA FailStep ==
    ASSUME NEW r, msg' = r, Sound(r), r.err # "ENOERR",
           msg.flags # {}, r.flags # {}, "F_RD" \in msg.flags <=> "F_RD" \in r.flags
    PROVE  IInv' /\ Doc!Next
<1>1. Phase(r) = Phase(msg) /\ Phase(msg) # "closed"
  BY ViewIs
<1>2. Failed(r) = TRUE
  BY DEF Failed
<1>3. Current(r) = "none" /\ Document(r) = Rec(<<>>, <<>>, <<>>)
  BY <1>2, ViewIs
<1>4. Doc!Fail
  BY <1>1, <1>2, <1>3, RecIs DEF Doc!Fail
<1>5. Correct(r)
  BY DEF Correct
<1> QED
  BY <1>4, <1>5 DEF IInv, Doc!Next

\* A call that is refused.
LEMMA RefuseStep ==
    ASSUME IInv, msg.flags # {}, msg' = Refuse(msg)
    PROVE  IInv' /\ Doc!Next
<1> DEFINE r == Refuse(msg)
<1>1. Sound(msg) /\ msg \in Messages
  BY DEF IInv, Correct, Sound
<1>2. /\ r \in Messages /\ r.stray = msg.stray /\ r.bufsiz = msg.bufsiz
      /\ r.pktlen = msg.pktlen /\ r.cells = msg.cells /\ r.flags = msg.flags
      /\ r.err # "ENOERR"
  BY <1>1 DEF Refuse, Messages
<1> HIDE DEF r
<1>3. Pending(r) = Pending(msg)
  BY <1>2 DEF Pending
<1>4. Sound(r)
  BY <1>1, <1>2, <1>3 DEF Sound
<1>5. msg' = r
  BY DEF r
<1> QED
  BY <1>2, <1>4, <1>5, FailStep

\* The document after a step of a message in which no call failed.
LEMMA WriteStep ==
    ASSUME NEW r, msg' = r, Good(msg), "F_RD" \notin msg.flags, MaxLen <= FastSize,
           Correct(r), ~Failed(r), r.flags # {}, "F_RD" \notin r.flags
    PROVE  /\ Phase(msg) = "writing" /\ Phase(msg') = Phase(msg)
           /\ ~Failed(msg) /\ Failed(msg') = Failed(msg)
<1>1. Phase(msg) = "writing" /\ Phase(r) = "writing"
  BY ViewIs DEF Good
<1>2. ~Failed(msg) /\ Failed(r) = FALSE
  BY ViewIs DEF Good, Failed
<1>3. Failed(msg) = FALSE
  BY <1>2, ViewIs
<1> QED
  BY <1>1, <1>2, <1>3

-----------------------------------------------------------------------------
(* The calls *)

LEMMA ClosedIs ==
    Closed \in Messages /\ Sound(Closed) /\ Correct(Closed) /\ Pending(Closed) = {}
<1>1. FastSize \in Nat
  BY SizesAssumption
<1>2. Closed \in Messages
  BY <1>1, EmptySeq DEF Closed, Messages
<1>3. Pending(Closed) = {}
  BY DEF Closed, Pending
<1>4. Sound(Closed)
  <2>1. /\ Closed.pktlen = 0 /\ Closed.bufsiz = FastSize /\ Closed.stray = FALSE
        /\ Closed.cells = <<>> /\ Closed.flags = {}
    BY DEF Closed
  <2>2. Len(Closed.cells) = 0
    BY <2>1, NothingIs
  <2>3. Closed.pktlen <= Closed.bufsiz /\ Closed.pktlen <= Len(Closed.cells)
        /\ FastSize <= Closed.bufsiz
    BY <1>1, <2>1, <2>2
  <2> QED
    BY <1>2, <1>3, <2>1, <2>3 DEF Sound
<1>5. Closed.flags = {} /\ ~IsUpdate(Closed)
  BY DEF Closed, IsUpdate
<1> QED
  BY <1>2, <1>3, <1>4, <1>5 DEF Correct

LEMMA setbgpwriteStep ==
    ASSUME IInv, MaxLen <= FastSize, NEW type \in {"UPDATE", "OTHER"}, setbgpwrite(type)
    PROVE  IInv' /\ Doc!Next
<1> DEFINE c == IF type = "UPDATE" THEN <<0, 0>> ELSE <<>>
           len == IF type = "UPDATE" THEN 2 ELSE 0
           flags == {"F_WR"}
           r == [Closed EXCEPT !.type = type, !.flags = flags, !.cells = c, !.pktlen = len]
<1>1. msg' = r /\ msg.flags = {}
  BY DEF setbgpwrite
<1>2. /\ FastSize \in Nat /\ MaxLen \in Nat /\ 2 <= MaxLen /\ MaxSize \in Nat
      /\ 0 \in Cells
  BY SizesAssumption DEF Cells, Lengths
<1>3. /\ c \in Seq(Cells) /\ len \in Nat /\ len <= Len(c) /\ len <= MaxLen
      /\ flags \in SUBSET (FieldFlags \cup {"F_RD", "F_WR"})
      /\ flags # {} /\ "F_WR" \in flags /\ "F_RD" \notin flags /\ flags \cap FieldFlags = {}
  BY <1>2, NothingIs DEF FieldFlags
<1> HIDE DEF c, len, flags
<1>4. /\ r \in Messages /\ r.type = type /\ r.flags = flags /\ r.cells = c /\ r.pktlen = len
      /\ r.err = "ENOERR" /\ ~r.stray /\ r.bufsiz = FastSize
  BY <1>3, ClosedIs DEF Closed, Messages
<1> HIDE DEF r
<1>5. Pending(r) = {}
  BY <1>3, <1>4 DEF Pending
<1>6. Phase(msg) = "closed" /\ Phase(r) = "writing" /\ Current(r) = "none"
  BY <1>1, <1>3, <1>4, <1>5, ViewIs
<1>7. ~Failed(r) /\ Failed(r) = FALSE
  BY <1>4 DEF Failed
<1>8. Correct(r) /\ Document(r) = Rec(<<>>, <<>>, <<>>)
  <2>1. CASE type = "UPDATE"
    <3>1. Shaped(r)
      BY <1>2, <1>3, <1>4, <1>5 DEF Shaped
    <3>2. Holds(r, <<>>, <<>>, <<>>)
      <4> DEFINE none == <<>>
      <4>1. none \in Seq(Cells) /\ Len(none) = 0
        BY NothingIs
      <4>2. c = <<0, 0>> /\ len = 2
        BY <2>1 DEF c, len
      <4>3. c \in Seq(Cells) /\ Len(c) = 2 /\ c[1] = 0 /\ c[2] = 0
        BY <1>3, <4>2
      <4>4. Lies(c, 0, <<0>>) /\ Lies(c, 0 + 1, <<0>>)
        <5>1. Lies(c, 0, <<0>>) <=> 0 + 1 <= Len(c) /\ c[0 + 1] = 0
          BY <4>3, CellLies
        <5>2. Lies(c, 1, <<0>>) <=> 1 + 1 <= Len(c) /\ c[1 + 1] = 0
          BY <4>3, CellLies
        <5>3. 0 + 1 = 1 /\ 1 + 1 = 2
          OBVIOUS
        <5> QED
          BY <4>3, <5>1, <5>2, <5>3
      <4>5. Lies(c, 1, none) /\ Lies(c, 2, none)
        <5>1. \A k \in Nat : k <= Len(c) => Lies(c, k, none)
          BY NothingIs
        <5>2. 1 \in Nat /\ 2 \in Nat /\ 1 <= Len(c) /\ 2 <= Len(c)
          BY <4>3
        <5> HIDE DEF none
        <5> QED
          BY <5>1, <5>2
      <4> HIDE DEF none
      <4>6. Framed(c, none, none, none)
        BY <4>1, <4>4, <4>5 DEF Framed
      <4>7. Holds(r, none, none, none)
        BY <1>4, <1>5, <4>1, <4>2, <4>6 DEF Holds
      <4> QED
        BY <4>7 DEF none
    <3>3. IsUpdate(r)
      BY <1>4, <2>1 DEF IsUpdate
    <3> QED
      BY <1>4, <3>1, <3>2, <3>3, NothingIs, HoldsIsCorrect
  <2>2. CASE type # "UPDATE"
    <3>1. ~IsUpdate(r)
      BY <1>4, <2>2 DEF IsUpdate
    <3>2. r.pktlen <= r.bufsiz
      BY <1>2, <1>3, <1>4
    <3>3. Sound(r)
      BY <1>2, <1>3, <1>4, <1>5, <3>2 DEF Sound
    <3>4. Correct(r)
      BY <1>3, <1>4, <1>5, <3>1, <3>3 DEF Correct
    <3> QED
      BY <3>1, <3>4, ViewIs
  <2> QED
    BY <2>1, <2>2
<1>9. Doc!Create
  BY <1>1, <1>6, <1>7, <1>8, RecIs DEF Doc!Create
<1> QED
  BY <1>1, <1>8, <1>9 DEF IInv, Doc!Next

\* Where a message is written the flag for it is set.
LEMMA FlagsAre ==
    ASSUME Good(msg), "F_RD" \notin msg.flags
    PROVE  /\ "F_WR" \in msg.flags \ FieldFlags /\ "F_RD" \notin msg.flags \ FieldFlags
           /\ msg \in Messages
BY DEF Good, Correct, Sound, FieldFlags

LEMMA StartsStep ==
    ASSUME IInv, MaxLen <= FastSize, NEW f \in FieldFlags, Starts(f)
    PROVE  IInv' /\ Doc!Next
<1>1. msg.flags # {} /\ ~msg.stray /\ "F_RD" \notin msg.flags
  BY DEF Starts, Usable
<1>2. CASE ~ (Allowed(msg, {}) /\ IsUpdate(msg))
  <2>1. msg' = Refuse(msg)
    BY <1>2 DEF Starts
  <2> QED
    BY <1>1, <2>1, RefuseStep
<1>3. CASE Allowed(msg, {}) /\ IsUpdate(msg)
  <2> DEFINE e == EndPending(msg)
  <2>1. msg' \in StartField(e, f)
    BY <1>3 DEF Starts
  <2>2. Good(msg) /\ IsUpdate(msg)
    BY <1>1, <1>3 DEF Good, IInv, Allowed
  <2>3. /\ Ready(msg) /\ ~Failed(msg) /\ msg.pktlen <= MaxLen
        /\ "F_WR" \in msg.flags \ FieldFlags /\ "F_RD" \notin msg.flags \ FieldFlags
        /\ FastSize <= msg.bufsiz
    BY <1>1, <2>2, GoodIs, FlagsAre DEF Good, Correct, Sound
  <2>4. PICK w \in Seq(Items), a \in Seq(Items), n \in Seq(Items) :
           Document(msg) = Rec(w, a, n) /\ Holds(msg, w, a, n)
    BY <2>2, GoodIs
  <2>5. /\ Alike(e, msg) /\ e.flags = msg.flags \ FieldFlags /\ Pending(e) = {}
        /\ e.pktlen = msg.pktlen /\ Holds(e, w, a, n)
    BY <2>3, <2>4, EndPendingIs
  <2> HIDE DEF e
  <2>6. Still(e) /\ e \in Messages
    BY <2>3, <2>5 DEF Still, Ready, Alike
  <2>7. CASE msg' = Opened(e, f)
    <3> DEFINE o == Opened(e, f)
               w2 == IF f = "F_WITHDRN" THEN <<>> ELSE w
               a2 == IF f = "F_PATTR" THEN <<>> ELSE a
               n2 == IF f = "F_NLRI" THEN <<>> ELSE n
    <3>1. /\ Alike(o, e) /\ o.flags = e.flags \cup {f} /\ Pending(o) = {f}
          /\ o.at = o.alloc /\ o.pktlen <= e.pktlen /\ Holds(o, w2, a2, n2)
      BY <2>5, <2>6, OpenedIs
    <3>2. w2 \in Seq(Items) /\ a2 \in Seq(Items) /\ n2 \in Seq(Items)
      BY NothingIs
    <3>3. msg' = o
      BY <2>7
    <3> HIDE DEF o, w2, a2, n2
    <3>4. /\ o \in Messages /\ o.err = "ENOERR" /\ IsUpdate(o) /\ ~o.stray
          /\ FastSize <= o.bufsiz
      BY <1>1, <2>2, <2>3, <2>5, <3>1 DEF Alike, IsUpdate, Good
    <3>5. o.pktlen <= MaxLen
      <4>1. o.pktlen \in Nat /\ e.pktlen \in Nat /\ MaxLen \in Nat
        BY <2>6, <3>4, SizesAssumption DEF Messages
      <4> QED
        BY <2>3, <2>5, <3>1, <4>1
    <3>6. o.flags # {} /\ "F_WR" \in o.flags /\ "F_RD" \notin o.flags
      BY <2>3, <2>5, <3>1 DEF FieldFlags
    <3>7. Shaped(o)
      BY <3>1, <3>4, <3>5, <3>6 DEF Shaped, FieldFlags
    <3>8. Correct(o) /\ Document(o) = Rec(w2, a2, n2) /\ ~Failed(o)
      BY <3>1, <3>2, <3>4, <3>7, HoldsIsCorrect
    <3>9. Doc!Writing
      BY <1>1, <2>2, <3>3, <3>6, <3>8, WriteStep DEF Doc!Writing
    <3>10. \E l \in Doc!Lists : Doc!Open(l)
      <4>1. CASE f = "F_WITHDRN"
        <5>1. Current(o) = "withdrawn"
          BY <3>1, <3>8, <4>1, ViewIs
        <5>2. Document(o) = [Document(msg) EXCEPT !["withdrawn"] = <<>>]
          BY <2>4, <3>8, <4>1, RecIs DEF w2, a2, n2
        <5> QED
          BY <3>3, <3>9, <5>1, <5>2 DEF Doc!Open, Doc!Lists
      <4>2. CASE f = "F_PATTR"
        <5>1. Current(o) = "attrs"
          BY <3>1, <3>8, <4>2, ViewIs
        <5>2. Document(o) = [Document(msg) EXCEPT !["attrs"] = <<>>]
          BY <2>4, <3>8, <4>2, RecIs DEF w2, a2, n2
        <5> QED
          BY <3>3, <3>9, <5>1, <5>2 DEF Doc!Open, Doc!Lists
      <4>3. CASE f = "F_NLRI"
        <5>1. Current(o) = "nlri"
          BY <3>1, <3>8, <4>3, ViewIs
        <5>2. Document(o) = [Document(msg) EXCEPT !["nlri"] = <<>>]
          BY <2>4, <3>8, <4>3, RecIs DEF w2, a2, n2
        <5> QED
          BY <3>3, <3>9, <5>1, <5>2 DEF Doc!Open, Doc!Lists
      <4> QED
        BY <4>1, <4>2, <4>3 DEF FieldFlags
    <3> QED
      BY <3>3, <3>8, <3>10 DEF IInv, Doc!Next
  <2>8. CASE msg' = [e EXCEPT !.err = "ENOMEM"]
    <3> DEFINE r == [e EXCEPT !.err = "ENOMEM"]
    <3>1. /\ r \in Messages /\ r.stray = e.stray /\ r.bufsiz = e.bufsiz
          /\ r.pktlen = e.pktlen /\ r.cells = e.cells /\ r.flags = e.flags
          /\ r.err # "ENOERR"
      BY <2>6 DEF Messages
    <3>2. msg' = r
      BY <2>8
    <3> HIDE DEF r
    <3>3. Pending(r) = {}
      BY <2>5, <3>1 DEF Pending
    <3>4. e.pktlen <= Len(e.cells) /\ e.pktlen <= e.bufsiz /\ ~e.stray /\ FastSize <= e.bufsiz
      BY <2>3, <2>5, <2>6, SectionIs DEF Still, Ready, Alike
    <3>5. "F_WR" \in r.flags /\ "F_RD" \notin r.flags
      BY <2>3, <2>5, <3>1
    <3>6. Sound(r)
      BY <3>1, <3>3, <3>4, <3>5 DEF Sound
    <3> QED
      BY <1>1, <3>1, <3>2, <3>5, <3>6, FailStep
  <2>9. msg' = Opened(e, f) \/ msg' = [e EXCEPT !.err = "ENOMEM"]
    BY <2>1 DEF StartField
  <2> QED
    BY <2>7, <2>8, <2>9
<1> QED
  BY <1>2, <1>3

\* A message of which a field is written.
LEMMA OpenIs ==
    ASSUME IInv, MaxLen <= FastSize, NEW f \in FieldFlags, Allowed(msg, {f})
    PROVE  /\ Good(msg) /\ Open(msg, f) /\ IsUpdate(msg) /\ "F_RD" \notin msg.flags
           /\ "F_WR" \in msg.flags /\ FastSize <= msg.bufsiz /\ msg.pktlen <= MaxLen
<1>1. msg.err = "ENOERR" /\ f \in msg.flags /\ f \in Pending(msg) /\ f # "F_RD"
  BY DEF Allowed, Pending, FieldFlags
<1>2. Good(msg) /\ Sound(msg)
  BY <1>1 DEF Good, IInv, Correct
<1>3. /\ Ready(msg) /\ IsUpdate(msg) /\ msg.pktlen <= MaxLen
  BY <1>1, <1>2, GoodIs
<1>4. Pending(msg) = {f}
  BY <1>1, <1>3 DEF Ready
<1>5. Open(msg, f)
  BY <1>3, <1>4 DEF Open, Ready
<1>6. "F_RD" \notin msg.flags /\ "F_WR" \in msg.flags /\ FastSize <= msg.bufsiz
  BY <1>1, <1>2 DEF Sound
<1> QED
  BY <1>2, <1>3, <1>5, <1>6

LEMMA PutsStep ==
    ASSUME IInv, MaxLen <= FastSize, NEW f \in FieldFlags, NEW x \in Items, Puts(f, x)
    PROVE  IInv' /\ Doc!Next
<1>1. msg.flags # {} /\ ~msg.stray /\ msg.pktlen + 1 <= MaxLen
  BY DEF Puts, Usable, Fits
<1>2. CASE ~ Allowed(msg, {"F_WR", f})
  <2>1. msg' = Refuse(msg)
    BY <1>2 DEF Puts
  <2> QED
    BY <1>1, <2>1, RefuseStep
<1>3. CASE Allowed(msg, {"F_WR", f})
  <2> DEFINE r == Written(msg, x)
  <2>1. Allowed(msg, {f}) /\ msg.err = "ENOERR"
    BY <1>3 DEF Allowed
  <2>2. /\ Good(msg) /\ Open(msg, f) /\ IsUpdate(msg) /\ "F_RD" \notin msg.flags
        /\ "F_WR" \in msg.flags /\ FastSize <= msg.bufsiz
    BY <2>1, OpenIs
  <2>3. msg.pktlen < msg.bufsiz /\ msg.pktlen + 1 <= msg.bufsiz
    <3>1. msg.pktlen \in Nat /\ msg.bufsiz \in Nat /\ MaxLen \in Nat /\ FastSize \in Nat
      BY <2>2, SizesAssumption DEF Open, Messages
    <3> QED
      BY <1>1, <2>2, <3>1
  <2>4. msg' = r
    <3>1. msg' \in PutItem(msg, f, x)
      BY <1>3 DEF Puts
    <3>2. bgpensure(msg, 1) = {msg}
      BY <2>3, RoomEnough
    <3>3. PutItem(msg, f, x) = {r}
      BY <2>1, <3>2 DEF PutItem
    <3> QED
      BY <3>1, <3>3
  <2>5. PICK w \in Seq(Items), a \in Seq(Items), n \in Seq(Items) :
           Document(msg) = Rec(w, a, n) /\ Holds(msg, w, a, n)
    BY <2>2, GoodIs
  <2> DEFINE w2 == IF f = "F_WITHDRN" THEN Append(w, x) ELSE w
             a2 == IF f = "F_PATTR" THEN Append(a, x) ELSE a
             n2 == IF f = "F_NLRI" THEN Append(n, x) ELSE n
  <2>6. /\ Alike(r, msg) /\ r.flags = msg.flags /\ Pending(r) = {f} /\ r.at = r.alloc
        /\ r.pktlen = msg.pktlen + 1 /\ Holds(r, w2, a2, n2)
    BY <2>2, <2>3, <2>5, WrittenIs
  <2>7. w2 \in Seq(Items) /\ a2 \in Seq(Items) /\ n2 \in Seq(Items)
    BY AppendProperties
  <2> HIDE DEF r, w2, a2, n2
  <2>8. /\ r \in Messages /\ r.err = "ENOERR" /\ IsUpdate(r) /\ ~r.stray
        /\ FastSize <= r.bufsiz /\ r.flags # {}
    BY <1>1, <2>1, <2>2, <2>6 DEF Alike, IsUpdate
  <2>9. Shaped(r)
    BY <1>1, <2>2, <2>6, <2>8 DEF Shaped, FieldFlags
  <2>10. Correct(r) /\ Document(r) = Rec(w2, a2, n2) /\ ~Failed(r)
    BY <2>6, <2>7, <2>8, <2>9, HoldsIsCorrect
  <2>11. Doc!Writing
    BY <2>2, <2>4, <2>6, <2>8, <2>10, WriteStep DEF Doc!Writing
  <2>12. Pending(msg) = {f} /\ ~Failed(msg)
    BY <2>1, <2>2 DEF Open, Failed
  <2>13. Doc!Put(x)
    <3>1. CASE f = "F_WITHDRN"
      <4>1. Current(msg) = "withdrawn" /\ Current(r) = "withdrawn"
        BY <2>6, <2>10, <2>12, <3>1, ViewIs
      <4>2. Document(r) = [Document(msg) EXCEPT !["withdrawn"] = Append(@, x)]
        <5>1. Document(r) = Rec(Append(w, x), a, n)
          BY <2>10, <3>1 DEF w2, a2, n2
        <5>2. Document(msg)["withdrawn"] = w
          BY <2>5, RecIs
        <5>3. [Document(msg) EXCEPT !["withdrawn"] = Append(w, x)] = Rec(Append(w, x), a, n)
          <6> DEFINE v == Append(w, x)
          <6> HIDE DEF v
          <6>1. [Rec(w, a, n) EXCEPT !["withdrawn"] = v] = Rec(v, a, n)
            BY RecIs
          <6> QED
            BY <2>5, <6>1 DEF v
        <5> QED
          BY <5>1, <5>2, <5>3
      <4> QED
        BY <2>4, <2>11, <4>1, <4>2 DEF Doc!Put, Doc!Lists
    <3>2. CASE f = "F_PATTR"
      <4>1. Current(msg) = "attrs" /\ Current(r) = "attrs"
        BY <2>6, <2>10, <2>12, <3>2, ViewIs
      <4>2. Document(r) = [Document(msg) EXCEPT !["attrs"] = Append(@, x)]
        <5>1. Document(r) = Rec(w, Append(a, x), n)
          BY <2>10, <3>2 DEF w2, a2, n2
        <5>2. Document(msg)["attrs"] = a
          BY <2>5, RecIs
        <5>3. [Document(msg) EXCEPT !["attrs"] = Append(a, x)] = Rec(w, Append(a, x), n)
          <6> DEFINE v == Append(a, x)
          <6> HIDE DEF v
          <6>1. [Rec(w, a, n) EXCEPT !["attrs"] = v] = Rec(w, v, n)
            BY RecIs
          <6> QED
            BY <2>5, <6>1 DEF v
        <5> QED
          BY <5>1, <5>2, <5>3
      <4> QED
        BY <2>4, <2>11, <4>1, <4>2 DEF Doc!Put, Doc!Lists
    <3>3. CASE f = "F_NLRI"
      <4>1. Current(msg) = "nlri" /\ Current(r) = "nlri"
        BY <2>6, <2>10, <2>12, <3>3, ViewIs
      <4>2. Document(r) = [Document(msg) EXCEPT !["nlri"] = Append(@, x)]
        <5>1. Document(r) = Rec(w, a, Append(n, x))
          BY <2>10, <3>3 DEF w2, a2, n2
        <5>2. Document(msg)["nlri"] = n
          BY <2>5, RecIs
        <5>3. [Document(msg) EXCEPT !["nlri"] = Append(n, x)] = Rec(w, a, Append(n, x))
          <6> DEFINE v == Append(n, x)
          <6> HIDE DEF v
          <6>1. [Rec(w, a, n) EXCEPT !["nlri"] = v] = Rec(w, a, v)
            BY RecIs
          <6> QED
            BY <2>5, <6>1 DEF v
        <5> QED
          BY <5>1, <5>2, <5>3
      <4> QED
        BY <2>4, <2>11, <4>1, <4>2 DEF Doc!Put, Doc!Lists
    <3> QED
      BY <3>1, <3>2, <3>3 DEF FieldFlags
  <2> QED
    BY <2>4, <2>10, <2>13 DEF IInv, Doc!Next
<1> QED
  BY <1>2, <1>3

LEMMA EndsStep ==
    ASSUME IInv, MaxLen <= FastSize, NEW f \in FieldFlags, Ends(f)
    PROVE  IInv' /\ Doc!Next
<1>1. msg.flags # {} /\ ~msg.stray
  BY DEF Ends, Usable
<1>2. CASE ~ Allowed(msg, {f})
  <2>1. msg' = Refuse(msg)
    BY <1>2 DEF Ends
  <2> QED
    BY <1>1, <2>1, RefuseStep
<1>3. CASE Allowed(msg, {f})
  <2> DEFINE r == EndField(msg, f)
  <2>1. msg' = r /\ msg.err = "ENOERR"
    BY <1>3 DEF Ends, Allowed
  <2>2. /\ Good(msg) /\ Open(msg, f) /\ IsUpdate(msg) /\ "F_RD" \notin msg.flags
        /\ "F_WR" \in msg.flags /\ FastSize <= msg.bufsiz /\ msg.pktlen <= MaxLen
    BY <1>3, OpenIs
  <2>3. PICK w \in Seq(Items), a \in Seq(Items), n \in Seq(Items) :
           Document(msg) = Rec(w, a, n) /\ Holds(msg, w, a, n)
    BY <2>2, GoodIs
  <2>4. /\ Alike(r, msg) /\ r.flags = msg.flags \ {f} /\ Pending(r) = {}
        /\ r.pktlen = msg.pktlen /\ Holds(r, w, a, n)
    BY <2>2, <2>3, EndFieldIs
  <2> HIDE DEF r
  <2>5. r.flags # {} /\ "F_WR" \in r.flags /\ "F_RD" \notin r.flags
    BY <2>2, <2>4 DEF FieldFlags
  <2>6. /\ r \in Messages /\ r.err = "ENOERR" /\ IsUpdate(r) /\ ~r.stray
        /\ FastSize <= r.bufsiz
    BY <1>1, <2>1, <2>2, <2>4 DEF Alike, IsUpdate
  <2>7. Shaped(r)
    BY <2>2, <2>4, <2>5, <2>6 DEF Shaped
  <2>8. Correct(r) /\ Document(r) = Rec(w, a, n) /\ ~Failed(r)
    BY <2>4, <2>6, <2>7, HoldsIsCorrect
  <2>9. Doc!Writing
    BY <2>1, <2>2, <2>5, <2>8, WriteStep DEF Doc!Writing
  <2>10. Doc!Close
    BY <2>1, <2>3, <2>4, <2>8, <2>9, ViewIs DEF Doc!Close
  <2> QED
    BY <2>1, <2>8, <2>10 DEF IInv, Doc!Next
<1> QED
  BY <1>2, <1>3

\* A message no field of which is open, between two calls.
LEMMA StillIs ==
    ASSUME IInv, MaxLen <= FastSize, msg.flags # {}, Pending(msg) = {}, IsUpdate(msg),
           msg.err = "ENOERR", "F_RD" \notin msg.flags
    PROVE  /\ Good(msg) /\ Still(msg) /\ "F_WR" \in msg.flags /\ FastSize <= msg.bufsiz
           /\ Current(msg) = "none" /\ msg.pktlen \in Nat
           /\ \E w, a, n \in Seq(Items) : Document(msg) = Rec(w, a, n) /\ Holds(msg, w, a, n)
<1>1. Good(msg) /\ Sound(msg)
  BY DEF Good, IInv, Correct
<1>2. Still(msg) /\ "F_WR" \in msg.flags /\ FastSize <= msg.bufsiz /\ msg.pktlen \in Nat
  BY <1>1, GoodIs DEF Still, Sound, Messages
<1> QED
  BY <1>1, <1>2, GoodIs, ViewIs

\* Replacing one list of such a message.
LEMMA ReplaceStep ==
    ASSUME IInv, MaxLen <= FastSize, msg.flags # {}, Pending(msg) = {}, IsUpdate(msg),
           msg.err = "ENOERR", "F_RD" \notin msg.flags, ~msg.stray,
           NEW r, msg' = r, Alike(r, msg), r.flags = msg.flags, Pending(r) = {},
           r.pktlen <= MaxLen,
           NEW w \in Seq(Items), NEW a \in Seq(Items), NEW n \in Seq(Items), Holds(r, w, a, n),
           NEW l \in Doc!Lists,
           \A k \in Doc!Lists \ {l} : Rec(w, a, n)[k] = Document(msg)[k]
    PROVE  IInv' /\ Doc!Next
<1>1. Good(msg) /\ "F_WR" \in msg.flags /\ FastSize <= msg.bufsiz /\ Current(msg) = "none"
  BY StillIs
<1>2. /\ r \in Messages /\ r.err = "ENOERR" /\ IsUpdate(r) /\ ~r.stray
      /\ FastSize <= r.bufsiz
  BY <1>1 DEF Alike, IsUpdate
<1>3. Shaped(r)
  BY <1>1, <1>2 DEF Shaped
<1>4. Correct(r) /\ Document(r) = Rec(w, a, n) /\ ~Failed(r)
  BY <1>2, <1>3, HoldsIsCorrect
<1>5. Doc!Writing
  BY <1>1, <1>4, WriteStep DEF Doc!Writing
<1>6. Current(r) = "none" /\ Rec(w, a, n) \in Doc!Docs
  BY ViewIs, RecIs
<1>7. Doc!Replace(l)
  BY <1>1, <1>4, <1>5, <1>6 DEF Doc!Replace
<1> QED
  BY <1>4, <1>7 DEF IInv, Doc!Next

LEMMA setwithdrawnStep ==
    ASSUME IInv, MaxLen <= FastSize, NEW s \in Data, setwithdrawn(s)
    PROVE  IInv' /\ Doc!Next
<1>1. /\ msg.flags # {} /\ ~msg.stray /\ Pending(msg) = {}
      /\ msg.pktlen + Len(s) <= MaxLen /\ s \in Seq(Items)
  BY DataAssumption DEF setwithdrawn, Usable, Fits
<1>2. CASE ~ (Allowed(msg, {"F_WR"}) /\ IsUpdate(msg))
  <2>1. msg' = Refuse(msg)
    BY <1>2 DEF setwithdrawn
  <2> QED
    BY <1>1, <2>1, RefuseStep
<1>3. CASE Allowed(msg, {"F_WR"}) /\ IsUpdate(msg)
  <2>1. msg' \in ReplaceWithdrawn(msg, s)
    BY <1>3 DEF setwithdrawn
  <2>2. msg.err = "ENOERR" /\ "F_WR" \in msg.flags
    BY <1>3 DEF Allowed
  <2>3. "F_RD" \notin msg.flags
    BY <2>2 DEF IInv, Correct, Sound
  <2>4. Still(msg) /\ FastSize <= msg.bufsiz /\ msg.pktlen \in Nat
    BY <1>1, <1>3, <2>2, <2>3, StillIs
  <2>5. PICK w \in Seq(Items), a \in Seq(Items), n \in Seq(Items) :
           Document(msg) = Rec(w, a, n) /\ Holds(msg, w, a, n)
    BY <1>1, <1>3, <2>2, <2>3, StillIs
  <2>6. msg.pktlen + Len(s) <= msg.bufsiz /\ msg.pktlen + Len(s) <= MaxSize
    <3>1. /\ msg.bufsiz \in Nat /\ Len(s) \in Nat /\ MaxLen \in Nat /\ FastSize \in Nat
          /\ MaxSize \in Nat /\ MaxLen <= MaxSize
      BY <1>1, <2>4, LenProperties, SizesAssumption DEF Still, Ready, Messages
    <3> QED
      BY <1>1, <2>4, <3>1
  <2> DEFINE r == msg'
  <2>7. /\ Alike(r, msg) /\ r.flags = msg.flags /\ Pending(r) = {}
        /\ r.pktlen <= msg.pktlen + Len(s) /\ Holds(r, s, a, n)
    BY <1>1, <2>1, <2>2, <2>4, <2>5, <2>6, ReplaceWithdrawnIs
  <2>8. r.pktlen <= MaxLen
    <3>1. r.pktlen \in Nat /\ Len(s) \in Nat /\ MaxLen \in Nat
      BY <1>1, <2>7, LenProperties, SizesAssumption DEF Alike, Messages
    <3> QED
      BY <1>1, <2>4, <2>7, <3>1
  <2>9. \A k \in Doc!Lists \ {"withdrawn"} : Rec(s, a, n)[k] = Document(msg)[k]
    BY <2>5, RecIs DEF Doc!Lists
  <2>10. "withdrawn" \in Doc!Lists
    BY DEF Doc!Lists
  <2> QED
    BY <1>1, <1>3, <2>2, <2>3, <2>7, <2>8, <2>9, <2>10, ReplaceStep
<1> QED
  BY <1>2, <1>3

LEMMA setnlriStep ==
    ASSUME IInv, MaxLen <= FastSize, ~SetsNlri, NEW s \in Data, setnlri(s)
    PROVE  IInv' /\ Doc!Next
<1>1. /\ msg.flags # {} /\ ~msg.stray /\ Pending(msg) = {} /\ "F_RD" \notin msg.flags
      /\ ClearsNlri(s)
  BY DEF setnlri, Usable
<1>2. CASE ~ (Allowed(msg, {}) /\ IsUpdate(msg))
  <2>1. msg' = Refuse(msg)
    BY <1>2 DEF setnlri
  <2> QED
    BY <1>1, <2>1, RefuseStep
<1>3. CASE Allowed(msg, {}) /\ IsUpdate(msg)
  <2>1. msg' \in ReplaceNlri(msg, s) /\ msg.err = "ENOERR"
    BY <1>3 DEF setnlri, Allowed
  <2>2. Still(msg) /\ "F_WR" \in msg.flags /\ msg.pktlen \in Nat /\ Good(msg)
    BY <1>1, <1>3, <2>1, StillIs
  <2>3. PICK w \in Seq(Items), a \in Seq(Items), n \in Seq(Items) :
           Document(msg) = Rec(w, a, n) /\ Holds(msg, w, a, n)
    BY <1>1, <1>3, <2>1, StillIs
  <2>4. s = <<>> /\ AttribsLen(msg) = 0
    BY <1>1, <1>3, <2>1, <2>2 DEF ClearsNlri, Allowed
  <2> DEFINE r == msg'
  <2>5. /\ Alike(r, msg) /\ r.flags = msg.flags /\ Pending(r) = {}
        /\ r.pktlen <= msg.pktlen /\ Holds(r, w, a, <<>>)
    BY <2>1, <2>2, <2>3, <2>4, ReplaceNlriIs
  <2>6. r.pktlen <= MaxLen
    <3>1. r.pktlen \in Nat /\ MaxLen \in Nat /\ msg.pktlen <= MaxLen
      BY <2>2, <2>5, GoodIs, SizesAssumption DEF Alike, Messages
    <3> QED
      BY <2>2, <2>5, <3>1
  <2>7. \A k \in Doc!Lists \ {"nlri"} : Rec(w, a, <<>>)[k] = Document(msg)[k]
    BY <2>3, RecIs DEF Doc!Lists
  <2>8. "nlri" \in Doc!Lists /\ <<>> \in Seq(Items)
    BY NothingIs DEF Doc!Lists
  <2> DEFINE none == <<>>
  <2>9. none \in Seq(Items) /\ Holds(r, w, a, none)
        /\ \A k \in Doc!Lists \ {"nlri"} : Rec(w, a, none)[k] = Document(msg)[k]
    BY <2>5, <2>7, <2>8
  <2> HIDE DEF none
  <2> QED
    BY <1>1, <1>3, <2>1, <2>5, <2>6, <2>8, <2>9, ReplaceStep
<1> QED
  BY <1>2, <1>3

LEMMA setbgpdataStep ==
    ASSUME IInv, MaxLen <= FastSize, NEW b \in Bodies, setbgpdata(b)
    PROVE  IInv' /\ Doc!Next
<1>1. msg.flags # {} /\ ~msg.stray /\ Len(b) <= MaxLen
  BY DEF setbgpdata, Usable, Fits
<1>2. CASE ~ Allowed(msg, {"F_WR"})
  <2>1. msg' = Refuse(msg)
    BY <1>2 DEF setbgpdata
  <2> QED
    BY <1>1, <2>1, RefuseStep
<1>3. CASE Allowed(msg, {"F_WR"})
  <2> DEFINE m0 == EndPending(msg)
             r == msg'
  <2>1. r \in ReplaceBody(msg, b)
    BY <1>3 DEF setbgpdata
  <2>2. msg.err = "ENOERR" /\ "F_WR" \in msg.flags /\ Good(msg) /\ Sound(msg)
    BY <1>1, <1>3 DEF Allowed, Good, IInv, Correct
  <2>3. "F_RD" \notin msg.flags /\ FastSize <= msg.bufsiz /\ msg \in Messages
    BY <2>2 DEF Sound
  <2>4. Ready(msg) /\ ~Failed(msg)
    BY <2>2, GoodIs
  <2>5. Alike(m0, msg) /\ m0.flags = msg.flags \ FieldFlags /\ Pending(m0) = {}
    <3>1. CASE IsUpdate(msg)
      <4>1. PICK w \in Seq(Items), a \in Seq(Items), n \in Seq(Items) : Holds(msg, w, a, n)
        BY <2>2, <3>1, GoodIs
      <4> QED
        BY <2>4, <4>1, EndPendingIs
    <3>2. CASE ~IsUpdate(msg)
      <4>1. Pending(msg) = {}
        BY <2>2, <3>2, GoodIs
      <4>2. m0 = msg
        BY <4>1 DEF EndPending
      <4>3. msg.flags = msg.flags \ FieldFlags
        BY <4>1 DEF Pending
      <4>4. Alike(msg, msg)
        BY <2>3 DEF Alike
      <4> QED
        BY <4>1, <4>2, <4>3, <4>4
    <3> QED
      BY <3>1, <3>2
  <2>6. m0 = EndPending(msg)
    OBVIOUS
  <2> HIDE DEF m0
  <2>7. /\ m0 \in Messages /\ ~m0.stray /\ FastSize <= m0.bufsiz
        /\ m0.type = msg.type /\ m0.err = "ENOERR"
    BY <1>1, <2>2, <2>3, <2>5 DEF Alike
  <2>8. Len(b) <= FastSize /\ Len(b) <= MaxSize
    <3>1. /\ Len(b) \in Nat /\ MaxLen \in Nat /\ FastSize \in Nat /\ MaxSize \in Nat
          /\ MaxLen <= MaxSize
      BY BodiesAssumption, LenProperties, SizesAssumption
    <3> QED
      BY <1>1, <3>1
  <2>9. /\ r \in Messages /\ ~r.stray /\ FastSize <= r.bufsiz /\ r.pktlen <= r.bufsiz
        /\ r.type = m0.type /\ r.flags = m0.flags /\ r.err \in {m0.err, "ENOMEM"}
        /\ Pending(r) = {} /\ r.pktlen = Len(b) /\ r.pktlen <= Len(r.cells)
        /\ HoldsSome(r)
    BY <2>1, <2>5, <2>6, <2>7, <2>8, ReplaceBodyIs
  <2>10. r.flags # {} /\ "F_WR" \in r.flags /\ "F_RD" \notin r.flags
    BY <2>2, <2>3, <2>5, <2>9 DEF FieldFlags
  <2>11. Sound(r)
    BY <2>9, <2>10 DEF Sound
  <2>12. CASE r.err # "ENOERR"
    BY <1>1, <2>3, <2>10, <2>11, <2>12, FailStep
  <2>13. CASE r.err = "ENOERR"
    <3>1. Correct(r)
      BY <1>1, <2>9, <2>10, <2>11 DEF Correct
    <3>2. ~Failed(r) /\ Current(r) = "none"
      BY <2>9, <2>13, ViewIs DEF Failed
    <3>3. Document(r) \in Doc!Docs
      <4>1. Good(r)
        BY <2>10, <2>13, <3>1 DEF Good
      <4> QED
        BY <4>1, GoodIs, RecIs
    <3>4. Doc!Writing
      BY <2>2, <2>3, <2>10, <3>1, <3>2, WriteStep DEF Doc!Writing
    <3>5. Doc!ReplaceAll
      BY <3>2, <3>3, <3>4 DEF Doc!ReplaceAll
    <3> QED
      BY <3>1, <3>5 DEF IInv, Doc!Next
  <2> QED
    BY <2>12, <2>13
<1> QED
  BY <1>2, <1>3

LEMMA bgpfinishStep ==
    ASSUME IInv, MaxLen <= FastSize, bgpfinish
    PROVE  IInv' /\ Doc!Next
<1>1. msg.flags # {} /\ ~msg.stray
  BY DEF bgpfinish, Usable
<1>2. CASE ~ Allowed(msg, {"F_WR"})
  <2>1. msg' = Refuse(msg)
    BY <1>2 DEF bgpfinish
  <2> QED
    BY <1>1, <2>1, RefuseStep
<1>3. CASE Allowed(msg, {"F_WR"})
  <2> DEFINE e == EndPending(msg)
             flags == (e.flags \ {"F_WR"}) \cup {"F_RD"}
             r == [e EXCEPT !.flags = flags]
  <2>1. msg' = r
    <3>1. msg' = [e EXCEPT !.flags = (@ \ {"F_WR"}) \cup {"F_RD"}]
      BY <1>3 DEF bgpfinish
    <3> HIDE DEF e
    <3> QED
      BY <3>1
  <2>2. msg.err = "ENOERR" /\ "F_WR" \in msg.flags /\ Good(msg) /\ Sound(msg)
    BY <1>1, <1>3 DEF Allowed, Good, IInv, Correct
  <2>3. "F_RD" \notin msg.flags /\ FastSize <= msg.bufsiz /\ msg \in Messages
    BY <2>2 DEF Sound
  <2>4. Ready(msg) /\ ~Failed(msg) /\ msg.pktlen <= MaxLen
    BY <2>2, GoodIs
  <2>5. PICK w \in Seq(Items), a \in Seq(Items), n \in Seq(Items) :
           Document(msg) = Rec(w, a, n) /\ (IsUpdate(msg) => Holds(msg, w, a, n))
    BY <2>2, GoodIs
  <2>6. /\ Alike(e, msg) /\ e.flags = msg.flags \ FieldFlags /\ Pending(e) = {}
        /\ e.pktlen = msg.pktlen /\ (IsUpdate(msg) => Holds(e, w, a, n))
        /\ (~IsUpdate(msg) => e.cells = msg.cells)
    <3>1. CASE IsUpdate(msg)
      BY <2>4, <2>5, <3>1, EndPendingIs
    <3>2. CASE ~IsUpdate(msg)
      <4>1. Pending(msg) = {}
        BY <2>2, <3>2, GoodIs
      <4>2. e = msg
        BY <4>1 DEF EndPending
      <4>3. msg.flags = msg.flags \ FieldFlags
        BY <4>1 DEF Pending
      <4>4. Alike(msg, msg)
        BY <2>3 DEF Alike
      <4> QED
        BY <3>2, <4>1, <4>2, <4>3, <4>4
    <3> QED
      BY <3>1, <3>2
  <2> HIDE DEF e
  <2>7. flags = {"F_RD"}
    BY <2>3, <2>6 DEF Messages
  <2>8. /\ r \in Messages /\ r.flags = {"F_RD"} /\ r.type = msg.type /\ r.err = "ENOERR"
        /\ ~r.stray /\ FastSize <= r.bufsiz /\ r.pktlen = msg.pktlen
        /\ r.cells = e.cells /\ r.bufsiz = msg.bufsiz
    <3> HIDE DEF flags
    <3>1. r \in Messages /\ r.flags = flags
      BY <2>6, <2>7 DEF Alike, Messages
    <3> QED
      BY <1>1, <2>2, <2>3, <2>6, <2>7, <3>1 DEF Alike, Messages
  <2> HIDE DEF r
  <2>9. Pending(r) = {}
    BY <2>8 DEF Pending, FieldFlags
  <2>10. Shaped(r)
    BY <2>4, <2>8, <2>9 DEF Shaped
  <2>11. Correct(r) /\ Document(r) = Rec(w, a, n)
    <3>1. CASE IsUpdate(msg)
      <4>1. Holds(r, w, a, n)
        BY <2>6, <2>8, <2>9, <3>1 DEF Holds
      <4>2. IsUpdate(r)
        BY <2>8, <3>1 DEF IsUpdate
      <4> QED
        BY <2>8, <2>10, <4>1, <4>2, HoldsIsCorrect
    <3>2. CASE ~IsUpdate(msg)
      <4>1. ~IsUpdate(r)
        BY <2>8, <3>2 DEF IsUpdate
      <4>2. Document(r) = Document(msg)
        BY <3>2, <4>1, ViewIs
      <4>3. Pending(msg) = {}
        BY <2>2, <3>2, GoodIs
      <4>4. r.pktlen <= Len(r.cells) /\ r.pktlen <= r.bufsiz
        BY <2>2, <2>6, <2>8, <3>2, <4>3 DEF Sound
      <4>5. Sound(r)
        BY <2>8, <2>9, <4>4 DEF Sound
      <4>6. Correct(r)
        BY <2>4, <2>8, <2>9, <4>1, <4>5 DEF Correct
      <4> QED
        BY <2>5, <4>2, <4>6
    <3> QED
      BY <3>1, <3>2
  <2>12. /\ Phase(msg) = "writing" /\ Phase(r) = "delivered" /\ Current(r) = "none"
    BY <1>1, <2>3, <2>8, <2>9, ViewIs
  <2>13. Failed(r) = FALSE /\ Failed(msg) = FALSE
    BY <2>2, <2>8 DEF Failed
  <2>14. Doc!Deliver
    BY <2>1, <2>5, <2>11, <2>12, <2>13 DEF Doc!Deliver
  <2> QED
    BY <2>1, <2>11, <2>14 DEF IInv, Doc!Next
<1> QED
  BY <1>2, <1>3

LEMMA bgpcloseStep ==
    ASSUME IInv, bgpclose
    PROVE  IInv' /\ Doc!Next
<1>1. msg.flags # {} /\ msg' = Closed
  BY DEF bgpclose, Usable
<1>2. Closed.flags = {} /\ Closed.err = "ENOERR" /\ ~IsUpdate(Closed)
  BY DEF Closed, IsUpdate
<1>3. /\ Phase(Closed) = "closed" /\ Phase(msg) # "closed" /\ Current(Closed) = "none"
      /\ Document(Closed) = Rec(<<>>, <<>>, <<>>)
  BY <1>1, <1>2, ClosedIs, ViewIs
<1>4. Failed(Closed) = FALSE
  BY <1>2 DEF Failed
<1>5. Doc!Discard
  BY <1>1, <1>3, <1>4, RecIs DEF Doc!Discard
<1> QED
  BY <1>1, <1>5, ClosedIs DEF IInv, Doc!Next

-----------------------------------------------------------------------------
(* The theorems *)

LEMMA InitHolds == Init => IInv /\ Doc!Init
<1> SUFFICES ASSUME Init PROVE IInv /\ Doc!Init
  OBVIOUS
<1>1. msg = Closed
  BY DEF Init
<1>2. Closed.flags = {} /\ Closed.err = "ENOERR" /\ ~IsUpdate(Closed)
  BY DEF Closed, IsUpdate
<1>3. /\ Phase(Closed) = "closed" /\ Current(Closed) = "none"
      /\ Document(Closed) = Rec(<<>>, <<>>, <<>>)
  BY <1>2, ClosedIs, ViewIs
<1>4. Failed(Closed) = FALSE
  BY <1>2 DEF Failed
<1> QED
  BY <1>1, <1>3, <1>4, ClosedIs, RecIs DEF IInv, Doc!Init

LEMMA NextHolds ==
    ASSUME MaxLen <= FastSize, ~SetsNlri
    PROVE  IInv /\ [Next]_msg => IInv' /\ [Doc!Next]_Doc!vars
<1> SUFFICES ASSUME IInv, [Next]_msg
             PROVE  IInv' /\ [Doc!Next]_Doc!vars
  OBVIOUS
<1>1. ASSUME NEW type \in {"UPDATE", "OTHER"}, setbgpwrite(type)
      PROVE  IInv' /\ Doc!Next
  BY <1>1, setbgpwriteStep
<1>2. ASSUME NEW f \in FieldFlags, Starts(f)
      PROVE  IInv' /\ Doc!Next
  BY <1>2, StartsStep
<1>3. ASSUME NEW f \in FieldFlags, NEW x \in Items, Puts(f, x)
      PROVE  IInv' /\ Doc!Next
  BY <1>3, PutsStep
<1>4. ASSUME NEW f \in FieldFlags, Ends(f)
      PROVE  IInv' /\ Doc!Next
  BY <1>4, EndsStep
<1>5. ASSUME NEW s \in Data, setwithdrawn(s)
      PROVE  IInv' /\ Doc!Next
  BY <1>5, setwithdrawnStep
<1>6. ASSUME NEW s \in Data, setnlri(s)
      PROVE  IInv' /\ Doc!Next
  BY <1>6, setnlriStep
<1>7. ASSUME NEW b \in Bodies, setbgpdata(b)
      PROVE  IInv' /\ Doc!Next
  BY <1>7, setbgpdataStep
<1>8. CASE bgpfinish
  BY <1>8, bgpfinishStep
<1>9. CASE bgpclose
  BY <1>9, bgpcloseStep
<1>10. CASE UNCHANGED msg
  BY <1>10 DEF IInv, Doc!vars
<1> QED
  BY <1>1, <1>2, <1>3, <1>4, <1>5, <1>6, <1>7, <1>8, <1>9, <1>10 DEF Next

\* As long as its messages fit in fastbuf and setnlri only removes the NLRI of a
\* message without attributes, a client that calls the writing functions of
\* bgp.c in any order, also after one of them failed, has a message whose cursor,
\* lengths and cells set aside agree.
THEOREM Invariance ==
    ASSUME MaxLen <= FastSize, ~SetsNlri
    PROVE  Spec => []IInv
<1>1. Init => IInv
  BY InitHolds
<1>2. IInv /\ [Next]_msg => IInv'
  BY NextHolds
<1> QED
  BY <1>1, <1>2, PTL DEF Spec

\* The message keeps its types, and lies within its buffer.
THEOREM TypeCorrect ==
    ASSUME MaxLen <= FastSize, ~SetsNlri
    PROVE  Spec => []TypeOK
<1>1. IInv => TypeOK
  BY DEF IInv, Correct, Sound, TypeOK
<1> QED
  BY <1>1, Invariance, PTL

\* No call reads or writes outside the buffers of the message: bgprestore finds
\* as many cells as bgppreserve set aside, and no cursor outlives a buffer that
\* bgpensure moved.
THEOREM NothingStrays ==
    ASSUME MaxLen <= FastSize, ~SetsNlri
    PROVE  Spec => []NeverStrays
<1>1. IInv => NeverStrays
  BY DEF IInv, Correct, Sound, NeverStrays
<1> QED
  BY <1>1, Invariance, PTL

\* The lengths in the buffer and those that follow from the cursor agree
\* between any two calls: a start call finds its field where it is, and an end
\* call puts back what was behind it.
THEOREM AllFieldsAreFramed ==
    ASSUME MaxLen <= FastSize, ~SetsNlri
    PROVE  Spec => []FieldsAreFramed
<1>1. ASSUME IInv, IsUpdate(msg), msg.err = "ENOERR", msg.flags # {}
      PROVE  CASE Pending(msg) = {} -> WellFormed(SubSeq(msg.cells, 1, msg.pktlen))
               [] Pending(msg) = {"F_WITHDRN"} ->
                    /\ msg.ustart = 1
                    /\ msg.pktlen = msg.uptr + Len(msg.pres)
                    /\ WellFormed(<<0>> \o msg.pres)
               [] Pending(msg) = {"F_PATTR"}   ->
                    /\ msg.ustart = AttribsAt(msg)
                    /\ msg.pktlen = msg.uptr + Len(msg.pres)
               [] Pending(msg) = {"F_NLRI"}    ->
                    /\ msg.ustart = NlriAt(msg)
                    /\ msg.pktlen = msg.uptr
                    /\ WellFormed(SubSeq(msg.cells, 1, msg.uptr))
  <2>1. Good(msg)
    BY <1>1 DEF Good, IInv
  <2>2. Ready(msg)
    BY <2>1, GoodIs
  <2>3. PICK w \in Seq(Items), a \in Seq(Items), n \in Seq(Items) : Holds(msg, w, a, n)
    BY <1>1, <2>1, GoodIs
  <2>4. msg \in Messages /\ msg.pktlen <= MaxSize
    BY <2>2 DEF Ready
  <2>5. /\ Len(w) \in Nat /\ Len(a) \in Nat /\ Len(n) \in Nat
        /\ msg.pktlen = Len(w) + Len(a) + Len(n) + 2
        /\ msg.cells \in Seq(Cells) /\ Total(w, a, n) <= MaxSize
    BY <2>3, <2>4, HoldsFit DEF Total, Messages
  <2>6. CASE Pending(msg) = {}
    BY <2>3, <2>4, <2>6, BodyIs
  <2>7. CASE Pending(msg) = {"F_WITHDRN"}
    <3>1. msg.ustart = 1 /\ msg.uptr = Len(w) + 1 /\ Len(msg.pres) = Len(a) + Len(n) + 1
      BY <2>3, <2>7 DEF Holds
    <3>2. msg.pktlen = msg.uptr + Len(msg.pres)
      BY <2>5, <3>1
    <3>3. WellFormed(<<0>> \o msg.pres)
      <4> DEFINE none == <<>>
      <4>1. none \in Seq(Items) /\ Len(none) = 0 /\ <<0>> \o none = <<0>>
        <5>1. <<0>> \in Seq(Nat)
          OBVIOUS
        <5> QED
          BY <5>1, NothingIs, ConcatEmptySeq
      <4> HIDE DEF none
      <4>2. Len(none) <= Len(w)
        BY <2>5, <4>1
      <4>3. WellFormed((<<Len(none)>> \o none) \o msg.pres)
        BY <2>3, <2>4, <2>7, <4>1, <4>2, BodyOfWithdrawn
      <4> QED
        BY <4>1, <4>3
    <3> QED
      BY <2>7, <3>1, <3>2, <3>3
  <2>8. CASE Pending(msg) = {"F_PATTR"}
    <3>1. /\ msg.ustart = Len(w) + 2 /\ msg.uptr = Len(w) + Len(a) + 2
          /\ Len(msg.pres) = Len(n) /\ Lies(msg.cells, 0, <<Len(w)>>)
      BY <2>3, <2>8 DEF Holds
    <3>2. msg.pktlen = msg.uptr + Len(msg.pres)
      BY <2>5, <3>1
    <3>3. msg.cells[1] = Len(w)
      <4>1. Lies(msg.cells, 0, <<Len(w)>>) <=>
              0 + 1 <= Len(msg.cells) /\ msg.cells[0 + 1] = Len(w)
        BY <2>5, CellLies
      <4> QED
        BY <3>1, <4>1
    <3>4. msg.ustart = AttribsAt(msg)
      BY <3>1, <3>3 DEF AttribsAt, WithdrawnLen
    <3> QED
      BY <2>8, <3>2, <3>4
  <2>9. CASE Pending(msg) = {"F_NLRI"}
    <3>1. msg.ustart = Len(w) + Len(a) + 2 /\ msg.uptr = msg.pktlen /\ Framed(msg.cells, w, a, n)
      BY <2>3, <2>9 DEF Holds
    <3>2. msg.cells[1] = Len(w) /\ msg.cells[Len(w) + 2] = Len(a)
      BY <2>5, <3>1, FramedIs
    <3>3. AttribsAt(msg) = Len(w) + 2 /\ AttribsLen(msg) = Len(a)
      BY <3>2 DEF AttribsAt, AttribsLen, WithdrawnLen
    <3>4. msg.ustart = NlriAt(msg)
      BY <2>5, <3>1, <3>3 DEF NlriAt
    <3>5. WellFormed(SubSeq(msg.cells, 1, msg.uptr))
      BY <2>3, <2>4, <2>9, <3>1, BodyIs
    <3> QED
      BY <2>9, <3>1, <3>4, <3>5
  <2> QED
    BY <2>2, <2>6, <2>7, <2>8, <2>9 DEF Ready
<1>2. IInv /\ IsUpdate(msg) => msg.flags # {}
  BY DEF IInv, Correct
<1>3. IInv => FieldsAreFramed
  BY <1>1, <1>2 DEF FieldsAreFramed
<1> QED
  BY <1>3, Invariance, PTL

\* The writer implements UpdateDoc: whatever the layout of the buffer, a start
\* call empties one list and closes the open one, a put call appends to the open
\* list, and what is delivered is what the calls describe, or nothing when one
\* of them failed.
THEOREM WritesTheDocumentAlways ==
    ASSUME MaxLen <= FastSize, ~SetsNlri
    PROVE  Spec => WritesTheDocument
<1>1. Init => IInv /\ Doc!Init
  BY InitHolds
<1>2. IInv /\ [Next]_msg => IInv' /\ [Doc!Next]_Doc!vars
  BY NextHolds
<1> QED
  BY <1>1, <1>2, PTL DEF Spec, WritesTheDocument, Doc!Spec
=============================================================================
