-------------------------- MODULE IoStream_proofs ---------------------------
(***************************************************************************)
(* Proofs about IoStream, for every size of the buffers, every file, every *)
(* latency of the compressors and any number of failures of the device.    *)
(***************************************************************************)
EXTENDS IoStream, WellFoundedInduction, SequenceTheorems, TLAPS

\* A nonempty set of naturals has a least element, and Min is one: the first
\* position a search finds is one that satisfies what was searched for.
LEMMA MinIsLeast ==
    ASSUME NEW S \in SUBSET Nat, S # {}
    PROVE  Min(S) \in S /\ \A x \in S : Min(S) <= x
<1> DEFINE R == OpToRel(<, Nat)
<1>1. \A x, y \in Nat : <<y, x>> \in R <=> y < x
  BY DEF OpToRel
<1>2. IsWellFoundedOn(R, Nat)
  BY NatLessThanWellFounded
<1> HIDE DEF R
<1>3. PICK m \in S : \A y \in S : ~ (<<y, m>> \in R)
  BY <1>2, WFMin
<1>4. ASSUME NEW y \in S PROVE m <= y
  <2>1. m \in Nat /\ y \in Nat
    OBVIOUS
  <2>2. ~ (<<y, m>> \in R)
    BY <1>3
  <2>3. ~ (y < m)
    BY <1>1, <2>1, <2>2
  <2> QED
    BY <2>1, <2>3
<1> QED
  BY <1>4 DEF Min

\* The smaller and the larger of two numbers.
LEMMA PairMin ==
    ASSUME NEW a \in Int, NEW b \in Int
    PROVE  Min({a, b}) = IF a <= b THEN a ELSE b
<1> DEFINE m == IF a <= b THEN a ELSE b
<1>1. m \in {a, b} /\ \A y \in {a, b} : m <= y
  OBVIOUS
<1>2. \A x \in {a, b} : (\A y \in {a, b} : x <= y) => x = m
  OBVIOUS
<1> HIDE DEF m
<1>3. Min({a, b}) = m
  BY <1>1, <1>2 DEF Min
<1> QED
  BY <1>3 DEF m

LEMMA PairMax ==
    ASSUME NEW a \in Int, NEW b \in Int
    PROVE  Max({a, b}) = IF a <= b THEN b ELSE a
<1> DEFINE m == IF a <= b THEN b ELSE a
<1>1. m \in {a, b} /\ \A y \in {a, b} : m >= y
  OBVIOUS
<1>2. \A x \in {a, b} : (\A y \in {a, b} : x >= y) => x = m
  OBVIOUS
<1> HIDE DEF m
<1>3. Max({a, b}) = m
  BY <1>1, <1>2 DEF Max
<1> QED
  BY <1>3 DEF m

\* A piece of a sequence: its elements, how many, and which.
LEMMA Piece ==
    ASSUME NEW S, NEW s \in Seq(S),
           NEW m \in 1..Len(s) + 1, NEW n \in m - 1..Len(s)
    PROVE  /\ SubSeq(s, m, n) \in Seq(S)
           /\ Len(SubSeq(s, m, n)) = n - m + 1
           /\ \A i \in 1..n - m + 1 : SubSeq(s, m, n)[i] = s[m + i - 1]
<1>1. \A i \in m..n : s[i] \in S
  BY ElementOfSeq
<1>2. m \in Int /\ n \in Int
  OBVIOUS
<1> QED
  BY <1>1, <1>2, SubSeqProperties

\* What is cut from the front of a concatenation, behind its first part.
LEMMA FrontOfConcat ==
    ASSUME NEW S, NEW s \in Seq(S), NEW t \in Seq(S),
           NEW k \in Len(s)..Len(s) + Len(t)
    PROVE  SubSeq(s \o t, 1, k) = s \o SubSeq(t, 1, k - Len(s))
<1> DEFINE front == SubSeq(t, 1, k - Len(s))
           whole == SubSeq(s \o t, 1, k)
<1>1. /\ s \o t \in Seq(S) /\ Len(s \o t) = Len(s) + Len(t)
      /\ \A i \in 1..Len(s) + Len(t) :
            (s \o t)[i] = IF i <= Len(s) THEN s[i] ELSE t[i - Len(s)]
  BY ConcatProperties
<1>2. /\ front \in Seq(S) /\ Len(front) = k - Len(s)
      /\ \A i \in 1..k - Len(s) : front[i] = t[i]
  BY Piece
<1>3. /\ whole \in Seq(S) /\ Len(whole) = k
      /\ \A i \in 1..k : whole[i] = (s \o t)[i]
  BY <1>1, Piece
<1> HIDE DEF front, whole
<1>4. /\ s \o front \in Seq(S) /\ Len(s \o front) = k
      /\ \A i \in 1..k :
            (s \o front)[i] = IF i <= Len(s) THEN s[i] ELSE front[i - Len(s)]
  BY <1>2, ConcatProperties
<1>5. ASSUME NEW i \in 1..k
      PROVE  whole[i] = (s \o front)[i]
  <2>1. Len(s) \in Nat /\ Len(t) \in Nat
    BY LenProperties
  <2>2. whole[i] = IF i <= Len(s) THEN s[i] ELSE t[i - Len(s)]
    BY <1>1, <1>3, <2>1
  <2>3. i <= Len(s) \/ i - Len(s) \in 1..k - Len(s)
    BY <2>1
  <2> QED
    BY <1>2, <1>4, <2>2, <2>3
<1> QED
  BY <1>3, <1>4, <1>5, SeqEqual DEF front, whole

\* A prefix, element by element.
LEMMA PrefixByElements ==
    ASSUME NEW S, NEW s \in Seq(S), NEW t \in Seq(S)
    PROVE  IsPrefix(s, t) <=>
             Len(s) <= Len(t) /\ \A i \in 1..Len(s) : s[i] = t[i]
<1>1. SubSeq(s, 1, Len(s)) = s
  BY SubSeqFull
<1>2. ASSUME Len(s) <= Len(t)
      PROVE  SubSeq(s, 1, Len(s)) = SubSeq(t, 1, Len(s)) <=>
               \A i \in 1..Len(s) : s[i] = t[i]
  <2> DEFINE front == SubSeq(t, 1, Len(s))
  <2>1. /\ front \in Seq(S) /\ Len(front) = Len(s)
        /\ \A i \in 1..Len(s) : front[i] = t[i]
    BY <1>2, Piece
  <2> HIDE DEF front
  <2>2. (\A i \in 1..Len(s) : s[i] = t[i]) => s = front
    BY <2>1, SeqEqual
  <2> QED
    BY <1>1, <2>1, <2>2 DEF front
<1> QED
  BY <1>2 DEF IsPrefix

\* A piece of a concatenation that lies in its first part.
LEMMA PieceOfFirst ==
    ASSUME NEW S, NEW s \in Seq(S), NEW t \in Seq(S),
           NEW m \in 1..Len(s) + 1, NEW n \in m - 1..Len(s)
    PROVE  SubSeq(s \o t, m, n) = SubSeq(s, m, n)
<1> DEFINE whole == SubSeq(s \o t, m, n)
           part == SubSeq(s, m, n)
<1>1. /\ Len(s) \in Nat /\ Len(t) \in Nat
      /\ s \o t \in Seq(S) /\ Len(s \o t) = Len(s) + Len(t)
      /\ \A i \in 1..Len(s) : (s \o t)[i] = s[i]
  BY ConcatProperties, LenProperties
<1>2. m \in 1..Len(s \o t) + 1 /\ n \in m - 1..Len(s \o t)
  BY <1>1
<1>3. /\ whole \in Seq(S) /\ Len(whole) = n - m + 1
      /\ \A i \in 1..n - m + 1 : whole[i] = (s \o t)[m + i - 1]
  BY <1>1, <1>2, Piece
<1>4. /\ part \in Seq(S) /\ Len(part) = n - m + 1
      /\ \A i \in 1..n - m + 1 : part[i] = s[m + i - 1]
  BY Piece
<1> HIDE DEF whole, part
<1>5. \A i \in 1..n - m + 1 : m + i - 1 \in 1..Len(s)
  BY <1>1
<1>6. \A i \in 1..Len(whole) : whole[i] = part[i]
  BY <1>1, <1>3, <1>4, <1>5
<1> QED
  BY <1>3, <1>4, <1>6, SeqEqual DEF whole, part

Units == Int

Io == [err : Int, buf : Seq(Units), held : Seq(Units), ended : BOOLEAN,
       pos : Nat, latency : Nat]
Call == [op : {"none", "write", "finish", "read"}, src : Seq(Units), want : Nat]
Seen == [taken : Seq(Units), given : Seq(Units), short : BOOLEAN, result : Int,
         faults : Int, late : BOOLEAN, lied : BOOLEAN]

TypeOK ==
    /\ kind \in Kinds /\ mode \in {"w", "closed", "r", "over"}
    /\ io \in Io /\ file \in Seq(Units) /\ call \in Call /\ seen \in Seen

Direct == {"fd", "file", "mem"}
Writing == mode \in {"w", "closed"}
Plain(f) == \A i \in 1..Len(f) : f[i] \notin {END, BAD}

\* A call runs only in a mode that admits it and with no error before it, and
\* neither the buffer nor the compressor holds more than it can.
CallsFit ==
    /\ call.op \in {"write", "finish"} => mode = "w"
    /\ call.op = "read" => mode = "r"
    /\ call.op # "none" => kind \in Packers /\ io.err = 0
    /\ Len(io.buf) <= BufSiz
    /\ kind \in Packers /\ mode = "w" => Len(io.held) <= io.latency
    /\ kind \in Packers /\ mode = "r" => io.pos <= Len(file)
    /\ kind = "lz4" /\ mode = "r" => io.pos <= BufSiz

\* Without a compressor, what was taken is on the device.
DirectWrites ==
    kind \in Direct => Plain(file) /\ (Writing => file = seen.taken)

\* With one, it is on the device, in the buffer or in the compressor, in this
\* order; xz can lose some when errno reads as success.
PackedWrites ==
    kind \in Packers /\ mode = "w" /\ io.err = 0 /\ ~(kind = "xz" /\ seen.lied) =>
        /\ ~io.ended
        /\ file \o (io.buf \o io.held) = seen.taken

ClosedIsWritten == mode = "closed" => CloseMeansWritten

NothingRead == Writing => seen.given = <<>>

\* What was read is the beginning of the file, and stops before its end.
ReadSoFar ==
    kind # "lz4" /\ ~Writing =>
        /\ Len(seen.given) <= Len(file)
        /\ \A i \in 1..Len(seen.given) :
              seen.given[i] = file[i] /\ file[i] \notin {END, BAD}

\* Without a compressor, the position counts what was read, and a read that
\* was short came to the end.
DirectReads ==
    kind \in Direct /\ ~Writing =>
        /\ io.pos = Len(seen.given)
        /\ kind # "fd" /\ mode = "r" /\ seen.short /\ io.err = 0 =>
              io.pos = Len(file)

\* With one, what was read is followed by the buffer until the end was found,
\* and by the end from then on.
PackedReads ==
    kind \in Packers /\ mode = "r" /\ io.err = 0 =>
        IF io.ended
        THEN Len(seen.given) < Len(file) /\ file[Len(seen.given) + 1] = END
        ELSE /\ io.pos = Len(seen.given) + Len(io.buf)
             /\ \A i \in 1..Len(io.buf) : io.buf[i] = file[Len(seen.given) + i]
             /\ seen.short => Len(seen.given) = Len(file)

IInv ==
    /\ TypeOK /\ CallsFit
    /\ DirectWrites /\ PackedWrites /\ ClosedIsWritten
    /\ NothingRead /\ ReadSoFar /\ DirectReads /\ PackedReads

-----------------------------------------------------------------------------
(* The operators of the model *)

\* The content of a stream: the units before the first that ends it.
LEMMA ContentIs ==
    ASSUME NEW f \in Seq(Units)
    PROVE  /\ Content(f) \in Seq(Units) /\ Len(Content(f)) <= Len(f)
           /\ \A i \in 1..Len(Content(f)) :
                 Content(f)[i] = f[i] /\ f[i] \notin {END, BAD}
           /\ Len(Content(f)) < Len(f) => f[Len(Content(f)) + 1] \in {END, BAD}
<1> DEFINE Stops == {i \in DOMAIN f : f[i] \in {END, BAD}} \cup {Len(f) + 1}
           m == Min(Stops)
<1>1. DOMAIN f = 1..Len(f) /\ Len(f) \in Nat
  BY LenProperties
<1>2. Stops \in SUBSET Nat /\ Stops # {}
  BY <1>1
<1>3. m \in Stops /\ \A x \in Stops : m <= x
  BY <1>2, MinIsLeast
<1>4. /\ m \in 1..Len(f) + 1
      /\ \A i \in 1..m - 1 : f[i] \notin {END, BAD}
      /\ m <= Len(f) => f[m] \in {END, BAD}
  <2> HIDE DEF m
  <2> QED
    BY <1>1, <1>3
<1>5. Content(f) = SubSeq(f, 1, m - 1)
  BY DEF Content
<1> HIDE DEF m
<1>6. 1 \in 1..Len(f) + 1 /\ m - 1 \in 1 - 1..Len(f)
  BY <1>1, <1>4
<1>7. /\ Content(f) \in Seq(Units) /\ Len(Content(f)) = m - 1
      /\ \A i \in 1..m - 1 : Content(f)[i] = f[i]
  BY <1>1, <1>4, <1>5, <1>6, Piece
<1> QED
  BY <1>1, <1>4, <1>7

\* A sequence is the beginning of the content of a stream if it is the
\* beginning of the stream and no unit in it ends the stream.
LEMMA BeginsContent ==
    ASSUME NEW f \in Seq(Units), NEW g \in Seq(Units), Len(g) <= Len(f),
           \A i \in 1..Len(g) : g[i] = f[i] /\ f[i] \notin {END, BAD}
    PROVE  IsPrefix(g, Content(f))
<1>1. /\ Content(f) \in Seq(Units) /\ Len(Content(f)) <= Len(f)
      /\ \A i \in 1..Len(Content(f)) : Content(f)[i] = f[i]
      /\ Len(Content(f)) < Len(f) => f[Len(Content(f)) + 1] \in {END, BAD}
  BY ContentIs
<1>2. Len(g) \in Nat /\ Len(f) \in Nat /\ Len(Content(f)) \in Nat
  BY <1>1, LenProperties
<1>3. Len(g) <= Len(Content(f))
  BY <1>1, <1>2
<1>4. \A i \in 1..Len(g) : g[i] = Content(f)[i]
  BY <1>1, <1>2, <1>3
<1> QED
  BY <1>1, <1>3, <1>4, PrefixByElements

\* And it is all of it if the stream ends there.
LEMMA IsContent ==
    ASSUME NEW f \in Seq(Units), NEW g \in Seq(Units), Len(g) <= Len(f),
           \A i \in 1..Len(g) : g[i] = f[i] /\ f[i] \notin {END, BAD},
           Len(g) < Len(f) => f[Len(g) + 1] \in {END, BAD}
    PROVE  g = Content(f)
<1>1. /\ Content(f) \in Seq(Units) /\ Len(Content(f)) <= Len(f)
      /\ \A i \in 1..Len(Content(f)) :
            Content(f)[i] = f[i] /\ f[i] \notin {END, BAD}
      /\ Len(Content(f)) < Len(f) => f[Len(Content(f)) + 1] \in {END, BAD}
  BY ContentIs
<1>2. Len(g) \in Nat /\ Len(f) \in Nat /\ Len(Content(f)) \in Nat
  BY <1>1, LenProperties
<1>3. Len(g) = Len(Content(f))
  BY <1>1, <1>2
<1> QED
  BY <1>1, <1>2, <1>3, SeqEqual

\* What a call of the device that fails took, and the code it leaves.
LEMMA FailureIs ==
    ASSUME NEW units \in Seq(Units), NEW out \in Failures(units)
    PROVE  /\ out.n \in Nat /\ out.n < Len(units) /\ out.code \in Int
           /\ kind = "z" => out.code = -1
           /\ kind = "bz2" => out.code = -6
           /\ kind = "xz" => out.code \in {0, 1, 5}
<1>1. Len(units) \in Nat /\ (units # <<>> => Len(units) > 0)
  BY EmptySeq
<1>2. \A c \in Codes(FALSE) \cup Codes(TRUE) :
         /\ c \in Int
         /\ kind = "z" => c = -1
         /\ kind = "bz2" => c = -6
         /\ kind = "xz" => c \in {0, 1, 5}
  BY DEF Codes
<1>3. out \in [n : 0..Len(units) - 1, code : Codes(FALSE) \cup Codes(TRUE)]
  BY DEF Failures
<1>4. out.n \in 0..Len(units) - 1 /\ out.code \in Codes(FALSE) \cup Codes(TRUE)
  BY <1>3
<1>5. out.n \in Nat /\ out.n < Len(units)
  BY <1>1, <1>4
<1> QED
  BY <1>2, <1>4, <1>5

\* A write of the device makes the file longer by what it took.
LEMMA LandsIs ==
    ASSUME file \in Seq(Units), NEW units \in Seq(Units), NEW out,
           out.n \in 0..Len(units), Lands(units, out)
    PROVE  /\ file' \in Seq(Units)
           /\ out.n = Len(units) => file' = file \o units
<1>1. SubSeq(units, 1, out.n) \in Seq(Units)
  BY Piece, LenProperties
<1>2. SubSeq(units, 1, Len(units)) = units
  BY SubSeqFull
<1> QED
  BY <1>1, <1>2, ConcatProperties DEF Lands

\* A close returns the result of finishing, or an error of its own.
LEMMA ClosesIs ==
    ASSUME NEW res \in Int, NEW now \in Seen, seen \in Seen, Closes(res, now)
    PROVE  /\ seen' \in Seen /\ call' = Idle /\ kind' = kind
           /\ mode' = IF mode = "w" THEN "closed" ELSE "over"
           /\ seen'.taken = now.taken /\ seen'.given = now.given
           /\ seen'.short = now.short /\ seen'.late = now.late
           /\ seen'.lied = now.lied
           /\ seen'.result = 0 => res = 0
<1>1. \A c \in IF kind = "lz4" THEN {-6} ELSE Codes(FALSE) : c \in Int /\ c # 0
  BY DEF Codes
<1>2. \E c \in Int, f \in Int :
         seen' = [now EXCEPT !.result = c, !.faults = f] /\ (c = 0 => res = 0)
  <2>1. CASE seen' = [now EXCEPT !.result = res]
    <3>1. now.faults \in Int /\ seen' = [now EXCEPT !.result = res, !.faults = now.faults]
      BY <2>1 DEF Seen
    <3> QED
      BY <3>1
  <2>2. ASSUME NEW c \in IF kind = "lz4" THEN {-6} ELSE Codes(FALSE),
               seen' = [now EXCEPT !.result = c, !.faults = seen.faults + 1]
        PROVE  \E d \in Int, f \in Int :
                 seen' = [now EXCEPT !.result = d, !.faults = f] /\ (d = 0 => res = 0)
    <3>1. c \in Int /\ c # 0
      BY <1>1, <2>2
    <3>2. seen.faults + 1 \in Int
      BY DEF Seen
    <3> QED
      BY <2>2, <3>1, <3>2
  <2> QED
    BY <2>1, <2>2 DEF Closes
<1>3. /\ call' = Idle /\ kind' = kind
      /\ mode' = IF mode = "w" THEN "closed" ELSE "over"
  BY DEF Closes
<1> QED
  BY <1>2, <1>3 DEF Seen

LEMMA IdleIs ==
    Idle \in Call /\ Idle.op = "none"
<1> QED
  BY EmptySeq DEF Idle, Call

\* The items of a batch go on where those that were taken end.
LEMMA BatchIs ==
    ASSUME seen.taken \in Seq(Units), NEW n \in Int
    PROVE  /\ Batch(n) \in Seq(Units) /\ Plain(Batch(n))
           /\ n \in Nat => Len(Batch(n)) = n
           /\ \A i \in 1..n : Batch(n)[i] = Len(seen.taken) + i
<1> DEFINE m == IF n \in Nat THEN n ELSE 0
<1>1. Len(seen.taken) \in Nat /\ m \in Nat /\ 1..n = 1..m
  BY LenProperties
<1> HIDE DEF m
<1>2. Batch(n) \in [1..m -> Units]
  BY <1>1 DEF Batch, Units
<1>3. Batch(n) \in Seq(Units)
  BY <1>1, <1>2, SeqDef
<1>4. Len(Batch(n)) = m
  BY <1>1, <1>2, <1>3, LenProperties
<1>5. \A i \in 1..m : Batch(n)[i] = Len(seen.taken) + i
  BY <1>1 DEF Batch
<1>6. Plain(Batch(n))
  BY <1>1, <1>4, <1>5 DEF Plain, END, BAD
<1>7. n \in Nat => m = n
  BY DEF m
<1> QED
  BY <1>1, <1>3, <1>4, <1>5, <1>6, <1>7

\* The beginning of a batch is the batch of so many items.
LEMMA BatchFront ==
    ASSUME seen.taken \in Seq(Units), NEW n \in Nat, NEW k \in 0..n
    PROVE  SubSeq(Batch(n), 1, k) = Batch(k)
<1> DEFINE front == SubSeq(Batch(n), 1, k)
<1>1. /\ Batch(n) \in Seq(Units) /\ Len(Batch(n)) = n
      /\ \A i \in 1..n : Batch(n)[i] = Len(seen.taken) + i
      /\ Batch(k) \in Seq(Units) /\ Len(Batch(k)) = k
      /\ \A i \in 1..k : Batch(k)[i] = Len(seen.taken) + i
  BY BatchIs
<1>2. /\ front \in Seq(Units) /\ Len(front) = k
      /\ \A i \in 1..k : front[i] = Batch(n)[i]
  BY <1>1, Piece
<1> HIDE DEF front
<1>3. \A i \in 1..Len(front) : front[i] = Batch(k)[i]
  BY <1>1, <1>2
<1> QED
  BY <1>1, <1>2, <1>3, SeqEqual DEF front

LEMMA PlainConcat ==
    ASSUME NEW f \in Seq(Units), NEW g \in Seq(Units), Plain(f), Plain(g)
    PROVE  Plain(f \o g)
<1>1. Len(f) \in Nat /\ Len(g) \in Nat
  BY LenProperties
<1> QED
  BY <1>1, ConcatProperties DEF Plain

LEMMA ThreeParts ==
    \A s, t, u \in Seq(Units) : (s \o t) \o u = s \o (t \o u)
<1> QED
  BY ConcatAssociative

\* What waits and what follows it, cut in two at any place and put behind what
\* is in the buffer.
Regroups(buf, held, src, n, k) ==
    (buf \o SubSeq(held \o src, 1, n)) \o SubSeq(held \o src, n + 1, k) =
        (buf \o held) \o SubSeq(src, 1, k - Len(held))

LEMMA Regrouped ==
    ASSUME NEW buf \in Seq(Units), NEW held \in Seq(Units), NEW src \in Seq(Units),
           NEW k \in Int, NEW n \in Int,
           Len(held) <= k, k <= Len(held) + Len(src), 0 <= n, n <= k
    PROVE  Regroups(buf, held, src, n, k)
<1> DEFINE all == held \o src
           front == SubSeq(all, 1, n)
           back == SubSeq(all, n + 1, k)
           taken == SubSeq(src, 1, k - Len(held))
<1>1. /\ all \in Seq(Units) /\ Len(all) = Len(held) + Len(src)
      /\ Len(held) \in Nat /\ Len(src) \in Nat
  BY ConcatProperties, LenProperties
<1>2. SubSeq(all, 1, k) = held \o taken
  BY <1>1, FrontOfConcat
<1>3. taken \in Seq(Units)
  <2>1. k - Len(held) \in 0..Len(src)
    BY <1>1
  <2> QED
    BY <1>1, <2>1, Piece
<1> HIDE DEF all, taken
<1>4. front \in Seq(Units) /\ back \in Seq(Units)
  BY <1>1, Piece
<1>5. /\ 1 \in 1..Len(all) + 1 /\ n \in 1 - 1..Len(all) /\ k \in n..Len(all)
  BY <1>1
<1>6. front \o back = SubSeq(all, 1, k)
  BY <1>1, <1>5, ConcatAdjacentSubSeq
<1> HIDE DEF front, back
<1>7. (buf \o front) \o back = buf \o (front \o back)
  BY <1>4, ThreeParts, ZenonT(40)
<1>8. (buf \o held) \o taken = buf \o (held \o taken)
  BY <1>3, ThreeParts
<1> QED
  BY <1>2, <1>6, <1>7, <1>8 DEF Regroups, all, front, back, taken

\* What a step of the compressor makes of what waits and what it is given: a
\* part goes to the buffer, a part waits, and the rest is left.
LEMMA CompressedIs ==
    ASSUME TypeOK, Len(io.buf) <= BufSiz, Len(io.held) <= io.latency
    PROVE  /\ Compressed(call.src) \in [buf : Seq(Units), held : Seq(Units), left : Seq(Units)]
           /\ Len(Compressed(call.src).buf) <= BufSiz
           /\ Len(Compressed(call.src).held) <= io.latency
           /\ Len(Compressed(call.src).left) <= Len(call.src)
           /\ Compressed(call.src).buf \o Compressed(call.src).held =
                 (io.buf \o io.held) \o
                 SubSeq(call.src, 1, Len(call.src) - Len(Compressed(call.src).left))
<1> DEFINE src == call.src
           all == io.held \o src
           n == Min({Room, Max({0, Len(all) - io.latency})})
           kept == Min({Len(all) - n, io.latency})
           front == SubSeq(all, 1, n)
           waits == SubSeq(all, n + 1, n + kept)
           left == SubSeq(all, n + kept + 1, Len(all))
           taken == SubSeq(src, 1, (n + kept) - Len(io.held))
<1>1. /\ io.buf \in Seq(Units) /\ io.held \in Seq(Units) /\ src \in Seq(Units)
      /\ io.latency \in Nat /\ BufSiz \in Nat
  BY StreamAssumption DEF TypeOK, Io, Call
<1>2. /\ Len(io.buf) \in Nat /\ Len(io.held) \in Nat /\ Len(src) \in Nat
      /\ all \in Seq(Units) /\ Len(all) = Len(io.held) + Len(src)
  BY <1>1, LenProperties, ConcatProperties
<1>3. Compressed(src) = [buf |-> io.buf \o front, held |-> waits, left |-> left]
  BY Zenon DEF Compressed
<1> HIDE DEF src, all, n, kept, front, waits, left, taken
<1>4. /\ n \in Int /\ 0 <= n /\ n <= BufSiz - Len(io.buf) /\ n <= Len(all)
      /\ n = BufSiz - Len(io.buf) \/ n >= Len(all) - io.latency
  <2> DEFINE spare == Len(all) - io.latency
             more == Max({0, spare})
  <2>1. spare \in Int
    BY <1>1, <1>2
  <2>2. spare <= Len(all)
    BY <1>1, <1>2
  <2> HIDE DEF spare
  <2>3. more = IF 0 <= spare THEN spare ELSE 0
    BY <2>1, PairMax
  <2>4. more \in Int /\ 0 <= more /\ spare <= more /\ more <= Len(all)
    BY <1>2, <2>1, <2>2, <2>3
  <2> HIDE DEF more
  <2>5. Room \in Int /\ Room = BufSiz - Len(io.buf) /\ 0 <= Room
    BY <1>1, <1>2 DEF Room
  <2>6. n = IF Room <= more THEN Room ELSE more
    BY <2>4, <2>5, PairMin DEF n, more, spare
  <2> QED
    BY <2>4, <2>5, <2>6 DEF spare
<1>5. /\ kept \in Int /\ 0 <= kept /\ kept <= io.latency /\ n + kept <= Len(all)
      /\ n + kept = Len(all) \/ kept = io.latency
  <2>1. Len(all) - n \in Int /\ io.latency \in Int
    BY <1>1, <1>2, <1>4
  <2>2. kept = IF Len(all) - n <= io.latency THEN Len(all) - n ELSE io.latency
    BY <2>1, PairMin DEF kept
  <2> QED
    BY <1>1, <1>2, <1>4, <2>1, <2>2
<1>6. front \in Seq(Units) /\ Len(front) = n
  BY <1>2, <1>4, Piece DEF front
<1>7. waits \in Seq(Units) /\ Len(waits) = kept
  BY <1>2, <1>4, <1>5, Piece DEF waits
<1>8. left \in Seq(Units) /\ Len(left) = Len(all) - (n + kept)
  BY <1>2, <1>4, <1>5, Piece DEF left
<1>9. n + kept \in Len(io.held)..Len(io.held) + Len(src)
  BY <1>1, <1>2, <1>4, <1>5
<1>10. (n + kept) - Len(io.held) = Len(src) - Len(left)
  BY <1>2, <1>4, <1>5, <1>8
<1>11. (io.buf \o front) \o waits = (io.buf \o io.held) \o taken
  <2>1. /\ io.buf \in Seq(Units) /\ io.held \in Seq(Units) /\ src \in Seq(Units)
        /\ n + kept \in Int /\ n \in Int /\ 0 <= n /\ n <= n + kept
        /\ Len(io.held) <= n + kept /\ n + kept <= Len(io.held) + Len(src)
    BY <1>1, <1>4, <1>5, <1>9
  <2>2. Regroups(io.buf, io.held, src, n, n + kept)
    BY <2>1, Regrouped
  <2> QED
    BY <2>2, Zenon DEF Regroups, front, waits, all, taken
<1>12. io.buf \o front \in Seq(Units) /\ Len(io.buf \o front) <= BufSiz
  BY <1>1, <1>2, <1>4, <1>6, ConcatProperties
<1>13. Len(left) <= Len(src)
  BY <1>2, <1>4, <1>5, <1>8, <1>9
<1>14. /\ Compressed(src).buf = io.buf \o front /\ Compressed(src).held = waits
       /\ Compressed(src).left = left
  BY <1>3
<1>15. Compressed(src) \in [buf : Seq(Units), held : Seq(Units), left : Seq(Units)]
  BY <1>3, <1>7, <1>8, <1>12
<1>16. SubSeq(src, 1, Len(src) - Len(Compressed(src).left)) = taken
  BY <1>10, <1>14 DEF taken
<1> QED
  BY <1>5, <1>7, <1>11, <1>12, <1>13, <1>14, <1>15, <1>16 DEF src

\* What the call that is to finish makes of what waits: either the end came out
\* behind all of it, or what was in the buffer and what waits are the same units.
LEMMA FinishedIs ==
    ASSUME TypeOK, Len(io.buf) <= BufSiz
    PROVE  /\ Finished \in Io /\ Finished.err = io.err
           /\ Finished.latency = io.latency
           /\ Len(Finished.buf) <= BufSiz
           /\ Len(Finished.held) <= Len(io.held)
           /\ Finished.ended /\ ~io.ended => Finished.buf = (io.buf \o io.held) \o <<END>>
           /\ ~Finished.ended => Finished.buf \o Finished.held = io.buf \o io.held
<1> DEFINE tail == IF io.ended THEN <<>> ELSE <<END>>
           all == io.held \o tail
           n == Min({Room, Len(all)})
           front == SubSeq(all, 1, n)
           waits == SubSeq(io.held, n + 1, Len(io.held))
<1>1. /\ io \in Io /\ io.buf \in Seq(Units) /\ io.held \in Seq(Units) /\ BufSiz \in Nat
      /\ tail \in Seq(Units) /\ Len(tail) \in Nat /\ Len(tail) <= 1
  BY StreamAssumption, EmptySeq DEF TypeOK, Io, Units, END
<1>2. /\ Len(io.buf) \in Nat /\ Len(io.held) \in Nat
      /\ all \in Seq(Units) /\ Len(all) = Len(io.held) + Len(tail)
  BY <1>1, LenProperties, ConcatProperties
<1>3. Finished = [io EXCEPT !.buf = @ \o front, !.held = waits, !.ended = n = Len(all)]
  BY Zenon DEF Finished
<1> HIDE DEF tail, all, n, front, waits
<1>4. n \in Int /\ 0 <= n /\ n <= BufSiz - Len(io.buf) /\ n <= Len(all)
  <2>1. Room \in Int /\ Room = BufSiz - Len(io.buf) /\ 0 <= Room
    BY <1>1, <1>2 DEF Room
  <2>2. n = IF Room <= Len(all) THEN Room ELSE Len(all)
    BY <1>2, <2>1, PairMin DEF n
  <2> QED
    BY <1>2, <2>1, <2>2
<1>5. front \in Seq(Units) /\ Len(front) = n
  BY <1>2, <1>4, Piece DEF front
<1>6. waits \in Seq(Units) /\ Len(waits) <= Len(io.held)
  <2>1. CASE n = Len(all)
    <3>1. waits = <<>>
      BY <1>2, <2>1, SubSeqEmpty DEF waits
    <3> QED
      BY <1>2, <3>1, EmptySeq
  <2>2. CASE n # Len(all)
    BY <1>1, <1>2, <1>4, <2>2, Piece DEF waits
  <2> QED
    BY <2>1, <2>2
<1>7. io.buf \o front \in Seq(Units) /\ Len(io.buf \o front) = Len(io.buf) + n
  BY <1>1, <1>5, ConcatProperties
<1>8. ASSUME n = Len(all)
      PROVE  io.buf \o front = (io.buf \o io.held) \o tail
  <2>1. front = all
    BY <1>2, <1>8, SubSeqFull DEF front
  <2> QED
    BY <1>1, <2>1, ThreeParts DEF all
<1>9. ASSUME n # Len(all)
      PROVE  (io.buf \o front) \o waits = io.buf \o io.held
  <2>1. n <= Len(io.held) /\ n + 1 \in 1..Len(io.held) + 1 /\ Len(io.held) \in n..Len(io.held)
    <3>1. Len(all) <= Len(io.held) + 1
      BY <1>1, <1>2
    <3>2. n < Len(all)
      BY <1>2, <1>4, <1>9
    <3> QED
      BY <1>2, <1>4, <3>1, <3>2
  <2>2. Regroups(io.buf, io.held, tail, n, Len(io.held))
    <3>1. Len(io.held) \in Int /\ Len(io.held) <= Len(io.held) + Len(tail)
      BY <1>1, <1>2
    <3>2. /\ io.buf \in Seq(Units) /\ io.held \in Seq(Units) /\ tail \in Seq(Units)
          /\ n \in Int /\ 0 <= n /\ n <= Len(io.held) /\ Len(io.held) <= Len(io.held)
      BY <1>1, <1>2, <1>4, <2>1
    <3> QED
      BY <3>1, <3>2, Regrouped
  <2>3. SubSeq(all, n + 1, Len(io.held)) = waits
    <3>1. Len(io.held) \in (n + 1) - 1..Len(io.held)
      BY <1>2, <1>4, <2>1
    <3> QED
      BY <1>1, <2>1, <3>1, PieceOfFirst DEF all, waits
  <2>4. SubSeq(tail, 1, Len(io.held) - Len(io.held)) = <<>>
    BY <1>2, SubSeqEmpty
  <2>5. (io.buf \o front) \o SubSeq(all, n + 1, Len(io.held)) =
           (io.buf \o io.held) \o SubSeq(tail, 1, Len(io.held) - Len(io.held))
    BY <2>2 DEF Regroups, front, all
  <2>6. (io.buf \o front) \o waits = (io.buf \o io.held) \o <<>>
    BY <2>3, <2>4, <2>5
  <2>7. io.buf \o io.held \in Seq(Units)
    BY <1>1, ConcatProperties
  <2> QED
    BY <2>6, <2>7, ConcatEmptySeq
<1>10. /\ Finished.buf = io.buf \o front /\ Finished.held = waits
       /\ Finished.ended <=> n = Len(all)
  BY <1>1, <1>3 DEF Io
<1>11. Finished \in Io /\ Finished.err = io.err /\ Finished.latency = io.latency
  BY <1>1, <1>3, <1>6, <1>7 DEF Io
<1>12. Len(Finished.buf) <= BufSiz
  BY <1>1, <1>2, <1>4, <1>7, <1>10
<1>13. ~io.ended => tail = <<END>>
  BY DEF tail
<1> QED
  BY <1>6, <1>8, <1>9, <1>10, <1>11, <1>12, <1>13

LEMMA FaultIs ==
    ASSUME seen \in Seen, NEW code \in Int
    PROVE  /\ Fault(code) \in Seen
           /\ Fault(code).taken = seen.taken /\ Fault(code).given = seen.given
           /\ Fault(code).short = seen.short
           /\ mode = "w" /\ call.op = "finish" => Fault(code).late
           /\ code \in {0, 1} /\ kind = "xz" => Fault(code).lied
<1> DEFINE late == mode = "w" /\ call.op = "finish"
           lied == seen.lied \/ (code \in {0, 1} /\ kind \in {"xz", "lz4"})
<1>1. late \in BOOLEAN /\ lied \in BOOLEAN
  BY DEF Seen
<1>2. Fault(code) = [seen EXCEPT !.faults = @ + 1, !.late = late, !.lied = lied]
  BY Zenon DEF Fault
<1> HIDE DEF late, lied
<1> DEFINE one == [seen EXCEPT !.faults = @ + 1]
           two == [one EXCEPT !.late = late]
<1>3. /\ one \in Seen /\ one.taken = seen.taken /\ one.given = seen.given
      /\ one.short = seen.short /\ one.lied = seen.lied
  BY DEF Seen
<1> HIDE DEF one
<1>4. /\ two \in Seen /\ two.taken = one.taken /\ two.given = one.given
      /\ two.short = one.short /\ two.late = late
  BY <1>1, <1>3 DEF Seen
<1>5. Fault(code) = [two EXCEPT !.lied = lied]
  BY <1>2 DEF one, two
<1> HIDE DEF two
<1>6. /\ Fault(code) \in Seen /\ Fault(code).taken = two.taken
      /\ Fault(code).given = two.given /\ Fault(code).short = two.short
      /\ Fault(code).late = two.late /\ Fault(code).lied = lied
  BY <1>1, <1>4, <1>5 DEF Seen
<1>7. code \in {0, 1} /\ kind = "xz" => lied = TRUE
  BY DEF lied
<1>8. mode = "w" /\ call.op = "finish" => late = TRUE
  BY DEF late
<1> QED
  BY <1>3, <1>4, <1>6, <1>7, <1>8

LEMMA WriteReturnsIs ==
    ASSUME call \in Call, NEW now \in Seen, NEW left \in Seq(Units),
           Len(left) <= Len(call.src), WriteReturns(left, now)
    PROVE  /\ call' = Idle /\ seen' \in Seen
           /\ seen'.taken = now.taken \o SubSeq(call.src, 1, Len(call.src) - Len(left))
           /\ seen'.given = now.given /\ seen'.late = now.late /\ seen'.lied = now.lied
<1>1. now.taken \in Seq(Units) /\ call.src \in Seq(Units)
  BY DEF Seen, Call
<1>2. Len(call.src) - Len(left) \in 0..Len(call.src)
  BY <1>1, LenProperties
<1>3. SubSeq(call.src, 1, Len(call.src) - Len(left)) \in Seq(Units)
  BY <1>1, <1>2, Piece
<1>4. now.taken \o SubSeq(call.src, 1, Len(call.src) - Len(left)) \in Seq(Units)
  BY <1>1, <1>3, ConcatProperties
<1> QED
  BY <1>4 DEF WriteReturns, Seen

\* What remains to be shown of a step that stays in its mode.
LEMMA WritingOn ==
    ASSUME mode = "w", mode' = "w", NothingRead, seen'.given = seen.given
    PROVE  ClosedIsWritten' /\ NothingRead' /\ ReadSoFar' /\ DirectReads' /\ PackedReads'
<1> QED
  BY DEF ClosedIsWritten, NothingRead, ReadSoFar, DirectReads, PackedReads, Writing

LEMMA ReadingOn ==
    ASSUME mode = "r", mode' \in {"r", "over"}, kind' = kind, file' = file, DirectWrites
    PROVE  DirectWrites' /\ PackedWrites' /\ ClosedIsWritten' /\ NothingRead'
<1> QED
  BY DEF DirectWrites, PackedWrites, ClosedIsWritten, NothingRead, Writing, Plain

-----------------------------------------------------------------------------
(* Writing *)

LEMMA WriteKeeps ==
    ASSUME IInv, NEW n \in Int, Write(n)
    PROVE  IInv'
<1>1. /\ TypeOK /\ CallsFit /\ DirectWrites /\ PackedWrites /\ NothingRead
      /\ mode = "w" /\ mode' = "w" /\ kind' = kind /\ io' = io /\ file' = file
      /\ kind \in Packers /\ call.op = "none"
  BY DEF IInv, Write
<1>2. CASE io.err # 0
  <2>1. call' = call /\ seen' = [seen EXCEPT !.short = TRUE]
    BY <1>2 DEF Write, Short
  <2>2. seen' \in Seen /\ seen'.taken = seen.taken /\ seen'.given = seen.given
    BY <1>1, <2>1 DEF TypeOK, Seen
  <2>3. TypeOK' /\ CallsFit'
    BY <1>1, <2>1, <2>2 DEF TypeOK, CallsFit
  <2>4. DirectWrites' /\ PackedWrites'
    BY <1>1, <1>2 DEF DirectWrites, PackedWrites, Direct, Packers
  <2> QED
    BY <1>1, <2>2, <2>3, <2>4, WritingOn DEF IInv
<1>3. CASE io.err = 0
  <2>1. seen' = seen /\ call' = [op |-> "write", src |-> Batch(n), want |-> 0]
    BY <1>3 DEF Write
  <2>2. n \in Nat
    BY DEF Write
  <2>3. Batch(n) \in Seq(Units)
    BY <1>1, <2>2, BatchIs DEF TypeOK, Seen
  <2>4. call' \in Call /\ call'.op = "write"
    BY <2>1, <2>3 DEF Call
  <2>5. TypeOK' /\ CallsFit'
    BY <1>1, <1>3, <2>1, <2>4 DEF TypeOK, CallsFit
  <2>6. DirectWrites' /\ PackedWrites'
    BY <1>1, <2>1 DEF DirectWrites, PackedWrites, Direct, Packers
  <2> QED
    BY <1>1, <2>1, <2>5, <2>6, WritingOn DEF IInv
<1> QED
  BY <1>2, <1>3

LEMMA WriteFlushKeeps ==
    ASSUME IInv, WriteFlush
    PROVE  IInv'
<1>1. /\ TypeOK /\ CallsFit /\ DirectWrites /\ PackedWrites /\ NothingRead
      /\ call.op = "write" /\ mode' = mode /\ kind' = kind
  BY DEF IInv, WriteFlush
<1>2. mode = "w" /\ kind \in Packers /\ io.err = 0
  BY <1>1 DEF CallsFit
<1>3. /\ io \in Io /\ io.buf \in Seq(Units) /\ io.held \in Seq(Units) /\ seen \in Seen
      /\ file \in Seq(Units) /\ call \in Call /\ call.src \in Seq(Units)
      /\ BufSiz \in Nat /\ <<>> \in Seq(Units) /\ Len(<<>>) = 0
  BY <1>1, EmptySeq, StreamAssumption DEF TypeOK, Io, Call
<1>4. CASE /\ io' = [io EXCEPT !.buf = <<>>] /\ Lands(io.buf, Wholly(io.buf))
           /\ UNCHANGED <<call, seen>>
  <2>1. Wholly(io.buf).n = Len(io.buf) /\ Len(io.buf) \in 0..Len(io.buf)
    BY <1>3, LenProperties DEF Wholly
  <2>2. file' \in Seq(Units) /\ file' = file \o io.buf
    BY <1>3, <1>4, <2>1, LandsIs
  <2>3. /\ io' \in Io /\ io'.buf = <<>> /\ io'.held = io.held /\ io'.err = io.err
        /\ io'.ended = io.ended /\ io'.latency = io.latency
    BY <1>3, <1>4 DEF Io
  <2>4. TypeOK' /\ CallsFit'
    BY <1>1, <1>2, <1>3, <1>4, <2>2, <2>3 DEF TypeOK, CallsFit
  <2>5. file' \o (io'.buf \o io'.held) = file \o (io.buf \o io.held)
    <3>1. io'.buf \o io'.held = io.held
      BY <1>3, <2>3, ConcatEmptySeq
    <3>2. (file \o io.buf) \o io.held = file \o (io.buf \o io.held)
      BY <1>3, ThreeParts, ZenonT(40)
    <3> QED
      BY <2>2, <3>1, <3>2
  <2>6. DirectWrites' /\ PackedWrites'
    BY <1>1, <1>2, <1>4, <2>3, <2>5 DEF DirectWrites, PackedWrites, Direct, Packers
  <2> QED
    BY <1>1, <1>2, <1>4, <2>4, <2>6, WritingOn DEF IInv
<1>5. ASSUME NEW out \in Failures(io.buf),
             Lands(io.buf, out), io' = [io EXCEPT !.err = out.code],
             WriteReturns(call.src, Fault(out.code))
      PROVE  IInv'
  <2>1. /\ out.n \in Nat /\ out.n < Len(io.buf) /\ out.code \in Int
        /\ kind = "z" => out.code = -1
        /\ kind = "bz2" => out.code = -6
        /\ kind = "xz" => out.code \in {0, 1, 5}
    BY <1>3, <1>5, FailureIs
  <2>2. out.n \in 0..Len(io.buf)
    BY <1>3, <2>1, LenProperties
  <2>3. file' \in Seq(Units)
    BY <1>3, <1>5, <2>2, LandsIs
  <2>4. /\ io' \in Io /\ io'.buf = io.buf /\ io'.held = io.held /\ io'.err = out.code
        /\ io'.latency = io.latency
    BY <1>3, <1>5, <2>1 DEF Io
  <2>5. /\ Fault(out.code) \in Seen /\ Fault(out.code).given = seen.given
        /\ out.code \in {0, 1} /\ kind = "xz" => Fault(out.code).lied
    BY <1>3, <2>1, FaultIs
  <2>6. /\ call' = Idle /\ seen' \in Seen
        /\ seen'.given = Fault(out.code).given /\ seen'.lied = Fault(out.code).lied
    <3>1. Len(call.src) <= Len(call.src)
      BY <1>3, LenProperties
    <3> QED
      BY <1>3, <1>5, <2>5, <3>1, WriteReturnsIs
  <2>7. TypeOK' /\ CallsFit'
    BY <1>1, <1>2, <2>3, <2>4, <2>6, IdleIs DEF TypeOK, CallsFit
  <2>8. io'.err = 0 => kind' = "xz" /\ seen'.lied
    BY <1>1, <1>2, <2>1, <2>4, <2>5, <2>6 DEF Packers
  <2>9. DirectWrites' /\ PackedWrites'
    BY <1>1, <1>2, <2>8 DEF DirectWrites, PackedWrites, Direct, Packers
  <2> QED
    BY <1>1, <1>2, <2>5, <2>6, <2>7, <2>9, WritingOn DEF IInv
<1> QED
  BY <1>4, <1>5 DEF WriteFlush

LEMMA WriteCompressKeeps ==
    ASSUME IInv, WriteCompress
    PROVE  IInv'
<1> DEFINE c == Compressed(call.src)
           taken == SubSeq(call.src, 1, Len(call.src) - Len(c.left))
<1>1. /\ TypeOK /\ CallsFit /\ DirectWrites /\ PackedWrites /\ NothingRead
      /\ call.op = "write" /\ mode' = mode /\ kind' = kind /\ file' = file
      /\ io' = [io EXCEPT !.buf = c.buf, !.held = c.held]
  BY DEF IInv, WriteCompress
<1>2. mode = "w" /\ kind \in Packers /\ io.err = 0 /\ Len(io.buf) <= BufSiz
  BY <1>1 DEF CallsFit
<1>3. /\ io \in Io /\ io.buf \in Seq(Units) /\ io.held \in Seq(Units) /\ seen \in Seen
      /\ file \in Seq(Units) /\ call \in Call /\ call.src \in Seq(Units)
      /\ seen.taken \in Seq(Units) /\ <<>> \in Seq(Units) /\ Len(<<>>) = 0
  BY <1>1, EmptySeq DEF TypeOK, Io, Call, Seen
<1>4. Len(io.held) <= io.latency
  BY <1>1, <1>2 DEF CallsFit
<1>5. /\ c \in [buf : Seq(Units), held : Seq(Units), left : Seq(Units)]
      /\ Len(c.buf) <= BufSiz /\ Len(c.held) <= io.latency /\ Len(c.left) <= Len(call.src)
      /\ c.buf \o c.held = (io.buf \o io.held) \o taken
  BY <1>1, <1>2, <1>4, CompressedIs
<1>6. \/ c.left = <<>> /\ WriteReturns(<<>>, seen)
      \/ /\ call' = [call EXCEPT !.src = c.left]
         /\ seen' = [seen EXCEPT !.taken = @ \o taken]
  BY DEF WriteCompress
<1> HIDE DEF c
<1>7. taken \in Seq(Units)
  <2>1. Len(call.src) - Len(c.left) \in 0..Len(call.src)
    BY <1>3, <1>5, LenProperties
  <2> QED
    BY <1>3, <2>1, Piece
<1> HIDE DEF taken
<1>8. seen.taken \o taken \in Seq(Units)
  BY <1>3, <1>7, ConcatProperties
<1>9. /\ seen' \in Seen /\ seen'.taken = seen.taken \o taken
      /\ seen'.given = seen.given /\ seen'.lied = seen.lied
      /\ call' \in Call /\ call'.op \in {"none", "write"}
  <2>1. CASE c.left = <<>> /\ WriteReturns(<<>>, seen)
    <3>1. Len(<<>>) <= Len(call.src)
      BY <1>3, LenProperties
    <3>2. /\ call' = Idle /\ seen' \in Seen
          /\ seen'.taken = seen.taken \o SubSeq(call.src, 1, Len(call.src) - Len(<<>>))
          /\ seen'.given = seen.given /\ seen'.lied = seen.lied
      BY <1>3, <2>1, <3>1, WriteReturnsIs
    <3> QED
      BY <2>1, <3>2, IdleIs DEF taken
  <2>2. CASE /\ call' = [call EXCEPT !.src = c.left]
             /\ seen' = [seen EXCEPT !.taken = @ \o taken]
    BY <1>1, <1>3, <1>5, <1>8, <2>2 DEF Call, Seen
  <2> QED
    BY <1>6, <2>1, <2>2
<1>10. /\ io' \in Io /\ io'.buf = c.buf /\ io'.held = c.held /\ io'.err = io.err
       /\ io'.ended = io.ended /\ io'.latency = io.latency
  BY <1>1, <1>3, <1>5 DEF Io
<1>11. TypeOK' /\ CallsFit'
  BY <1>1, <1>2, <1>5, <1>9, <1>10 DEF TypeOK, CallsFit
<1>12. file \o (io.buf \o io.held) = seen.taken => file' \o (io'.buf \o io'.held) = seen'.taken
  <2> DEFINE inside == io.buf \o io.held
  <2>1. inside \in Seq(Units)
    BY <1>3, ConcatProperties
  <2>2. c.buf \o c.held = inside \o taken
    BY <1>5
  <2> HIDE DEF inside
  <2>3. (file \o inside) \o taken = file \o (inside \o taken)
    <3>1. file \in Seq(Units) /\ inside \in Seq(Units) /\ taken \in Seq(Units)
      BY <1>3, <1>7, <2>1
    <3> QED
      BY <3>1, ThreeParts
  <2> QED
    BY <1>1, <1>9, <1>10, <2>2, <2>3 DEF inside
<1>13. DirectWrites' /\ PackedWrites'
  BY <1>1, <1>2, <1>9, <1>10, <1>12 DEF DirectWrites, PackedWrites, Direct, Packers
<1> QED
  BY <1>1, <1>2, <1>9, <1>11, <1>13, WritingOn DEF IInv

LEMMA ShortIs ==
    ASSUME NEW now \in Seen
    PROVE  /\ Short(now) \in Seen /\ Short(now).short
           /\ Short(now).taken = now.taken /\ Short(now).given = now.given
           /\ Short(now).late = now.late /\ Short(now).lied = now.lied
<1> QED
  BY DEF Short, Seen

LEMMA WriteDirectKeeps ==
    ASSUME IInv, NEW n \in Int, WriteDirect(n)
    PROVE  IInv'
<1>1. /\ TypeOK /\ CallsFit /\ DirectWrites /\ PackedWrites /\ NothingRead
      /\ call.op = "none" /\ mode = "w" /\ mode' = "w" /\ kind' = kind /\ call' = call
      /\ kind \in {"fd", "file"} /\ n \in Nat
  BY DEF IInv, WriteDirect
<1>2. /\ io \in Io /\ seen \in Seen /\ file \in Seq(Units) /\ seen.taken \in Seq(Units)
  BY <1>1 DEF TypeOK, Seen
<1>3. Plain(file) /\ file = seen.taken
  BY <1>1 DEF DirectWrites, Direct, Writing
<1>4. PICK out \in {Wholly(Batch(n))} \cup Failures(Batch(n)) :
         /\ Lands(Batch(n), out)
         /\ io' = [io EXCEPT !.err = IF out.n = n THEN @
                                     ELSE IF kind = "fd" /\ out.n > 0 THEN @ ELSE 1]
         /\ seen' = [(IF out.n < n THEN Short(Fault(out.code)) ELSE seen) EXCEPT
                         !.taken = @ \o Batch(out.n)]
  BY DEF WriteDirect
<1> DEFINE now == IF out.n < n THEN Short(Fault(out.code)) ELSE seen
<1>5. Batch(n) \in Seq(Units) /\ Len(Batch(n)) = n
  BY <1>1, <1>2, BatchIs
<1>6. out.n \in 0..n /\ out.code \in Int
  <2>1. CASE out = Wholly(Batch(n))
    BY <1>1, <1>5, <2>1 DEF Wholly
  <2>2. CASE out \in Failures(Batch(n))
    BY <1>1, <1>5, <2>2, FailureIs
  <2> QED
    BY <2>1, <2>2
<1>7. Batch(out.n) \in Seq(Units) /\ Plain(Batch(out.n))
  BY <1>2, <1>6, BatchIs
<1>8. file' = file \o Batch(out.n) /\ file' \in Seq(Units)
  BY <1>1, <1>2, <1>4, <1>6, <1>7, BatchFront, ConcatProperties DEF Lands
<1>9. now \in Seen /\ now.taken = seen.taken /\ now.given = seen.given
  BY <1>2, <1>6, FaultIs, ShortIs
<1>10. seen' = [now EXCEPT !.taken = @ \o Batch(out.n)]
  BY <1>4
<1> HIDE DEF now
<1>11. seen' \in Seen /\ seen'.taken = file' /\ seen'.given = seen.given
  BY <1>3, <1>8, <1>9, <1>10 DEF Seen
<1>12. io' \in Io /\ io'.buf = io.buf
  <2> DEFINE code == IF out.n = n THEN io.err
                     ELSE IF kind = "fd" /\ out.n > 0 THEN io.err ELSE 1
  <2>1. code \in Int /\ io' = [io EXCEPT !.err = code]
    BY <1>2, <1>4 DEF Io
  <2> HIDE DEF code
  <2> QED
    BY <1>2, <2>1 DEF Io
<1>13. Plain(file')
  BY <1>2, <1>3, <1>7, <1>8, PlainConcat
<1>14. TypeOK' /\ CallsFit'
  BY <1>1, <1>8, <1>11, <1>12 DEF TypeOK, CallsFit, Packers
<1>15. DirectWrites' /\ PackedWrites'
  BY <1>1, <1>11, <1>13 DEF DirectWrites, PackedWrites, Packers, Plain
<1> QED
  BY <1>1, <1>11, <1>14, <1>15, WritingOn DEF IInv

\* A call of a memory stream in the wrong direction, or after an error.
LEMMA RefusedKeeps ==
    ASSUME TypeOK, CallsFit, DirectWrites, NothingRead, ReadSoFar, DirectReads,
           call.op = "none", mode \in {"w", "r"}, mode' = mode,
           kind' = kind, call' = call, file' = file, kind = "mem",
           io' = [io EXCEPT !.err = 1], seen' = Short(seen)
    PROVE  IInv'
<1>1. io \in Io /\ seen \in Seen
  BY DEF TypeOK
<1>2. io' \in Io /\ io'.buf = io.buf /\ io'.pos = io.pos /\ io'.err = 1
  BY <1>1 DEF Io
<1>3. seen' \in Seen /\ seen'.taken = seen.taken /\ seen'.given = seen.given
  BY <1>1, ShortIs
<1>4. TypeOK' /\ CallsFit'
  BY <1>2, <1>3 DEF TypeOK, CallsFit, Packers
<1>5. DirectWrites' /\ PackedWrites' /\ ClosedIsWritten' /\ NothingRead'
  BY <1>3 DEF DirectWrites, PackedWrites, ClosedIsWritten, NothingRead, Packers,
              Plain, Writing
<1>6. ReadSoFar' /\ DirectReads' /\ PackedReads'
  BY <1>2, <1>3 DEF ReadSoFar, DirectReads, PackedReads, Packers, Writing
<1> QED
  BY <1>4, <1>5, <1>6 DEF IInv

LEMMA WriteMemoryKeeps ==
    ASSUME IInv, NEW n \in Int, WriteMemory(n)
    PROVE  IInv'
<1>1. /\ TypeOK /\ CallsFit /\ DirectWrites /\ NothingRead /\ ReadSoFar /\ DirectReads
      /\ call.op = "none" /\ mode' = mode /\ kind' = kind /\ call' = call
      /\ kind = "mem" /\ mode \in {"w", "r"} /\ n \in Nat
  BY DEF IInv, WriteMemory
<1>2. /\ io \in Io /\ seen \in Seen /\ file \in Seq(Units) /\ seen.taken \in Seq(Units)
  BY <1>1 DEF TypeOK, Seen
<1>3. CASE mode = "w" /\ io.err = 0
  <2> DEFINE m == Min({n, MemSize - Len(file)})
  <2>1. /\ file' = file \o Batch(m) /\ io' = io
        /\ seen' = [seen EXCEPT !.taken = @ \o Batch(m), !.short = @ \/ m < n]
    BY <1>3 DEF WriteMemory
  <2>2. m \in Int
    <3>1. MemSize - Len(file) \in Int
      BY <1>2, LenProperties, StreamAssumption
    <3> QED
      BY <3>1, PairMin
  <2> HIDE DEF m
  <2>3. Batch(m) \in Seq(Units) /\ Plain(Batch(m))
    BY <1>2, <2>2, BatchIs
  <2>4. Plain(file) /\ file = seen.taken
    BY <1>1, <1>3 DEF DirectWrites, Direct, Writing
  <2>5. file' \in Seq(Units) /\ Plain(file')
    BY <1>2, <2>1, <2>3, <2>4, ConcatProperties, PlainConcat
  <2>6. seen' \in Seen /\ seen'.taken = file' /\ seen'.given = seen.given
    BY <1>2, <2>1, <2>4, <2>5 DEF Seen
  <2>7. TypeOK' /\ CallsFit'
    BY <1>1, <2>1, <2>5, <2>6 DEF TypeOK, CallsFit, Packers
  <2>8. DirectWrites' /\ PackedWrites'
    BY <1>1, <2>5, <2>6 DEF DirectWrites, PackedWrites, Packers, Plain
  <2> QED
    BY <1>1, <1>3, <2>6, <2>7, <2>8, WritingOn DEF IInv
<1>4. CASE ~(mode = "w" /\ io.err = 0)
  <2>1. io' = [io EXCEPT !.err = 1] /\ seen' = Short(seen) /\ file' = file
    BY <1>4 DEF WriteMemory
  <2> QED
    BY <1>1, <2>1, RefusedKeeps
<1> QED
  BY <1>3, <1>4

LEMMA WriteLz4Keeps ==
    ASSUME IInv, NEW n \in Int, WriteLz4(n)
    PROVE  IInv'
<1> DEFINE m == Min({n, BufSiz - Len(io.held)})
           code == IF m < n THEN 1 ELSE io.err
<1>1. /\ TypeOK /\ CallsFit /\ NothingRead
      /\ call.op = "none" /\ mode = "w" /\ mode' = "w" /\ kind' = kind /\ call' = call
      /\ kind = "lz4" /\ file' = file
      /\ io' = [io EXCEPT !.held = @ \o Batch(m), !.err = code]
      /\ seen' = [seen EXCEPT !.taken = @ \o Batch(m), !.short = @ \/ m < n]
  BY DEF IInv, WriteLz4
<1>2. /\ io \in Io /\ seen \in Seen /\ seen.taken \in Seq(Units) /\ io.held \in Seq(Units)
  BY <1>1 DEF TypeOK, Seen, Io
<1>3. m \in Int
  <2>1. BufSiz - Len(io.held) \in Int
    BY <1>2, LenProperties, StreamAssumption
  <2> QED
    BY <2>1, PairMin
<1>4. code \in Int
  BY <1>2 DEF Io
<1> HIDE DEF m, code
<1>5. Batch(m) \in Seq(Units)
  BY <1>2, <1>3, BatchIs
<1>6. io.held \o Batch(m) \in Seq(Units) /\ seen.taken \o Batch(m) \in Seq(Units)
  BY <1>2, <1>5, ConcatProperties
<1>7. io' \in Io /\ io'.buf = io.buf
  BY <1>1, <1>2, <1>4, <1>6 DEF Io
<1>8. seen' \in Seen /\ seen'.given = seen.given
  BY <1>1, <1>2, <1>6 DEF Seen
<1>9. TypeOK' /\ CallsFit'
  BY <1>1, <1>7, <1>8 DEF TypeOK, CallsFit, Packers
<1>10. DirectWrites' /\ PackedWrites'
  BY <1>1 DEF DirectWrites, PackedWrites, Packers, Direct
<1> QED
  BY <1>1, <1>8, <1>9, <1>10, WritingOn DEF IInv

-----------------------------------------------------------------------------
(* Closing *)

\* A step that closes what was written has shown that nothing is lost.
LEMMA Closed ==
    ASSUME mode = "w", mode' = "closed", kind' = kind, NothingRead,
           seen'.given = seen.given, CloseMeansWritten'
    PROVE  /\ PackedWrites' /\ ClosedIsWritten' /\ NothingRead'
           /\ ReadSoFar' /\ DirectReads' /\ PackedReads'
<1> QED
  BY DEF PackedWrites, ClosedIsWritten, NothingRead, ReadSoFar, DirectReads,
         PackedReads, Writing

LEMMA CloseKeeps ==
    ASSUME IInv, Close
    PROVE  IInv'
<1>1. /\ TypeOK /\ CallsFit /\ DirectWrites /\ PackedWrites /\ NothingRead
      /\ mode = "w" /\ mode' = "w" /\ kind' = kind /\ io' = io /\ file' = file
      /\ seen' = seen /\ kind \in Packers /\ io.err = 0
      /\ call' = [Idle EXCEPT !.op = "finish"]
  BY DEF IInv, Close, Finishes
<1>2. call' \in Call /\ call'.op = "finish"
  BY <1>1, IdleIs DEF Call
<1>3. TypeOK' /\ CallsFit'
  BY <1>1, <1>2 DEF TypeOK, CallsFit
<1>4. DirectWrites' /\ PackedWrites'
  BY <1>1 DEF DirectWrites, PackedWrites, Packers, Direct
<1> QED
  BY <1>1, <1>3, <1>4, WritingOn DEF IInv

LEMMA CloseNowKeeps ==
    ASSUME IInv, CloseNow
    PROVE  IInv'
<1> DEFINE res == IF kind \in {"fd", "file"} THEN 0 ELSE io.err
<1>1. /\ TypeOK /\ CallsFit /\ DirectWrites /\ NothingRead /\ ReadSoFar /\ DirectReads
      /\ call.op = "none" /\ mode \in {"w", "r"} /\ io' = io /\ file' = file
      /\ ~Finishes /\ (kind = "lz4" => mode = "r") /\ Closes(res, seen)
  BY DEF IInv, CloseNow
<1>2. io \in Io /\ seen \in Seen /\ res \in Int /\ file \in Seq(Units)
  BY <1>1 DEF TypeOK, Io
<1> HIDE DEF res
<1>3. /\ seen' \in Seen /\ call' = Idle /\ kind' = kind
      /\ mode' = IF mode = "w" THEN "closed" ELSE "over"
      /\ seen'.taken = seen.taken /\ seen'.given = seen.given
      /\ seen'.result = 0 => res = 0
  BY <1>1, <1>2, ClosesIs
<1>4. TypeOK' /\ CallsFit'
  BY <1>1, <1>3, IdleIs DEF TypeOK, CallsFit
<1>5. CASE mode = "w"
  <2>1. DirectWrites'
    BY <1>1, <1>3, <1>5 DEF DirectWrites, Plain, Writing
  <2>2. CASE kind \in Packers
    <3>1. seen'.result # 0
      BY <1>1, <1>3, <1>5, <2>2 DEF Finishes, res, Packers
    <3>2. CloseMeansWritten'
      BY <3>1 DEF CloseMeansWritten, EveryCloseMeansWritten
    <3> QED
      BY <1>1, <1>3, <1>4, <1>5, <2>1, <3>2, Closed DEF IInv
  <2>3. CASE kind \notin Packers
    <3>1. kind \in Direct /\ ~Compresses(kind)
      BY <1>1, <1>5, <2>3 DEF TypeOK, Kinds, Direct, Packers, Compresses
    <3>2. file' = seen'.taken \o <<>>
      BY <1>1, <1>2, <1>3, <1>5, <3>1, ConcatEmptySeq DEF DirectWrites, Writing
    <3>3. CloseMeansWritten'
      BY <1>3, <3>1, <3>2 DEF CloseMeansWritten, EveryCloseMeansWritten, Compresses
    <3> QED
      BY <1>1, <1>3, <1>4, <1>5, <2>1, <3>3, Closed DEF IInv
  <2> QED
    BY <2>2, <2>3
<1>6. CASE mode = "r"
  <2>1. mode' = "over"
    BY <1>3, <1>6
  <2>2. DirectWrites' /\ PackedWrites' /\ ClosedIsWritten' /\ NothingRead'
    BY <1>1, <1>3, <1>6, <2>1, ReadingOn
  <2>3. ReadSoFar' /\ DirectReads' /\ PackedReads'
    BY <1>1, <1>3, <1>6, <2>1 DEF ReadSoFar, DirectReads, PackedReads, Writing
  <2> QED
    BY <1>4, <2>2, <2>3 DEF IInv
<1> QED
  BY <1>1, <1>5, <1>6

LEMMA CloseLz4Keeps ==
    ASSUME IInv, CloseLz4
    PROVE  IInv'
<1>1. /\ TypeOK /\ CallsFit /\ NothingRead
      /\ call.op = "none" /\ mode = "w" /\ kind = "lz4" /\ io' = io
  BY DEF IInv, CloseLz4
<1>2. io \in Io /\ seen \in Seen /\ file \in Seq(Units) /\ <<END>> \in Seq(Units)
  BY <1>1 DEF TypeOK, Units, END
<1>3. \E res \in Int, now \in Seen :
         Closes(res, now) /\ file' \in Seq(Units) /\ now.given = seen.given
  <2>1. CASE Lands(<<END>>, Wholly(<<END>>)) /\ Closes(io.err, seen)
    <3>1. Wholly(<<END>>).n \in 0..Len(<<END>>)
      BY DEF Wholly
    <3>2. file' \in Seq(Units)
      BY <1>2, <2>1, <3>1, LandsIs
    <3> QED
      BY <1>2, <2>1, <3>2 DEF Io
  <2>2. ASSUME NEW out \in Failures(<<END>>), Lands(<<END>>, out),
               Closes(out.code, Fault(out.code))
        PROVE  \E res \in Int, now \in Seen :
                 Closes(res, now) /\ file' \in Seq(Units) /\ now.given = seen.given
    <3>1. out.n \in Nat /\ out.n < Len(<<END>>) /\ out.code \in Int
      BY <1>2, <2>2, FailureIs
    <3>2. out.n \in 0..Len(<<END>>)
      BY <3>1
    <3>3. file' \in Seq(Units)
      BY <1>2, <2>2, <3>2, LandsIs
    <3>4. Fault(out.code) \in Seen /\ Fault(out.code).given = seen.given
      BY <1>2, <3>1, FaultIs
    <3> QED
      BY <2>2, <3>1, <3>3, <3>4
  <2> QED
    BY <2>1, <2>2 DEF CloseLz4
<1>4. /\ seen' \in Seen /\ call' = Idle /\ kind' = kind /\ mode' = "closed"
      /\ seen'.given = seen.given /\ file' \in Seq(Units)
  BY <1>1, <1>2, <1>3, ClosesIs
<1>5. TypeOK' /\ CallsFit' /\ DirectWrites'
  BY <1>1, <1>4, IdleIs DEF TypeOK, CallsFit, DirectWrites, Direct
<1>6. CloseMeansWritten'
  BY <1>1, <1>4 DEF CloseMeansWritten, LossIsKnown
<1> QED
  BY <1>1, <1>4, <1>5, <1>6, Closed DEF IInv

\* While a close is finishing, nothing was lost yet, unless xz was deceived.
Finishing ==
    /\ call.op = "finish" /\ mode = "w" /\ kind \in Packers /\ io.err = 0
    /\ TypeOK /\ CallsFit /\ DirectWrites /\ NothingRead
    /\ \/ kind = "xz" /\ seen.lied
       \/ ~io.ended /\ file \o (io.buf \o io.held) = seen.taken

LEMMA FinishingIs ==
    ASSUME IInv, call.op = "finish"
    PROVE  Finishing
<1>1. TypeOK /\ CallsFit /\ DirectWrites /\ PackedWrites /\ NothingRead
  BY DEF IInv
<1>2. mode = "w" /\ kind \in Packers /\ io.err = 0
  BY <1>1 DEF CallsFit
<1>3. \/ kind = "xz" /\ seen.lied
      \/ ~io.ended /\ file \o (io.buf \o io.held) = seen.taken
  BY <1>1, <1>2, Zenon DEF PackedWrites
<1> QED
  BY <1>1, <1>2, <1>3, Zenon DEF Finishing

\* What the compressor and the device make of it, when the device takes all.
LEMMA FinishedLands ==
    ASSUME Finishing
    PROVE  /\ Finished \in Io /\ Finished.err = 0 /\ Finished.buf \in Seq(Units)
           /\ Finished.latency = io.latency
           /\ Len(Finished.buf) <= BufSiz /\ Len(Finished.held) <= io.latency
           /\ ~(kind = "xz" /\ seen.lied) /\ Finished.ended =>
                 file \o Finished.buf = seen.taken \o <<END>>
           /\ ~(kind = "xz" /\ seen.lied) /\ ~Finished.ended =>
                 (file \o Finished.buf) \o Finished.held = seen.taken
<1> DEFINE inside == io.buf \o io.held
<1>1. /\ io \in Io /\ file \in Seq(Units) /\ io.buf \in Seq(Units) /\ io.held \in Seq(Units)
      /\ <<END>> \in Seq(Units) /\ inside \in Seq(Units)
  BY ConcatProperties DEF Finishing, TypeOK, Io, Units, END
<1>2. Len(io.buf) <= BufSiz /\ Len(io.held) <= io.latency
  BY DEF Finishing, CallsFit
<1>3. /\ Finished \in Io /\ Finished.err = io.err /\ Finished.latency = io.latency
      /\ Len(Finished.buf) <= BufSiz /\ Len(Finished.held) <= Len(io.held)
      /\ Finished.ended /\ ~io.ended => Finished.buf = inside \o <<END>>
      /\ ~Finished.ended => Finished.buf \o Finished.held = inside
  BY <1>2, FinishedIs DEF Finishing
<1>4. Finished.buf \in Seq(Units) /\ Finished.held \in Seq(Units)
  BY <1>3 DEF Io
<1>5. Len(Finished.held) <= io.latency
  BY <1>1, <1>2, <1>3, <1>4, LenProperties DEF Io
<1> HIDE DEF inside
<1>6. ASSUME ~(kind = "xz" /\ seen.lied), Finished.ended
      PROVE  file \o Finished.buf = seen.taken \o <<END>>
  <2>1. ~io.ended /\ file \o inside = seen.taken
    BY <1>6 DEF Finishing, inside
  <2>2. (file \o inside) \o <<END>> = file \o (inside \o <<END>>)
    BY <1>1, ThreeParts
  <2> QED
    BY <1>3, <1>6, <2>1, <2>2
<1>7. ASSUME ~(kind = "xz" /\ seen.lied), ~Finished.ended
      PROVE  (file \o Finished.buf) \o Finished.held = seen.taken
  <2>1. file \o inside = seen.taken
    BY <1>7 DEF Finishing, inside
  <2>2. (file \o Finished.buf) \o Finished.held = file \o (Finished.buf \o Finished.held)
    <3>1. file \in Seq(Units)
      BY <1>1
    <3> QED
      BY <1>4, <3>1, ThreeParts
  <2> QED
    BY <1>3, <1>7, <2>1, <2>2
<1> QED
  BY <1>3, <1>4, <1>5, <1>6, <1>7 DEF Finishing

\* The device takes all of a buffer.
LEMMA WholeLands ==
    ASSUME file \in Seq(Units), NEW units \in Seq(Units), Lands(units, Wholly(units))
    PROVE  file' \in Seq(Units) /\ file' = file \o units
<1>1. Wholly(units).n = Len(units) /\ Len(units) \in 0..Len(units)
  BY LenProperties DEF Wholly
<1> QED
  BY <1>1, LandsIs

LEMMA FinishGoesOn ==
    ASSUME Finishing, kind' = kind, mode' = mode, call' = call, seen' = seen,
           io' = Emptied(Finished), Lands(Finished.buf, Wholly(Finished.buf)),
           ~Finished.ended
    PROVE  IInv'
<1>1. /\ TypeOK /\ CallsFit /\ NothingRead
      /\ call.op = "finish" /\ mode = "w" /\ kind \in Packers
      /\ file \in Seq(Units) /\ seen \in Seen /\ BufSiz \in Nat
  BY StreamAssumption DEF Finishing, TypeOK
<1>2. /\ Finished \in Io /\ Finished.err = 0 /\ Finished.buf \in Seq(Units)
      /\ Finished.latency = io.latency /\ Len(Finished.held) <= io.latency
      /\ ~(kind = "xz" /\ seen.lied) =>
            (file \o Finished.buf) \o Finished.held = seen.taken
  BY FinishedLands
<1>3. file' \in Seq(Units) /\ file' = file \o Finished.buf
  BY <1>1, <1>2, WholeLands
<1>4. /\ io' \in Io /\ io'.buf = <<>> /\ io'.held = Finished.held /\ ~io'.ended
      /\ io'.err = 0 /\ io'.latency = io.latency
  BY <1>2, EmptySeq DEF Emptied, Io
<1>5. <<>> \o io'.held = io'.held /\ Len(<<>>) = 0
  BY <1>4, ConcatEmptySeq, EmptySeq DEF Io
<1>6. TypeOK' /\ CallsFit'
  BY <1>1, <1>2, <1>3, <1>4, <1>5 DEF TypeOK, CallsFit
<1>7. PackedWrites'
  BY <1>2, <1>3, <1>4, <1>5 DEF PackedWrites
<1>8. DirectWrites'
  BY <1>1 DEF DirectWrites, Packers, Direct
<1> QED
  BY <1>1, <1>6, <1>7, <1>8, WritingOn DEF IInv

\* A close that returns keeps the invariant if it loses nothing unexpected.
LEMMA FinishEnds ==
    ASSUME Finishing, NEW res \in Int, NEW now \in Seen, Closes(res, now),
           now.given = seen.given, io' \in Io, Len(io'.buf) <= BufSiz,
           file' \in Seq(Units), CloseMeansWritten'
    PROVE  IInv'
<1>1. /\ seen' \in Seen /\ call' = Idle /\ kind' = kind /\ mode' = "closed"
      /\ seen'.given = seen.given
  BY ClosesIs DEF Finishing, TypeOK
<1>2. TypeOK' /\ CallsFit' /\ DirectWrites'
  BY <1>1, IdleIs DEF Finishing, TypeOK, CallsFit, DirectWrites, Direct, Packers
<1> QED
  BY <1>1, <1>2, Closed DEF IInv, Finishing

\* What a failure of the device leaves behind.
LEMMA FailureLands ==
    ASSUME Finishing, NEW units \in Seq(Units), NEW out \in Failures(units),
           Lands(units, out)
    PROVE  /\ file' \in Seq(Units) /\ out.code \in Int
           /\ kind = "z" => out.code = -1
           /\ kind = "bz2" => out.code = -6
           /\ kind = "xz" => out.code \in {0, 1, 5}
<1>1. /\ out.n \in Nat /\ out.n < Len(units) /\ out.code \in Int
      /\ kind = "z" => out.code = -1
      /\ kind = "bz2" => out.code = -6
      /\ kind = "xz" => out.code \in {0, 1, 5}
  BY FailureIs
<1>2. out.n \in 0..Len(units)
  BY <1>1, LenProperties
<1>3. file' \in Seq(Units)
  BY <1>2, LandsIs DEF Finishing, TypeOK
<1> QED
  BY <1>1, <1>3

LEMMA FinishZKeeps ==
    ASSUME IInv, FinishZ
    PROVE  IInv'
<1>1. Finishing /\ kind = "z" /\ io' = Finished
  BY FinishingIs DEF FinishZ
<1>2. seen \in Seen /\ file \in Seq(Units) /\ Len(io.buf) <= BufSiz
  BY <1>1 DEF Finishing, TypeOK, CallsFit
<1>3. /\ Finished \in Io /\ Finished.buf \in Seq(Units) /\ Len(Finished.buf) <= BufSiz
      /\ Finished.ended => file \o Finished.buf = seen.taken \o <<END>>
  BY <1>1, FinishedLands
<1>4. CASE ~Finished.ended
  <2>1. file' = file /\ Closes(0, seen)
    BY <1>4 DEF FinishZ
  <2>2. kind' = "z"
    BY <1>1, <2>1 DEF Closes
  <2>3. CloseMeansWritten'
    BY <1>1, <1>4, <2>2 DEF CloseMeansWritten, LossIsKnown
  <2> QED
    BY <1>1, <1>2, <1>3, <2>1, <2>3, FinishEnds
<1>5. CASE Finished.ended /\ Lands(Finished.buf, Wholly(Finished.buf)) /\ Closes(0, seen)
  <2>1. file' \in Seq(Units) /\ file' = seen.taken \o <<END>>
    BY <1>2, <1>3, <1>5, WholeLands
  <2>2. kind' = "z" /\ seen'.taken = seen.taken
    BY <1>1, <1>2, <1>5, ClosesIs
  <2>3. CloseMeansWritten'
    BY <2>1, <2>2 DEF CloseMeansWritten, EveryCloseMeansWritten, Compresses, Packers
  <2> QED
    BY <1>1, <1>2, <1>3, <1>5, <2>1, <2>3, FinishEnds
<1>6. ASSUME NEW out \in Failures(Finished.buf), Lands(Finished.buf, out),
             Closes(-1, Fault(-1))
      PROVE  IInv'
  <2>1. file' \in Seq(Units)
    BY <1>1, <1>3, <1>6, FailureLands
  <2>2. -1 \in Int /\ Fault(-1) \in Seen /\ Fault(-1).given = seen.given
    BY <1>2, FaultIs
  <2>3. seen'.result # 0
    BY <1>2, <1>6, <2>2, ClosesIs
  <2>4. CloseMeansWritten'
    BY <2>3 DEF CloseMeansWritten, EveryCloseMeansWritten
  <2> QED
    BY <1>1, <1>2, <1>3, <1>6, <2>1, <2>2, <2>4, FinishEnds
<1> QED
  BY <1>4, <1>5, <1>6 DEF FinishZ

LEMMA FinishBz2Keeps ==
    ASSUME IInv, FinishBz2
    PROVE  IInv'
<1>1. Finishing /\ kind = "bz2"
  BY FinishingIs DEF FinishBz2
<1>2. /\ seen \in Seen /\ file \in Seq(Units) /\ io \in Io /\ Len(io.buf) <= BufSiz
      /\ io.buf \in Seq(Units) /\ io.held \in Seq(Units) /\ call.op = "finish" /\ mode = "w"
  BY <1>1 DEF Finishing, TypeOK, CallsFit, Io
<1>3. /\ Finished \in Io /\ Finished.buf \in Seq(Units) /\ Len(Finished.buf) <= BufSiz
      /\ Finished.ended => file \o Finished.buf = seen.taken \o <<END>>
  BY <1>1, FinishedLands
<1>4. -6 \in Int /\ Fault(-6) \in Seen /\ Fault(-6).given = seen.given /\ Fault(-6).late
  BY <1>2, FaultIs
<1>5. Emptied(Finished) \in Io /\ Emptied(Finished).buf = <<>>
  BY <1>3, EmptySeq DEF Emptied, Io
<1>6. Len(<<>>) = 0 /\ 0 <= BufSiz
  BY EmptySeq, StreamAssumption
<1>7. CASE /\ Lands(io.buf, Wholly(io.buf)) /\ io' = Emptied(io)
           /\ UNCHANGED <<kind, mode, call, seen>>
  <2>1. file' \in Seq(Units) /\ file' = file \o io.buf
    BY <1>2, <1>7, WholeLands
  <2>2. /\ io' \in Io /\ io'.buf = <<>> /\ io'.held = io.held /\ io'.err = io.err
        /\ io'.ended = io.ended /\ io'.latency = io.latency
    BY <1>2, <1>7, EmptySeq DEF Emptied, Io
  <2>3. TypeOK' /\ CallsFit'
    BY <1>1, <1>6, <1>7, <2>1, <2>2 DEF Finishing, TypeOK, CallsFit
  <2>4. file' \o (io'.buf \o io'.held) = file \o (io.buf \o io.held)
    <3>1. io'.buf \o io'.held = io.held
      BY <1>2, <2>2, ConcatEmptySeq
    <3>2. (file \o io.buf) \o io.held = file \o (io.buf \o io.held)
      BY <1>2, ThreeParts
    <3> QED
      BY <2>1, <3>1, <3>2
  <2>5. DirectWrites' /\ PackedWrites'
    BY <1>1, <1>7, <2>2, <2>4 DEF Finishing, DirectWrites, PackedWrites, Direct, Packers
  <2> QED
    BY <1>1, <1>2, <1>7, <2>3, <2>5, WritingOn DEF IInv, Finishing
<1>8. ASSUME NEW out \in Failures(io.buf), Lands(io.buf, out), io' = io,
             Closes(-6, Fault(-6))
      PROVE  IInv'
  <2>1. file' \in Seq(Units)
    BY <1>1, <1>2, <1>8, FailureLands
  <2>2. seen'.result # 0
    BY <1>2, <1>4, <1>8, ClosesIs
  <2>3. CloseMeansWritten'
    BY <2>2 DEF CloseMeansWritten, EveryCloseMeansWritten
  <2> QED
    BY <1>1, <1>2, <1>4, <1>8, <2>1, <2>3, FinishEnds
<1>9. CASE /\ Lands(Finished.buf, Wholly(Finished.buf)) /\ io' = Emptied(Finished)
           /\ Finished.ended /\ Closes(0, seen)
  <2>1. file' \in Seq(Units) /\ file' = seen.taken \o <<END>>
    BY <1>2, <1>3, <1>9, WholeLands
  <2>2. kind' = "bz2" /\ seen'.taken = seen.taken
    BY <1>1, <1>2, <1>9, ClosesIs
  <2>3. CloseMeansWritten'
    BY <2>1, <2>2 DEF CloseMeansWritten, EveryCloseMeansWritten, Compresses, Packers
  <2> QED
    BY <1>1, <1>2, <1>5, <1>6, <1>9, <2>1, <2>3, FinishEnds
<1>10. CASE /\ Lands(Finished.buf, Wholly(Finished.buf)) /\ io' = Emptied(Finished)
            /\ ~Finished.ended /\ UNCHANGED <<kind, mode, call, seen>>
  BY <1>1, <1>10, FinishGoesOn
<1>11. ASSUME NEW out \in Failures(Finished.buf), Lands(Finished.buf, out),
              io' = Finished, Closes(0, Fault(-6))
       PROVE  IInv'
  <2>1. file' \in Seq(Units)
    BY <1>1, <1>3, <1>11, FailureLands
  <2>2. kind' = "bz2" /\ seen'.late
    BY <1>1, <1>2, <1>4, <1>11, ClosesIs
  <2>3. CloseMeansWritten'
    BY <2>2 DEF CloseMeansWritten, LossIsKnown
  <2> QED
    BY <1>1, <1>3, <1>4, <1>11, <2>1, <2>3, FinishEnds
<1> QED
  BY <1>7, <1>8, <1>9, <1>10, <1>11 DEF FinishBz2

LEMMA FinishXzKeeps ==
    ASSUME IInv, FinishXz
    PROVE  IInv'
<1>1. Finishing /\ kind = "xz" /\ io' = Emptied(Finished)
  BY FinishingIs DEF FinishXz
<1>2. seen \in Seen /\ file \in Seq(Units) /\ call.op = "finish" /\ mode = "w"
  BY <1>1 DEF Finishing, TypeOK
<1>3. /\ Finished \in Io /\ Finished.buf \in Seq(Units) /\ Finished.err = 0
      /\ Finished.latency = io.latency /\ Len(Finished.held) <= io.latency
      /\ ~seen.lied /\ Finished.ended => file \o Finished.buf = seen.taken \o <<END>>
  BY <1>1, FinishedLands
<1>4. /\ io' \in Io /\ io'.buf = <<>> /\ Len(<<>>) = 0 /\ 0 <= BufSiz
      /\ io'.err = 0 /\ io'.held = Finished.held /\ io'.latency = io.latency
  <2>1. <<>> \in Seq(Units) /\ Len(<<>>) = 0 /\ 0 <= BufSiz
    BY EmptySeq, StreamAssumption
  <2>2. io' = [Finished EXCEPT !.buf = <<>>]
    BY <1>1 DEF Emptied
  <2> QED
    BY <1>3, <2>1, <2>2 DEF Io
<1>5. CASE /\ Lands(Finished.buf, Wholly(Finished.buf))
           /\ Finished.ended /\ Closes(0, seen)
  <2>1. file' \in Seq(Units) /\ file' = file \o Finished.buf
    BY <1>2, <1>3, <1>5, WholeLands
  <2>2. kind' = "xz" /\ seen'.taken = seen.taken /\ seen'.lied = seen.lied
    BY <1>1, <1>2, <1>5, ClosesIs
  <2>3. seen.lied => CloseMeansWritten'
    BY <2>2 DEF CloseMeansWritten, LossIsKnown
  <2>4. ~seen.lied => CloseMeansWritten'
    BY <1>3, <1>5, <2>1, <2>2
       DEF CloseMeansWritten, EveryCloseMeansWritten, Compresses, Packers
  <2> QED
    BY <1>1, <1>2, <1>4, <1>5, <2>1, <2>3, <2>4, FinishEnds
<1>6. CASE /\ Lands(Finished.buf, Wholly(Finished.buf))
           /\ ~Finished.ended /\ UNCHANGED <<kind, mode, call, seen>>
  BY <1>1, <1>6, FinishGoesOn
<1>7. ASSUME NEW out \in Failures(Finished.buf), Lands(Finished.buf, out),
             IF out.code = 0 THEN seen' = Fault(0) /\ UNCHANGED <<kind, mode, call>>
             ELSE Closes(IF out.code = 1 THEN 0 ELSE out.code, Fault(out.code))
      PROVE  IInv'
  <2>1. file' \in Seq(Units) /\ out.code \in {0, 1, 5}
    BY <1>1, <1>3, <1>7, FailureLands
  <2>2. /\ Fault(out.code) \in Seen /\ Fault(out.code).given = seen.given
        /\ out.code \in {0, 1} => Fault(out.code).lied
    BY <1>1, <1>2, <2>1, FaultIs
  <2>3. CASE out.code = 0
    <3>1. /\ seen' \in Seen /\ seen'.given = seen.given /\ seen'.lied
          /\ kind' = kind /\ mode' = mode /\ call' = call
      BY <1>7, <2>2, <2>3
    <3>2. TypeOK' /\ CallsFit'
      BY <1>1, <1>3, <1>4, <2>1, <3>1 DEF Finishing, TypeOK, CallsFit
    <3>3. DirectWrites' /\ PackedWrites'
      BY <1>1, <3>1 DEF DirectWrites, PackedWrites, Direct
    <3> QED
      BY <1>1, <1>2, <3>1, <3>2, <3>3, WritingOn DEF IInv, Finishing
  <2>4. CASE out.code = 1
    <3>1. Closes(0, Fault(out.code))
      BY <1>7, <2>4
    <3>2. kind' = "xz" /\ seen'.lied
      <4>1. kind' = kind /\ seen'.lied = Fault(out.code).lied
        BY <1>2, <2>2, <3>1, ClosesIs
      <4> QED
        BY <1>1, <2>2, <2>4, <4>1
    <3>3. CloseMeansWritten'
      BY <3>2 DEF CloseMeansWritten, LossIsKnown
    <3> QED
      <4>1. Finishing /\ io' \in Io /\ Len(io'.buf) <= BufSiz /\ 0 \in Int
        BY <1>1, <1>4
      <4>2. /\ file' \in Seq(Units) /\ Fault(out.code) \in Seen
            /\ Fault(out.code).given = seen.given
        BY <2>1, <2>2
      <4> QED
        BY <3>1, <3>3, <4>1, <4>2, FinishEnds
  <2>5. CASE out.code = 5
    <3>1. Closes(5, Fault(out.code))
      BY <1>7, <2>5
    <3>2. seen'.result # 0
      BY <1>2, <2>2, <2>5, <3>1, ClosesIs
    <3>3. CloseMeansWritten'
      BY <3>2 DEF CloseMeansWritten, EveryCloseMeansWritten
    <3> QED
      <4>1. Finishing /\ io' \in Io /\ Len(io'.buf) <= BufSiz /\ 5 \in Int
        BY <1>1, <1>4
      <4>2. /\ file' \in Seq(Units) /\ Fault(out.code) \in Seen
            /\ Fault(out.code).given = seen.given
        BY <2>1, <2>2
      <4> QED
        BY <3>1, <3>3, <4>1, <4>2, FinishEnds
  <2> QED
    BY <2>1, <2>3, <2>4, <2>5
<1> QED
  BY <1>5, <1>6, <1>7 DEF FinishXz

LEMMA OpenAgainKeeps ==
    ASSUME IInv, OpenAgain
    PROVE  IInv'
<1>1. /\ TypeOK /\ CallsFit /\ DirectWrites /\ NothingRead
      /\ mode = "closed" /\ mode' = "r" /\ io' = Opened(0)
      /\ seen' = [seen EXCEPT !.short = FALSE]
      /\ kind' = kind /\ file' = file /\ call' = call
  BY DEF IInv, OpenAgain
<1>2. seen \in Seen /\ file \in Seq(Units) /\ seen.given = <<>> /\ call.op = "none"
  BY <1>1 DEF TypeOK, NothingRead, Writing, CallsFit, Call
<1>3. /\ io' \in Io /\ io'.buf = <<>> /\ io'.pos = 0 /\ ~io'.ended
      /\ Len(<<>>) = 0 /\ 0 <= BufSiz /\ 0 <= Len(file)
  BY <1>1, <1>2, EmptySeq, LenProperties, StreamAssumption DEF Opened, Io
<1>4. seen' \in Seen /\ seen'.given = <<>> /\ ~seen'.short
  BY <1>1, <1>2 DEF Seen
<1>5. TypeOK' /\ CallsFit'
  <2>1. io'.pos <= Len(file')
    BY <1>1, <1>3
  <2> QED
    BY <1>1, <1>2, <1>3, <1>4, <2>1 DEF TypeOK, CallsFit
<1>6. DirectWrites' /\ PackedWrites' /\ ClosedIsWritten' /\ NothingRead'
  BY <1>1 DEF DirectWrites, PackedWrites, ClosedIsWritten, NothingRead, Writing, Plain
<1>7. ReadSoFar'
  BY <1>1, <1>3, <1>4 DEF ReadSoFar
<1>8. DirectReads'
  BY <1>3, <1>4 DEF DirectReads
<1>9. PackedReads'
  <2>1. io'.pos = Len(seen'.given) + Len(io'.buf)
    <3>1. Len(seen'.given) = 0 /\ Len(io'.buf) = 0 /\ io'.pos = 0
      BY <1>3, <1>4
    <3> QED
      BY <3>1
  <2>2. \A i \in 1..Len(io'.buf) : io'.buf[i] = file'[Len(seen'.given) + i]
    BY <1>3
  <2> QED
    BY <1>3, <1>4, <2>1, <2>2, Zenon DEF PackedReads
<1> QED
  BY <1>5, <1>6, <1>7, <1>8, <1>9 DEF IInv

-----------------------------------------------------------------------------
(* Reading *)

\* What the device gives next.
LEMMA BehindIs ==
    ASSUME file \in Seq(Units), io.pos \in Nat, io.pos <= Len(file), NEW n \in Nat
    PROVE  /\ Behind(n) \in Seq(Units)
           /\ Len(Behind(n)) = IF io.pos + n <= Len(file) THEN n ELSE Len(file) - io.pos
           /\ \A i \in 1..Len(Behind(n)) : Behind(n)[i] = file[io.pos + i]
<1> DEFINE last == Min({io.pos + n, Len(file)})
<1>1. Len(file) \in Nat /\ io.pos + n \in Int
  BY LenProperties
<1>2. last = IF io.pos + n <= Len(file) THEN io.pos + n ELSE Len(file)
  BY <1>1, PairMin
<1> HIDE DEF last
<1>3. io.pos + 1 \in 1..Len(file) + 1 /\ last \in (io.pos + 1) - 1..Len(file)
  BY <1>1, <1>2
<1>4. Behind(n) = SubSeq(file, io.pos + 1, last)
  BY DEF Behind, last
<1>5. /\ Behind(n) \in Seq(Units) /\ Len(Behind(n)) = last - (io.pos + 1) + 1
      /\ \A i \in 1..last - (io.pos + 1) + 1 : Behind(n)[i] = file[(io.pos + 1) + i - 1]
  BY <1>3, <1>4, Piece, SMTT(40)
<1>6. Len(Behind(n)) = last - io.pos
  BY <1>1, <1>2, <1>5
<1>7. ASSUME NEW i \in 1..Len(Behind(n))
      PROVE  Behind(n)[i] = file[io.pos + i]
  <2>1. i \in 1..last - (io.pos + 1) + 1 /\ (io.pos + 1) + i - 1 = io.pos + i
    BY <1>1, <1>2, <1>5
  <2> QED
    BY <1>5, <2>1
<1>8. Len(Behind(n)) = IF io.pos + n <= Len(file) THEN n ELSE Len(file) - io.pos
  BY <1>1, <1>2, <1>6
<1>9. Behind(n) \in Seq(Units)
  BY <1>5
<1> QED
  BY <1>7, <1>8, <1>9

\* What was given grows by the units that come next in the file.
LEMMA GivenIs ==
    ASSUME seen \in Seen, NEW units \in Seq(Units)
    PROVE  /\ Given(units) \in Seen
           /\ Given(units).given = seen.given \o units
           /\ Given(units).taken = seen.taken /\ Given(units).short = seen.short
<1>1. seen.given \o units \in Seq(Units)
  BY ConcatProperties DEF Seen
<1> QED
  BY <1>1 DEF Given, Seen

LEMMA ReadsOn ==
    ASSUME seen \in Seen, file \in Seq(Units), NEW units \in Seq(Units),
           Len(seen.given) + Len(units) <= Len(file),
           \A i \in 1..Len(seen.given) :
              seen.given[i] = file[i] /\ file[i] \notin {END, BAD},
           \A i \in 1..Len(units) :
              units[i] = file[Len(seen.given) + i] /\ units[i] \notin {END, BAD}
    PROVE  /\ Len(seen.given \o units) = Len(seen.given) + Len(units)
           /\ \A i \in 1..Len(seen.given \o units) :
                 (seen.given \o units)[i] = file[i] /\ file[i] \notin {END, BAD}
<1> DEFINE given == seen.given
<1>1. given \in Seq(Units)
  BY DEF Seen
<1> HIDE DEF given
<1>2. Len(given) \in Nat /\ Len(units) \in Nat
  BY <1>1, LenProperties
<1>3. /\ Len(given \o units) = Len(given) + Len(units)
      /\ \A i \in 1..Len(given) + Len(units) :
            (given \o units)[i] = IF i <= Len(given) THEN given[i] ELSE units[i - Len(given)]
  BY <1>1, ConcatProperties
<1>4. ASSUME NEW i \in 1..Len(given) + Len(units)
      PROVE  (given \o units)[i] = file[i] /\ file[i] \notin {END, BAD}
  <2>1. CASE i <= Len(given)
    <3>1. i \in 1..Len(given)
      BY <1>2, <2>1
    <3> QED
      BY <1>3, <2>1, <3>1 DEF given
  <2>2. CASE ~(i <= Len(given))
    <3>1. i - Len(given) \in 1..Len(units) /\ Len(given) + (i - Len(given)) = i
      BY <1>2, <2>2
    <3>2. units[i - Len(given)] = file[i] /\ units[i - Len(given)] \notin {END, BAD}
      BY <3>1 DEF given
    <3> QED
      BY <1>3, <2>2, <3>2
  <2> QED
    BY <2>1, <2>2
<1> QED
  BY <1>3, <1>4 DEF given

LEMMA ReadKeeps ==
    ASSUME IInv, NEW n \in Nat, Read(n)
    PROVE  IInv'
<1>1. /\ TypeOK /\ CallsFit /\ DirectWrites /\ ReadSoFar /\ PackedReads
      /\ mode = "r" /\ mode' = "r" /\ kind' = kind /\ io' = io /\ file' = file
      /\ kind \in Packers /\ call.op = "none"
  BY DEF IInv, Read
<1>2. CASE io.err # 0
  <2>1. call' = call /\ seen' = Short(seen)
    BY <1>2 DEF Read
  <2>2. seen' \in Seen /\ seen'.given = seen.given
    BY <1>1, <2>1, ShortIs DEF TypeOK
  <2>3. TypeOK' /\ CallsFit'
    BY <1>1, <2>1, <2>2 DEF TypeOK, CallsFit
  <2>4. ReadSoFar' /\ DirectReads' /\ PackedReads'
    BY <1>1, <1>2, <2>2 DEF ReadSoFar, DirectReads, PackedReads, Direct, Packers, Writing
  <2> QED
    BY <1>1, <2>3, <2>4, ReadingOn DEF IInv
<1>3. CASE io.err = 0
  <2>1. seen' = seen /\ call' = [op |-> "read", src |-> <<>>, want |-> n]
    BY <1>3 DEF Read
  <2>2. call' \in Call /\ call'.op = "read"
    BY <2>1, EmptySeq DEF Call
  <2>3. TypeOK' /\ CallsFit'
    BY <1>1, <1>3, <2>1, <2>2 DEF TypeOK, CallsFit
  <2>4. ReadSoFar' /\ DirectReads' /\ PackedReads'
    BY <1>1, <2>1 DEF ReadSoFar, DirectReads, PackedReads, Direct, Packers, Writing
  <2> QED
    BY <1>1, <2>3, <2>4, ReadingOn DEF IInv
<1> QED
  BY <1>2, <1>3

LEMMA ReadFillKeeps ==
    ASSUME IInv, ReadFill
    PROVE  IInv'
<1>1. /\ TypeOK /\ CallsFit /\ DirectWrites /\ ReadSoFar /\ PackedReads
      /\ call.op = "read" /\ mode' = mode /\ kind' = kind /\ file' = file
      /\ io.buf = <<>>
  BY DEF IInv, ReadFill
<1>2. mode = "r" /\ kind \in Packers /\ io.err = 0 /\ io.pos <= Len(file)
  BY <1>1 DEF CallsFit
<1>3. /\ io \in Io /\ seen \in Seen /\ call \in Call /\ file \in Seq(Units)
      /\ io.pos \in Nat /\ BufSiz \in Nat /\ Len(io.buf) = 0
      /\ Len(seen.given) \in Nat /\ Len(file) \in Nat
  BY <1>1, StreamAssumption, EmptySeq, LenProperties DEF TypeOK, Io, Seen
<1>4. ~io.ended => io.pos = Len(seen.given)
  BY <1>1, <1>2, <1>3 DEF PackedReads
<1>5. ASSUME NEW n \in 1..Len(Behind(BufSiz)),
             io' = [io EXCEPT !.buf = Behind(n), !.pos = @ + n],
             UNCHANGED <<call, seen>>
      PROVE  IInv'
  <2>1. Len(Behind(BufSiz)) = IF io.pos + BufSiz <= Len(file) THEN BufSiz
                              ELSE Len(file) - io.pos
    BY <1>2, <1>3, BehindIs
  <2>2. n \in Nat /\ n <= BufSiz /\ io.pos + n <= Len(file)
    BY <1>2, <1>3, <1>5, <2>1
  <2>3. /\ Behind(n) \in Seq(Units) /\ Len(Behind(n)) = n
        /\ \A i \in 1..n : Behind(n)[i] = file[io.pos + i]
    BY <1>2, <1>3, <2>2, BehindIs
  <2>4. /\ io' \in Io /\ io'.buf = Behind(n) /\ io'.pos = io.pos + n
        /\ io'.err = io.err /\ io'.ended = io.ended
    <3> DEFINE behind == Behind(n)
               pos == io.pos + n
    <3>1. behind \in Seq(Units) /\ pos \in Nat
      BY <1>3, <2>2, <2>3
    <3>2. io' = [io EXCEPT !.buf = behind, !.pos = pos]
      BY <1>5
    <3> HIDE DEF behind, pos
    <3>3. /\ io' \in Io /\ io'.buf = behind /\ io'.pos = pos
          /\ io'.err = io.err /\ io'.ended = io.ended
      BY <1>3, <3>1, <3>2 DEF Io
    <3> QED
      BY <3>3 DEF behind, pos
  <2>5. TypeOK' /\ CallsFit'
    BY <1>1, <1>2, <1>5, <2>2, <2>3, <2>4 DEF TypeOK, CallsFit, Packers
  <2>6. ReadSoFar' /\ DirectReads'
    BY <1>1, <1>2, <1>5 DEF ReadSoFar, DirectReads, Direct, Packers, Writing
  <2>7. PackedReads'
    <3>1. CASE io.ended
      BY <1>1, <1>2, <1>5, <2>4, <3>1 DEF PackedReads
    <3>2. CASE ~io.ended
      <4>1. io'.pos = Len(seen'.given) + Len(io'.buf)
        BY <1>3, <1>4, <1>5, <2>3, <2>4, <3>2
      <4>2. \A i \in 1..Len(io'.buf) : io'.buf[i] = file'[Len(seen'.given) + i]
        BY <1>1, <1>4, <1>5, <2>3, <2>4, <3>2
      <4>3. seen'.short => Len(seen'.given) = Len(file')
        BY <1>1, <1>2, <1>5, <3>2 DEF PackedReads
      <4> QED
        BY <2>4, <3>2, <4>1, <4>2, <4>3 DEF PackedReads
    <3> QED
      BY <3>1, <3>2
  <2> QED
    BY <1>1, <1>2, <2>5, <2>6, <2>7, ReadingOn DEF IInv
<1>6. CASE Behind(1) = <<>> /\ ReadReturns(Short(seen)) /\ io' = io
  <2>1. call' = Idle /\ seen' = Short(seen)
    BY <1>6 DEF ReadReturns
  <2>2. seen' \in Seen /\ seen'.given = seen.given
    BY <1>3, <2>1, ShortIs
  <2>3. TypeOK' /\ CallsFit'
    BY <1>1, <1>2, <1>6, <2>1, <2>2, IdleIs DEF TypeOK, CallsFit
  <2>4. ReadSoFar' /\ DirectReads'
    BY <1>1, <1>2, <2>2 DEF ReadSoFar, DirectReads, Direct, Packers, Writing
  <2>5. io.pos = Len(file)
    <3>1. Len(Behind(1)) = IF io.pos + 1 <= Len(file) THEN 1 ELSE Len(file) - io.pos
      BY <1>2, <1>3, BehindIs
    <3>2. Len(Behind(1)) = 0
      BY <1>6, EmptySeq
    <3>3. ~(io.pos + 1 <= Len(file))
      BY <3>1, <3>2
    <3>4. io.pos \in Nat /\ Len(file) \in Nat /\ io.pos <= Len(file)
      BY <1>2, <1>3
    <3> QED
      BY <3>3, <3>4
  <2>6. PackedReads'
    BY <1>1, <1>2, <1>3, <1>4, <1>6, <2>2, <2>5 DEF PackedReads
  <2> QED
    BY <1>1, <1>2, <2>3, <2>4, <2>6, ReadingOn DEF IInv
<1>7. ASSUME NEW code \in Codes(FALSE), io' = [io EXCEPT !.err = code],
             ReadReturns(Short(Fault(code)))
      PROVE  IInv'
  <2>1. code \in Int /\ code # 0
    BY <1>7 DEF Codes
  <2>2. call' = Idle /\ seen' = Short(Fault(code))
    BY <1>7 DEF ReadReturns
  <2>3. Fault(code) \in Seen /\ Fault(code).given = seen.given
    BY <1>3, <2>1, FaultIs
  <2>4. seen' \in Seen /\ seen'.given = seen.given
    BY <2>2, <2>3, ShortIs
  <2>5. io' \in Io /\ io'.buf = io.buf /\ io'.pos = io.pos /\ io'.err # 0
    BY <1>3, <1>7, <2>1 DEF Io
  <2>6. TypeOK' /\ CallsFit'
    BY <1>1, <1>2, <2>2, <2>4, <2>5, IdleIs DEF TypeOK, CallsFit
  <2>7. ReadSoFar' /\ DirectReads' /\ PackedReads'
    BY <1>1, <1>2, <2>4, <2>5 DEF ReadSoFar, DirectReads, PackedReads, Direct, Packers, Writing
  <2> QED
    BY <1>1, <1>2, <2>6, <2>7, ReadingOn DEF IInv
<1> QED
  BY <1>5, <1>6, <1>7 DEF ReadFill

\* What one call of the decompressor makes of the buffer: so many items of it are
\* given, and the rest stays.
Items == IF io.ended THEN <<>> ELSE Content(io.buf)
Count == Min({Len(Items), call.want})
Got == SubSeq(Items, 1, Count)
Rest == SubSeq(io.buf, Count + 1, Len(io.buf))

LEMMA DecodeIs ==
    ASSUME TypeOK
    PROVE  /\ Count \in Nat /\ Count <= Len(io.buf) /\ Count <= call.want
           /\ Got \in Seq(Units) /\ Len(Got) = Count
           /\ \A i \in 1..Count : /\ Got[i] = io.buf[i]
                             /\ io.buf[i] \notin {END, BAD}
           /\ Rest \in Seq(Units) /\ Len(Rest) = Len(io.buf) - Count
           /\ \A i \in 1..Len(io.buf) - Count : Rest[i] = io.buf[Count + i]
           /\ io.ended => Count = 0 /\ Got = <<>> /\ Rest = io.buf
<1>1. /\ io.buf \in Seq(Units) /\ Len(io.buf) \in Nat /\ call.want \in Nat
      /\ <<>> \in Seq(Units) /\ Len(<<>>) = 0
  BY EmptySeq, LenProperties DEF TypeOK, Io, Call
<1>2. /\ Items \in Seq(Units) /\ Len(Items) <= Len(io.buf)
      /\ \A i \in 1..Len(Items) : Items[i] = io.buf[i] /\ io.buf[i] \notin {END, BAD}
      /\ io.ended => Len(Items) = 0
  <2>1. CASE io.ended
    BY <1>1, <2>1 DEF Items
  <2>2. CASE ~io.ended
    BY <1>1, <2>2, ContentIs DEF Items
  <2> QED
    BY <2>1, <2>2
<1>3. Len(Items) \in Nat
  BY <1>2, LenProperties
<1>4. Count = IF Len(Items) <= call.want THEN Len(Items) ELSE call.want
  BY <1>1, <1>3, PairMin DEF Count
<1>5. Count \in Nat /\ Count <= Len(Items) /\ Count <= call.want /\ Count <= Len(io.buf)
  BY <1>1, <1>2, <1>3, <1>4
<1>6. /\ Got \in Seq(Units) /\ Len(Got) = Count
      /\ \A i \in 1..Count : Got[i] = Items[i]
  BY <1>2, <1>3, <1>5, Piece DEF Got
<1>7. /\ Rest \in Seq(Units) /\ Len(Rest) = Len(io.buf) - Count
      /\ \A i \in 1..Len(io.buf) - Count : Rest[i] = io.buf[Count + i]
  <2>1. Count + 1 \in 1..Len(io.buf) + 1 /\ Len(io.buf) \in (Count + 1) - 1..Len(io.buf)
    BY <1>1, <1>5
  <2>2. /\ Rest \in Seq(Units) /\ Len(Rest) = Len(io.buf) - (Count + 1) + 1
        /\ \A i \in 1..Len(io.buf) - (Count + 1) + 1 : Rest[i] = io.buf[(Count + 1) + i - 1]
    BY <1>1, <2>1, Piece DEF Rest
  <2>3. Len(io.buf) - (Count + 1) + 1 = Len(io.buf) - Count
    BY <1>1, <1>5
  <2>4. ASSUME NEW i \in 1..Len(io.buf) - Count
        PROVE  Rest[i] = io.buf[Count + i]
    <3>1. (Count + 1) + i - 1 = Count + i
      BY <1>5
    <3> QED
      BY <2>2, <2>3, <3>1
  <2> QED
    BY <2>2, <2>3, <2>4
<1>8. ASSUME io.ended
      PROVE  Count = 0 /\ Got = <<>> /\ Rest = io.buf
  <2>1. Count = 0
    BY <1>2, <1>5, <1>8
  <2>2. Got = <<>>
    BY <1>6, <2>1, EmptySeq
  <2>3. Rest = io.buf
    BY <1>1, <2>1, SubSeqFull DEF Rest
  <2> QED
    BY <2>1, <2>2, <2>3
<1>9. \A i \in 1..Count : Items[i] = io.buf[i] /\ io.buf[i] \notin {END, BAD}
  BY <1>2, <1>3, <1>5
<1> QED
  BY <1>5, <1>6, <1>7, <1>8, <1>9

\* The cases of ReadDecode.
Decoded ==
    \/ Count = call.want /\ ReadReturns(Given(Got)) /\ io' = [io EXCEPT !.buf = Rest]
    \/ /\ Count < call.want /\ call' = [call EXCEPT !.want = @ - Count]
       /\ seen' = Given(Got) /\ io' = [io EXCEPT !.buf = Rest]
    \/ Count < call.want /\ io.ended /\ BehindEnd
    \/ /\ Count < call.want /\ ~io.ended /\ Rest # <<>> /\ Rest[1] = END
       /\ io' = [io EXCEPT !.buf = SubSeq(Rest, 2, Len(Rest)), !.ended = TRUE]
       /\ IF kind = "bz2" THEN ReadReturns(Short(Given(Got)))
          ELSE call' = [call EXCEPT !.want = @ - Count] /\ seen' = Given(Got)
    \/ /\ io' = [io EXCEPT !.buf = Rest, !.err = DataError]
       /\ ReadReturns(Short(Given(Got)))

LEMMA DecodedIs ==
    ASSUME ReadDecode
    PROVE  Decoded /\ call.op = "read" /\ io.buf # <<>> /\ UNCHANGED <<kind, mode, file>>
<1> QED
  BY DEF ReadDecode, Decoded, Items, Count, Got, Rest

LEMMA ReadDecodeKeeps ==
    ASSUME IInv, ReadDecode
    PROVE  IInv'
<1> DEFINE some == Given(Got)
<1>1. /\ TypeOK /\ CallsFit /\ DirectWrites /\ ReadSoFar /\ PackedReads
      /\ Decoded /\ call.op = "read" /\ io.buf # <<>>
      /\ mode' = mode /\ kind' = kind /\ file' = file
  BY DecodedIs DEF IInv
<1>2. /\ mode = "r" /\ kind \in Packers /\ io.err = 0 /\ io.pos <= Len(file)
      /\ Len(io.buf) <= BufSiz
  BY <1>1 DEF CallsFit
<1>3. /\ io \in Io /\ seen \in Seen /\ call \in Call /\ file \in Seq(Units)
      /\ io.buf \in Seq(Units) /\ seen.given \in Seq(Units) /\ io.pos \in Nat
      /\ BufSiz \in Nat
  BY <1>1, StreamAssumption DEF TypeOK, Io, Seen
<1>4. /\ Len(seen.given) \in Nat /\ Len(file) \in Nat /\ Len(io.buf) \in Nat
      /\ Len(io.buf) > 0
  BY <1>1, <1>3, LenProperties, EmptySeq
<1>5. /\ Count \in Nat /\ Count <= Len(io.buf) /\ Count <= call.want
      /\ Got \in Seq(Units) /\ Len(Got) = Count
      /\ \A i \in 1..Count : Got[i] = io.buf[i] /\ io.buf[i] \notin {END, BAD}
      /\ Rest \in Seq(Units) /\ Len(Rest) = Len(io.buf) - Count
      /\ \A i \in 1..Len(io.buf) - Count : Rest[i] = io.buf[Count + i]
      /\ io.ended => Count = 0 /\ Got = <<>> /\ Rest = io.buf
  BY <1>1, DecodeIs
<1>6. /\ some \in Seen /\ some.given = seen.given \o Got /\ some.short = seen.short
  BY <1>3, <1>5, GivenIs
<1>7. /\ Len(seen.given) <= Len(file)
      /\ \A i \in 1..Len(seen.given) :
            seen.given[i] = file[i] /\ file[i] \notin {END, BAD}
  BY <1>1, <1>2 DEF ReadSoFar, Packers, Writing
<1> DEFINE g == Len(seen.given)
           b == Len(io.buf)
           l == Len(file)
<1>7a. /\ g \in Nat /\ b \in Nat /\ l \in Nat /\ b > 0 /\ g <= l
       /\ Count \in Nat /\ Count <= b /\ io.pos \in Nat /\ io.pos <= l
  BY <1>2, <1>3, <1>4, <1>5, <1>7
<1>8. ~io.ended =>
         /\ io.pos = g + b /\ ~seen.short
         /\ \A i \in 1..b : io.buf[i] = file[g + i]
  <2>1. ~io.ended =>
          /\ io.pos = g + b /\ (seen.short => g = l)
          /\ \A i \in 1..b : io.buf[i] = file[g + i]
    BY <1>1, <1>2 DEF PackedReads
  <2> HIDE DEF g, b, l
  <2>2. io.pos = g + b => g # l
    BY <1>7a
  <2> QED
    BY <2>1, <2>2
<1>8a. ~io.ended => g + Count <= l
  <2> HIDE DEF g, b, l
  <2> QED
    BY <1>8, <1>7a
<1>8b. ~io.ended =>
          \A i \in 1..b - Count : Rest[i] = file[(g + Count) + i]
  <2> SUFFICES ASSUME ~io.ended, NEW i \in 1..b - Count
               PROVE  Rest[i] = file[(g + Count) + i]
    OBVIOUS
  <2>1. Rest[i] = io.buf[Count + i]
    BY <1>5
  <2>2. \A j \in 1..b : io.buf[j] = file[g + j]
    BY <1>8
  <2> HIDE DEF g, b, l
  <2>3. Count + i \in 1..b /\ g + (Count + i) = (g + Count) + i
    BY <1>7a
  <2> QED
    BY <2>1, <2>2, <2>3
\* What was given, with what the buffer adds to it, is the beginning of the file.
<1>9. /\ Len(some.given) = Len(seen.given) + Count /\ Len(some.given) <= Len(file)
      /\ \A i \in 1..Len(some.given) :
            some.given[i] = file[i] /\ file[i] \notin {END, BAD}
  <2>1. CASE io.ended
    <3>1. some.given = seen.given
      BY <1>3, <1>5, <1>6, <2>1, ConcatEmptySeq
    <3>2. Len(seen.given) = Len(seen.given) + Count
      BY <1>4, <1>5, <2>1
    <3> QED
      BY <1>7, <3>1, <3>2
  <2>2. CASE ~io.ended
    <3>1. Len(seen.given) + Len(Got) <= Len(file)
      BY <1>5, <1>8a, <2>2
    <3>2. ASSUME NEW i \in 1..Count
          PROVE  Got[i] = file[g + i] /\ Got[i] \notin {END, BAD}
      <4>1. Got[i] = io.buf[i] /\ io.buf[i] \notin {END, BAD}
        BY <1>5
      <4>2. \A j \in 1..b : io.buf[j] = file[g + j]
        BY <1>8, <2>2
      <4> HIDE DEF g, b, l
      <4>3. i \in 1..b
        BY <1>7a
      <4> QED
        BY <4>1, <4>2, <4>3
    <3>3. /\ Len(seen.given \o Got) = Len(seen.given) + Len(Got)
          /\ \A i \in 1..Len(seen.given \o Got) :
                (seen.given \o Got)[i] = file[i] /\ file[i] \notin {END, BAD}
      <4>1. \A i \in 1..Len(Got) : Got[i] = file[Len(seen.given) + i] /\ Got[i] \notin {END, BAD}
        BY <1>5, <3>2
      <4>2. Got \in Seq(Units)
        BY <1>5
      <4> QED
        BY <1>3, <1>7, <3>1, <4>1, <4>2, ReadsOn
    <3>4. Len(Got) = Count /\ some.given = seen.given \o Got
      BY <1>5, <1>6
    <3> HIDE DEF some
    <3> QED
      BY <3>1, <3>3, <3>4
  <2> QED
    BY <2>1, <2>2
<1> HIDE DEF some
\* It is enough to look at the buffer and the end from here on.
<1>10. ASSUME io' \in Io, io'.pos = io.pos, Len(io'.buf) <= BufSiz,
              call' \in Call, seen' \in Seen,
              call' = Idle \/ (call'.op = "read" /\ io'.err = 0),
              seen'.given \in {seen.given, some.given}, PackedReads'
       PROVE  IInv'
  <2>1. TypeOK'
    BY <1>1, <1>10 DEF TypeOK
  <2>2. CallsFit'
    BY <1>1, <1>2, <1>10, IdleIs DEF CallsFit
  <2>3. ReadSoFar'
    BY <1>1, <1>7, <1>9, <1>10 DEF ReadSoFar
  <2>4. DirectReads'
    BY <1>1, <1>2 DEF DirectReads, Direct, Packers
  <2> QED
    BY <1>1, <1>2, <1>10, <2>1, <2>2, <2>3, <2>4, ReadingOn DEF IInv
\* Some of the buffer is read, and the stream goes on where it ends.
<1>11. ASSUME io' = [io EXCEPT !.buf = Rest], seen' = some
       PROVE  /\ io' \in Io /\ io'.pos = io.pos /\ Len(io'.buf) <= BufSiz /\ io'.err = 0
              /\ PackedReads'
  <2>1. /\ io' \in Io /\ io'.buf = Rest /\ io'.pos = io.pos /\ io'.err = io.err
        /\ io'.ended = io.ended
    BY <1>3, <1>5, <1>11 DEF Io
  <2>2. Len(io'.buf) <= BufSiz
    BY <1>2, <1>3, <1>4, <1>5, <2>1
  <2>3. CASE io.ended
    <3>1. seen'.given = seen.given
      BY <1>3, <1>5, <1>6, <1>11, <2>3, ConcatEmptySeq, ZenonT(40)
    <3> QED
      BY <1>1, <1>2, <2>1, <2>2, <2>3, <3>1 DEF PackedReads
  <2>4. CASE ~io.ended
    <3>1. io'.pos = Len(seen'.given) + Len(io'.buf)
      <4>1. Len(seen'.given) = g + Count /\ Len(io'.buf) = b - Count
        BY <1>5, <1>9, <1>11, <2>1
      <4>2. io.pos = g + b
        BY <1>8, <2>4
      <4> HIDE DEF g, b, l
      <4>3. io.pos = (g + Count) + (b - Count)
        BY <1>7a, <4>2
      <4> QED
        BY <2>1, <4>1, <4>3
    <3>2. \A i \in 1..Len(io'.buf) : io'.buf[i] = file[Len(seen'.given) + i]
      <4>1. \A i \in 1..b - Count : Rest[i] = file[(g + Count) + i]
        BY <1>8b, <2>4
      <4>2. Len(io'.buf) = b - Count /\ Len(seen'.given) = g + Count
        BY <1>5, <1>9, <1>11, <2>1
      <4> HIDE DEF g, b, l
      <4> QED
        BY <2>1, <4>1, <4>2
    <3>3. ~seen'.short
      BY <1>6, <1>8, <1>11, <2>4
    <3> HIDE DEF g, b, l
    <3>4. PackedReads'
      BY <1>1, <2>1, <2>4, <3>1, <3>2, <3>3, Zenon DEF PackedReads
    <3> QED
      BY <1>2, <2>1, <2>2, <3>4
  <2> QED
    BY <2>3, <2>4
<1>12. CASE Count = call.want /\ ReadReturns(some) /\ io' = [io EXCEPT !.buf = Rest]
  <2>1. call' = Idle /\ seen' = some
    BY <1>12 DEF ReadReturns
  <2> QED
    BY <1>6, <1>10, <1>11, <1>12, <2>1, IdleIs
<1>13. CASE /\ Count < call.want /\ call' = [call EXCEPT !.want = @ - Count]
            /\ seen' = some /\ io' = [io EXCEPT !.buf = Rest]
  <2>1. call' \in Call /\ call'.op = "read"
    <3>1. call.want - Count \in Nat
      BY <1>3, <1>5 DEF Call
    <3> QED
      BY <1>1, <1>3, <1>13, <3>1 DEF Call
  <2> QED
    BY <1>6, <1>10, <1>11, <1>13, <2>1
<1>14. CASE Count < call.want /\ io.ended /\ BehindEnd
  <2>1. CASE io' = [io EXCEPT !.err = -1] /\ ReadReturns(Short(seen))
    <3>1. call' = Idle /\ seen' = Short(seen)
      BY <2>1 DEF ReadReturns
    <3>2. seen' \in Seen /\ seen'.given = seen.given
      BY <1>3, <3>1, ShortIs
    <3>3. io' \in Io /\ io'.pos = io.pos /\ io'.buf = io.buf /\ io'.err # 0
      <4>1. PICK code \in Int : code # 0 /\ io' = [io EXCEPT !.err = code]
        BY <2>1
      <4> QED
        BY <1>3, <4>1 DEF Io
    <3>4. PackedReads'
      BY <3>3 DEF PackedReads
    <3> QED
      BY <1>2, <1>10, <3>1, <3>2, <3>3, <3>4, IdleIs
  <2>2. CASE UNCHANGED <<io, call, seen>>
    <3>1. PackedReads'
      BY <1>1, <2>2 DEF PackedReads
    <3> QED
      BY <1>1, <1>2, <1>3, <1>10, <2>2, <3>1
  <2> QED
    BY <1>14, <2>1, <2>2 DEF BehindEnd
<1>15. CASE /\ Count < call.want /\ ~io.ended /\ Rest # <<>> /\ Rest[1] = END
            /\ io' = [io EXCEPT !.buf = SubSeq(Rest, 2, Len(Rest)), !.ended = TRUE]
            /\ IF kind = "bz2" THEN ReadReturns(Short(some))
               ELSE call' = [call EXCEPT !.want = @ - Count] /\ seen' = some
  <2>1. Len(Rest) \in Nat /\ Len(Rest) > 0
    BY <1>5, <1>15, EmptySeq
  <2>2. /\ SubSeq(Rest, 2, Len(Rest)) \in Seq(Units)
        /\ Len(SubSeq(Rest, 2, Len(Rest))) = Len(Rest) - 1
    <3>1. 2 \in 1..Len(Rest) + 1 /\ Len(Rest) \in 2 - 1..Len(Rest)
      BY <2>1
    <3>2. Len(Rest) - 2 + 1 = Len(Rest) - 1
      BY <2>1
    <3> QED
      BY <1>5, <3>1, <3>2, Piece
  <2>3. /\ io' \in Io /\ io'.pos = io.pos /\ io'.ended /\ io'.err = 0
        /\ io'.buf = SubSeq(Rest, 2, Len(Rest))
    BY <1>2, <1>3, <1>15, <2>2 DEF Io
  <2>4. Len(io'.buf) <= BufSiz
    BY <1>2, <1>3, <1>4, <1>5, <2>2, <2>3
  <2>5. Len(some.given) < Len(file) /\ file[Len(some.given) + 1] = END
    <3>1. /\ Rest[1] = END /\ Len(Rest) = b - Count /\ Len(some.given) = g + Count
          /\ io.pos = g + b /\ \A i \in 1..b - Count : Rest[i] = file[(g + Count) + i]
      BY <1>5, <1>8, <1>9, <1>15, <1>8b
    <3>2. b - Count > 0
      BY <2>1, <3>1
    <3> HIDE DEF g, b, l
    <3>3. 1 \in 1..b - Count /\ g + Count < l
      BY <1>7a, <3>1, <3>2
    <3>4. file[(g + Count) + 1] = END
      BY <3>1, <3>3
    <3> QED
      BY <3>1, <3>3, <3>4 DEF l
  <2>6. /\ seen' \in Seen /\ seen'.given = some.given
        /\ call' \in Call /\ (call' = Idle \/ call'.op = "read")
    <3>1. CASE kind = "bz2"
      BY <1>6, <1>15, <3>1, ShortIs, IdleIs DEF ReadReturns
    <3>2. CASE kind # "bz2"
      <4>1. call.want - Count \in Nat
        BY <1>3, <1>5 DEF Call
      <4> QED
        BY <1>1, <1>3, <1>6, <1>15, <3>2, <4>1 DEF Call
    <3> QED
      BY <3>1, <3>2
  <2>7. PackedReads'
    BY <1>1, <2>3, <2>5, <2>6 DEF PackedReads
  <2> QED
    BY <1>10, <2>3, <2>4, <2>6, <2>7
<1>16. CASE /\ io' = [io EXCEPT !.buf = Rest, !.err = DataError]
            /\ ReadReturns(Short(some))
  <2>1. call' = Idle /\ seen' = Short(some)
    BY <1>16 DEF ReadReturns
  <2>2. seen' \in Seen /\ seen'.given = some.given
    BY <1>6, <2>1, ShortIs
  <2>3. DataError \in Int /\ DataError # 0
    BY DEF DataError
  <2>4. io' \in Io /\ io'.pos = io.pos /\ io'.buf = Rest /\ io'.err # 0
    BY <1>3, <1>5, <1>16, <2>3 DEF Io
  <2>5. Len(io'.buf) <= BufSiz
    BY <1>2, <1>3, <1>4, <1>5, <2>4
  <2>6. PackedReads'
    BY <2>4 DEF PackedReads
  <2> QED
    BY <1>10, <2>1, <2>2, <2>4, <2>5, <2>6, IdleIs
<1> QED
  BY <1>1, <1>12, <1>13, <1>14, <1>15, <1>16 DEF Decoded, some

\* A read without a compressor gives what comes next in the file.
LEMMA DirectlyRead ==
    ASSUME TypeOK, CallsFit, DirectWrites, ReadSoFar, DirectReads,
           kind \in Direct, kind' = kind, mode = "r", mode' = "r", call.op = "none",
           call' = call, file' = file, NEW n \in Nat, NEW k \in Nat,
           kind # "fd" => k = n,
           seen' = [Given(Behind(k)) EXCEPT !.short = @ \/ Len(Behind(k)) < n],
           io' = [io EXCEPT !.pos = @ + Len(Behind(k))]
    PROVE  IInv'
<1> DEFINE g == Len(seen.given)
           b == Len(Behind(k))
           l == Len(file)
           short == seen.short \/ b < n
<1>1. /\ io \in Io /\ seen \in Seen /\ file \in Seq(Units) /\ Direct \cap Packers = {}
      /\ io.pos \in Nat /\ seen.given \in Seq(Units) /\ g \in Nat /\ l \in Nat
  BY LenProperties DEF TypeOK, Io, Seen, Direct, Packers
<1>2. /\ g <= l
      /\ \A i \in 1..g : seen.given[i] = file[i] /\ file[i] \notin {END, BAD}
  BY DEF ReadSoFar, Direct, Writing
<1>3. io.pos = g /\ (kind # "fd" /\ seen.short /\ io.err = 0 => g = l)
  BY DEF DirectReads, Writing
<1>4. \A i \in 1..l : file[i] \notin {END, BAD}
  BY DEF DirectWrites, Plain
<1>5. /\ Behind(k) \in Seq(Units) /\ b = IF g + k <= l THEN k ELSE l - g
      /\ \A i \in 1..b : Behind(k)[i] = file[g + i]
  BY <1>1, <1>2, <1>3, BehindIs
<1>6. /\ Given(Behind(k)) \in Seen /\ Given(Behind(k)).short = seen.short
      /\ Given(Behind(k)).given = seen.given \o Behind(k)
  BY <1>1, <1>5, GivenIs
<1>7. short \in BOOLEAN
  BY <1>1 DEF Seen
<1>8. seen' = [Given(Behind(k)) EXCEPT !.short = short]
  BY <1>6
<1> HIDE DEF short
<1>9. /\ seen' \in Seen /\ seen'.given = seen.given \o Behind(k) /\ seen'.short = short
  BY <1>6, <1>7, <1>8 DEF Seen
<1>10. b \in Nat /\ g + b <= l
  <2> HIDE DEF g, b, l
  <2> QED
    BY <1>1, <1>2, <1>5
<1>11. io' \in Io /\ io'.pos = g + b /\ io'.err = io.err /\ io'.buf = io.buf
  <2>1. g + b \in Nat /\ io' = [io EXCEPT !.pos = g + b]
    BY <1>1, <1>3, <1>10
  <2> HIDE DEF g, b, l
  <2> QED
    BY <1>1, <2>1 DEF Io
<1>12. \A i \in 1..b : Behind(k)[i] = file[g + i] /\ Behind(k)[i] \notin {END, BAD}
  <2>1. SUFFICES ASSUME NEW i \in 1..b
                 PROVE  Behind(k)[i] = file[g + i] /\ file[g + i] \notin {END, BAD}
    BY <1>5
  <2> HIDE DEF g, b, l
  <2>2. g + i \in 1..l
    BY <1>1, <1>10
  <2>3. Behind(k)[i] = file[g + i]
    BY <1>5
  <2> QED
    BY <1>4, <2>2, <2>3
<1>13. /\ Len(seen'.given) = g + b
       /\ \A i \in 1..Len(seen'.given) :
             seen'.given[i] = file[i] /\ file[i] \notin {END, BAD}
  <2>1. /\ Len(seen.given \o Behind(k)) = Len(seen.given) + Len(Behind(k))
        /\ \A i \in 1..Len(seen.given \o Behind(k)) :
              (seen.given \o Behind(k))[i] = file[i] /\ file[i] \notin {END, BAD}
    BY <1>1, <1>2, <1>5, <1>10, <1>12, ReadsOn
  <2> QED
    BY <1>9, <2>1
<1>14. kind # "fd" /\ short /\ io.err = 0 => g + b = l
  <2>1. CASE seen.short
    <3> HIDE DEF g, b, l
    <3> QED
      BY <1>1, <1>3, <1>10, <2>1
  <2>2. CASE b < n
    <3>1. kind # "fd" => k = n
      OBVIOUS
    <3> HIDE DEF g, b, l
    <3> QED
      BY <1>1, <1>5, <2>2, <3>1
  <2> QED
    BY <2>1, <2>2 DEF short
<1>15. TypeOK' /\ CallsFit'
  <2>1. "lz4" \notin Direct
    BY DEF Direct
  <2> QED
    BY <1>1, <1>9, <1>11, <2>1 DEF TypeOK, CallsFit
<1>16. ReadSoFar'
  BY <1>10, <1>13 DEF ReadSoFar
<1>17. DirectReads'
  BY <1>9, <1>11, <1>13, <1>14, Zenon DEF DirectReads
<1>18. PackedReads'
  BY <1>1 DEF PackedReads
<1> QED
  BY <1>15, <1>16, <1>17, <1>18, ReadingOn DEF IInv

LEMMA ReadDirectKeeps ==
    ASSUME IInv, NEW n \in Nat, ReadDirect(n)
    PROVE  IInv'
<1>1. /\ TypeOK /\ CallsFit /\ DirectWrites /\ ReadSoFar /\ DirectReads
      /\ mode = "r" /\ mode' = mode /\ kind' = kind /\ file' = file /\ call' = call
      /\ call.op = "none" /\ kind \in {"fd", "file"} /\ kind \in Direct
  BY DEF IInv, ReadDirect, Direct
<1>2. ASSUME NEW k \in Nat, kind # "fd" => k = n,
             seen' = [Given(Behind(k)) EXCEPT !.short = @ \/ Len(Behind(k)) < n],
             io' = [io EXCEPT !.pos = @ + Len(Behind(k))]
      PROVE  IInv'
  BY <1>1, <1>2, DirectlyRead
<1>3. CASE io' = [io EXCEPT !.err = 1] /\ seen' = Short(Fault(1))
  <2>1. io \in Io /\ seen \in Seen
    BY <1>1 DEF TypeOK
  <2>2. Fault(1) \in Seen /\ Fault(1).given = seen.given
    BY <2>1, FaultIs
  <2>3. seen' \in Seen /\ seen'.given = seen.given
    BY <1>3, <2>2, ShortIs
  <2>4. io' \in Io /\ io'.buf = io.buf /\ io'.pos = io.pos /\ io'.err = 1
    BY <1>3, <2>1 DEF Io
  <2>5. TypeOK' /\ CallsFit'
    BY <1>1, <2>3, <2>4 DEF TypeOK, CallsFit, Packers
  <2>6. ReadSoFar' /\ DirectReads' /\ PackedReads'
    BY <1>1, <2>3, <2>4 DEF ReadSoFar, DirectReads, PackedReads, Direct, Packers, Writing
  <2> QED
    BY <1>1, <2>5, <2>6, ReadingOn DEF IInv
<1> QED
  <2>1. ASSUME NEW got \in IF kind = "fd" THEN {Behind(k) : k \in 1..n} ELSE {Behind(n)},
               seen' = [Given(got) EXCEPT !.short = @ \/ Len(got) < n],
               io' = [io EXCEPT !.pos = @ + Len(got)]
        PROVE  IInv'
    <3>1. PICK k \in Nat : got = Behind(k) /\ (kind # "fd" => k = n)
      BY <2>1
    <3> QED
      BY <1>2, <2>1, <3>1
  <2> QED
    BY <1>3, <2>1 DEF ReadDirect

LEMMA ReadMemoryKeeps ==
    ASSUME IInv, NEW n \in Nat, ReadMemory(n)
    PROVE  IInv'
<1>1. /\ TypeOK /\ CallsFit /\ DirectWrites /\ ReadSoFar /\ DirectReads /\ NothingRead
      /\ mode \in {"w", "r"} /\ mode' = mode /\ kind' = kind /\ file' = file
      /\ call' = call /\ call.op = "none" /\ kind = "mem" /\ kind \in Direct
  BY DEF IInv, ReadMemory, Direct
<1>2. CASE mode = "r" /\ io.err = 0
  <2>1. /\ seen' = [Given(Behind(n)) EXCEPT !.short = @ \/ Len(Behind(n)) < n]
        /\ io' = [io EXCEPT !.pos = @ + Len(Behind(n))]
    BY <1>2 DEF ReadMemory
  <2> QED
    BY <1>1, <1>2, <2>1, DirectlyRead
<1>3. CASE ~(mode = "r" /\ io.err = 0)
  <2>1. io' = [io EXCEPT !.err = 1] /\ seen' = Short(seen)
    BY <1>3 DEF ReadMemory
  <2> QED
    BY <1>1, <2>1, RefusedKeeps
<1> QED
  BY <1>2, <1>3

\* What nobody wrote.
LEMMA JunkIs ==
    ASSUME NEW m \in Nat
    PROVE  [i \in 1..m |-> JUNK] \in Seq(Units)
<1>1. [i \in 1..m |-> JUNK] \in [1..m -> Units]
  BY DEF JUNK, Units
<1> QED
  BY <1>1, SeqDef

LEMMA ReadLz4Keeps ==
    ASSUME IInv, NEW n \in Nat, ReadLz4(n)
    PROVE  IInv'
<1> DEFINE m == Min({n, Unread})
           short == m < n
           junk == [i \in 1..m |-> JUNK]
<1>1. /\ TypeOK /\ CallsFit /\ DirectWrites
      /\ mode = "r" /\ mode' \in {"r", "over"} /\ kind' = kind /\ file' = file
      /\ call' = call /\ call.op = "none" /\ kind = "lz4"
      /\ seen' = [Given(junk) EXCEPT !.short = short]
      /\ io' = [io EXCEPT !.pos = @ + m]
  BY DEF IInv, ReadLz4
<1>2. io \in Io /\ seen \in Seen /\ io.pos \in Nat /\ BufSiz \in Nat /\ io.pos <= BufSiz
  BY <1>1, StreamAssumption DEF TypeOK, CallsFit, Io
<1>3. m \in Nat /\ io.pos + m \in Nat /\ io.pos + m <= BufSiz
  <2>1. Unread \in Nat /\ Unread = BufSiz - io.pos
    BY <1>2 DEF Unread
  <2>2. m = IF n <= Unread THEN n ELSE Unread
    BY <2>1, PairMin
  <2> HIDE DEF m
  <2> QED
    BY <1>2, <2>1, <2>2
<1>4. junk \in Seq(Units)
  BY <1>3, JunkIs
<1>5. short \in BOOLEAN
  OBVIOUS
<1>6. Given(junk) \in Seen
  BY <1>2, <1>4, GivenIs
<1> HIDE DEF m, short, junk
<1>7. seen' \in Seen
  BY <1>1, <1>5, <1>6 DEF Seen
<1>8. io' \in Io /\ io'.pos = io.pos + m /\ io'.err = io.err /\ io'.buf = io.buf
  <2>1. io' = [io EXCEPT !.pos = io.pos + m]
    BY <1>1
  <2> QED
    BY <1>2, <1>3, <2>1 DEF Io
<1>9. "lz4" \notin Packers /\ "lz4" \notin Direct
  BY DEF Packers, Direct
<1>10. TypeOK' /\ CallsFit'
  BY <1>1, <1>3, <1>7, <1>8, <1>9 DEF TypeOK, CallsFit
<1>11. ReadSoFar' /\ DirectReads' /\ PackedReads'
  BY <1>1, <1>9 DEF ReadSoFar, DirectReads, PackedReads
<1> QED
  BY <1>1, <1>10, <1>11, ReadingOn DEF IInv

-----------------------------------------------------------------------------
(* The invariant *)

LEMMA InitHolds ==
    ASSUME Init
    PROVE  IInv
<1>1. /\ kind \in Kinds /\ call = Idle /\ mode \in {"w", "r"}
      /\ seen = [taken |-> <<>>, given |-> <<>>, short |-> FALSE, result |-> 0,
                 faults |-> 0, late |-> FALSE, lied |-> FALSE]
  BY DEF Init
<1>2. PICK lat \in Latencies : io = Opened(lat)
  BY DEF Init
<1>3. lat \in Nat /\ BufSiz \in Nat
  BY StreamAssumption
<1>4. <<>> \in Seq(Units) /\ Len(<<>>) = 0
  BY EmptySeq
<1>5. /\ io \in Io /\ io.err = 0 /\ io.buf = <<>> /\ io.held = <<>> /\ ~io.ended
      /\ io.pos = 0 /\ io.latency = lat
  BY <1>2, <1>3, <1>4 DEF Opened, Io
<1>6. seen \in Seen /\ seen.given = <<>> /\ seen.taken = <<>> /\ ~seen.short
  BY <1>1, <1>4 DEF Seen
<1>7. \A f \in Files \cup Appended : f \in Seq(Units)
  <2>1. Nat \cup {BAD} \subseteq Units
    BY DEF BAD, Units
  <2> QED
    BY <2>1, SeqMonotonic, StreamAssumption
<1>8. file \in Seq(Units) /\ (kind \in Direct => Plain(file))
  <2>1. CASE mode = "w"
    BY <1>4, <2>1 DEF Init, Plain
  <2>2. CASE mode # "w"
    <3>1. file \in IF Compresses(kind) THEN Files \cup Appended ELSE {Content(f) : f \in Files}
      BY <2>2 DEF Init
    <3>2. CASE Compresses(kind)
      BY <1>7, <3>1, <3>2 DEF Compresses, Direct, Packers
    <3>3. CASE ~Compresses(kind)
      <4>1. PICK f \in Files : file = Content(f)
        BY <3>1, <3>3
      <4>2. f \in Seq(Units)
        BY <1>7
      <4>3. /\ Content(f) \in Seq(Units)
            /\ \A i \in 1..Len(Content(f)) :
                  Content(f)[i] = f[i] /\ f[i] \notin {END, BAD}
        BY <4>2, ContentIs
      <4> QED
        BY <4>1, <4>3 DEF Plain
    <3> QED
      BY <3>2, <3>3
  <2> QED
    BY <2>1, <2>2
<1>9. mode = "w" => file = <<>>
  BY DEF Init
<1>10. Len(file) \in Nat
  BY <1>8, LenProperties
<1>11. TypeOK
  BY <1>1, <1>5, <1>6, <1>8, IdleIs DEF TypeOK
<1>12. CallsFit
  BY <1>1, <1>3, <1>4, <1>5, <1>10, IdleIs DEF CallsFit
<1>13. DirectWrites
  BY <1>1, <1>6, <1>8, <1>9 DEF DirectWrites, Writing
<1>14. PackedWrites
  BY <1>4, <1>5, <1>6, <1>9, ConcatEmptySeq DEF PackedWrites
<1>15. ClosedIsWritten /\ NothingRead
  BY <1>1, <1>6 DEF ClosedIsWritten, NothingRead
<1>16. ReadSoFar
  BY <1>4, <1>6, <1>10 DEF ReadSoFar
<1>17. DirectReads
  BY <1>4, <1>5, <1>6 DEF DirectReads
<1>18. PackedReads
  BY <1>4, <1>5, <1>6 DEF PackedReads
<1> QED
  BY <1>11, <1>12, <1>13, <1>14, <1>15, <1>16, <1>17, <1>18 DEF IInv

LEMMA NextHolds ==
    ASSUME IInv, [Next]_vars
    PROVE  IInv'
<1>1. CASE UNCHANGED vars
  <2>1. UNCHANGED <<kind, mode, io, file, call, seen>>
    BY <1>1 DEF vars
  <2>2. TypeOK' /\ CallsFit' /\ DirectWrites' /\ PackedWrites'
    BY <2>1 DEF IInv, TypeOK, CallsFit, DirectWrites, PackedWrites, Writing, Plain
  <2>3. CloseMeansWritten = CloseMeansWritten'
    BY <2>1 DEF CloseMeansWritten, LossIsKnown, EveryCloseMeansWritten
  <2>4. ClosedIsWritten' /\ NothingRead' /\ ReadSoFar' /\ DirectReads' /\ PackedReads'
    BY <2>1, <2>3 DEF IInv, ClosedIsWritten, NothingRead, ReadSoFar, DirectReads,
                      PackedReads, Writing
  <2> QED
    BY <2>2, <2>4 DEF IInv
<1>2. ASSUME NEW n \in 1..BufSiz + 1,
             \/ Write(n) \/ WriteDirect(n) \/ WriteMemory(n) \/ WriteLz4(n)
             \/ Read(n) \/ ReadDirect(n) \/ ReadMemory(n) \/ ReadLz4(n)
      PROVE  IInv'
  <2>1. n \in Int /\ n \in Nat
    BY StreamAssumption
  <2> QED
    BY <1>2, <2>1, WriteKeeps, WriteDirectKeeps, WriteMemoryKeeps, WriteLz4Keeps,
       ReadKeeps, ReadDirectKeeps, ReadMemoryKeeps, ReadLz4Keeps
<1>3. CASE Close \/ CloseNow \/ CloseLz4 \/ OpenAgain
  BY <1>3, CloseKeeps, CloseNowKeeps, CloseLz4Keeps, OpenAgainKeeps
<1>4. CASE Step
  BY <1>4, WriteFlushKeeps, WriteCompressKeeps, FinishZKeeps, FinishBz2Keeps,
     FinishXzKeeps, ReadFillKeeps, ReadDecodeKeeps DEF Step
<1> QED
  BY <1>1, <1>2, <1>3, <1>4 DEF Next

(* The state of a stream is what each part of the code relies on: calls run    *)
(* only in the mode they belong to, no buffer holds more than fits into it,    *)
(* what was taken is on the device, in the buffer or in the compressor, and    *)
(* what was given is followed in the file by what the buffer holds             *)
(* (io.c:55-1080).                                                             *)
THEOREM Invariance == Spec => []IInv
<1>1. Init => IInv
  BY InitHolds
<1>2. IInv /\ [Next]_vars => IInv'
  BY NextHolds
<1> QED
  BY <1>1, <1>2, PTL DEF Spec

(* A close that returns no error loses nothing but what the code is known to   *)
(* lose, with buffers of any size, any latency of the compressor and any       *)
(* number of failures of the device (io.c:224-294, 453-545, 700-775).          *)
THEOREM NothingElseIsLost == Spec => []CloseMeansWritten
<1>1. IInv => CloseMeansWritten
  BY DEF IInv, ClosedIsWritten, CloseMeansWritten, EveryCloseMeansWritten
<1> QED
  BY <1>1, Invariance, PTL

(* Whatever file a stream is given, or wrote, and however the device splits    *)
(* it, what is read is the beginning of what it holds (io.c:55-152, 189-222,   *)
(* 416-451, 668-698).                                                          *)
THEOREM ReadInOrder == Spec => []ReadsInOrder
<1>1. ASSUME IInv, kind # "lz4"
      PROVE  IsPrefix(seen.given, Content(file))
  <2>1. file \in Seq(Units) /\ seen.given \in Seq(Units)
    BY <1>1 DEF IInv, TypeOK, Seen
  <2>2. /\ Len(seen.given) <= Len(file)
        /\ \A i \in 1..Len(seen.given) :
              seen.given[i] = file[i] /\ file[i] \notin {END, BAD}
    <3>1. CASE Writing
      <4>1. seen.given = <<>> /\ Len(<<>>) = 0 /\ Len(file) \in Nat
        BY <1>1, <2>1, <3>1, EmptySeq, LenProperties DEF IInv, NothingRead
      <4> QED
        BY <4>1
    <3>2. CASE ~Writing
      BY <1>1, <3>2 DEF IInv, ReadSoFar
    <3> QED
      BY <3>1, <3>2
  <2> QED
    BY <2>1, <2>2, BeginsContent
<1>2. IInv => ReadsInOrder
  BY <1>1 DEF ReadsInOrder
<1> QED
  BY <1>2, Invariance, PTL

(* A read that returns less than it was asked for, with no error, has given    *)
(* everything the stream holds (io.c:55-152, 189-222, 416-451, 668-698).       *)
THEOREM ShortIsTheEnd == Spec => []EndIsTheEnd
<1>1. ASSUME IInv, mode = "r", call.op = "none", seen.short, io.err = 0,
             kind \notin {"fd", "lz4"}, Compresses(kind) => END \in Range(file)
      PROVE  seen.given = Content(file)
  <2>1. file \in Seq(Units) /\ seen.given \in Seq(Units) /\ kind \in Kinds
    BY <1>1 DEF IInv, TypeOK, Seen
  <2>2. /\ Len(seen.given) <= Len(file)
        /\ \A i \in 1..Len(seen.given) :
              seen.given[i] = file[i] /\ file[i] \notin {END, BAD}
    BY <1>1 DEF IInv, ReadSoFar, Writing
  <2>3. Len(seen.given) < Len(file) => file[Len(seen.given) + 1] \in {END, BAD}
    <3>1. CASE kind \in Packers
      <4>1. CASE io.ended
        BY <1>1, <3>1, <4>1 DEF IInv, PackedReads
      <4>2. CASE ~io.ended
        <5>1. Len(seen.given) = Len(file)
          BY <1>1, <3>1, <4>2 DEF IInv, PackedReads
        <5> QED
          BY <2>1, <5>1, LenProperties
      <4> QED
        BY <4>1, <4>2
    <3>2. CASE kind \notin Packers
      <4>1. kind \in Direct
        BY <1>1, <2>1, <3>2 DEF Kinds, Direct
      <4>2. Len(seen.given) = Len(file)
        BY <1>1, <4>1 DEF IInv, DirectReads, Writing
      <4> QED
        BY <2>1, <4>2, LenProperties
    <3> QED
      BY <3>1, <3>2
  <2> QED
    BY <2>1, <2>2, <2>3, IsContent
<1>2. IInv => EndIsTheEnd
  BY <1>1 DEF EndIsTheEnd
<1> QED
  BY <1>2, Invariance, PTL
=============================================================================
