------------------------- MODULE PatriciaTrie_proofs -------------------------
(***************************************************************************)
(* Proofs about PatriciaTrie: for every set of prefixes, page size, amount *)
(* of memory and width of the count, the tree stays sound, every prefix is *)
(* found where it was put, the searches answer what the set of prefixes    *)
(* says, and the trie implements PrefixSet, as long as the client inserts  *)
(* no prefix after one of its subnets (which patriciatrie.c:296 gets       *)
(* wrong) and removes none with subnets on both sides                      *)
(* (patriciatrie.c:426).                                                   *)
(*                                                                         *)
(* The invariant: there are a set S of nodes and a string of bits a[n] for *)
(* each, glue included, such that each node hangs from its parent on the   *)
(* side of its next bit and agrees with it so far (Shape), glue has two    *)
(* children (Forked), and S and the free list share no node (Ledger).  S   *)
(* and a are never computed: InTree is shown to be S, and the bits of glue *)
(* are those of any node below it.                                         *)
(***************************************************************************)
EXTENDS PatriciaTrie, WellFoundedInduction, FiniteSetTheorems, SequenceTheorems, TLAPS

(* Numbers, and functions that are defined by recursion on them *)

\* A nonempty set of naturals has a least element.
LEMMA MinIsLeast ==
    ASSUME NEW S \in SUBSET Nat, S # {}
    PROVE  Min(S) \in S /\ \A x \in S : Min(S) <= x
<1> DEFINE R == OpToRel(<, Nat)
<1>1. \A x, y \in Nat : <<y, x>> \in R <=> y < x
  BY DEF OpToRel
<1>2. IsWellFoundedOn(R, Nat)
  BY NatLessThanWellFounded
<1> HIDE DEF R
<1>3. PICK m \in S : \A y \in S : ~ (<<y, m>> \in R)
  BY <1>2, WFMin
<1>4. ASSUME NEW y \in S PROVE m <= y
  <2>1. m \in Nat /\ y \in Nat
    OBVIOUS
  <2>2. ~ (<<y, m>> \in R)
    BY <1>3
  <2>3. ~ (y < m)
    BY <1>1, <2>1, <2>2
  <2> QED
    BY <2>1, <2>3
<1> QED
  BY <1>4 DEF Min

\* What holds at 0 and goes from each number to the next holds up to n.
LEMMA UpTo ==
    ASSUME NEW n \in Nat, NEW G, 0 \in G, \A i \in 0..n - 1 : i \in G => i + 1 \in G
    PROVE  \A i \in 0..n : i \in G
<1> DEFINE Bad == {i \in 0..n : i \notin G}
           k == Min(Bad)
<1> SUFFICES ASSUME Bad # {} PROVE FALSE
  OBVIOUS
<1>1. Bad \in SUBSET Nat
  OBVIOUS
<1>2. k \in Bad /\ \A x \in Bad : k <= x
  BY <1>1, MinIsLeast
<1> HIDE DEF k
<1>3. k \in 0..n /\ k \notin G /\ k # 0
  BY <1>2
<1>4. k - 1 \in 0..n - 1 /\ k - 1 \in 0..n /\ ~ (k <= k - 1)
  BY <1>3
<1>5. k - 1 \in G
  BY <1>2, <1>4
<1>6. (k - 1) + 1 \in G /\ (k - 1) + 1 = k
  BY <1>3, <1>4, <1>5
<1> QED
  BY <1>3, <1>6

\* A set of numbers up to n has a greatest element.
LEMMA Greatest ==
    ASSUME NEW n \in Nat, NEW S \in SUBSET (0..n), S # {}
    PROVE  \E m \in S : \A x \in S : x <= m
<1> DEFINE T == {n - x : x \in S}
<1>1. T \in SUBSET Nat /\ T # {}
  <2>1. \A x \in 0..n : n - x \in Nat
    OBVIOUS
  <2> QED
    BY <2>1
<1>2. Min(T) \in T /\ \A y \in T : Min(T) <= y
  BY <1>1, MinIsLeast
<1>3. PICK m \in S : Min(T) = n - m
  BY <1>2
<1>4. \A x \in S : n - m <= n - x
  BY <1>2, <1>3
<1>5. \A x \in S : x \in 0..n
  OBVIOUS
<1> QED
  BY <1>4, <1>5

\* A function that begins at x0 and takes a step for each number: there is one.
Runs(f, n, X, x0, step) ==
    /\ f \in [0..n -> X]
    /\ f = [i \in 0..n |-> IF i = 0 THEN x0 ELSE step[f[i - 1]]]

\* A function of the numbers to n by recursion on its last value exists.
LEMMA Iterates ==
    ASSUME NEW X, NEW x0 \in X, NEW step \in [X -> X], NEW n \in Nat
    PROVE  \E f : Runs(f, n, X, x0, step)
<1> DEFINE Run(k, f) == f = [i \in 0..k |-> IF i = 0 THEN x0 ELSE step[f[i - 1]]]
           G == {k \in Nat : \E f \in [0..k -> X] : Run(k, f)}
<1>1. 0 \in G
  <2> DEFINE f == [i \in 0..0 |-> x0]
  <2>1. f \in [0..0 -> X] /\ Run(0, f)
    OBVIOUS
  <2> QED
    BY <2>1
<1>2. ASSUME NEW k \in 0..n - 1, k \in G PROVE k + 1 \in G
  <2>1. PICK f \in [0..k -> X] : Run(k, f)
    BY <1>2
  <2> DEFINE g == [i \in 0..k + 1 |-> IF i = 0 THEN x0 ELSE step[f[i - 1]]]
  <2>2. \A i \in 0..k + 1 : i # 0 => i - 1 \in 0..k
    OBVIOUS
  <2>3. g \in [0..k + 1 -> X]
    BY <2>2
  <2>4. \A i \in 0..k : g[i] = f[i]
    <3>1. \A i \in 0..k : i \in 0..k + 1
      OBVIOUS
    <3>2. \A i \in 0..k : f[i] = IF i = 0 THEN x0 ELSE step[f[i - 1]]
      BY <2>1
    <3> QED
      BY <3>1, <3>2
  <2>5. \A i \in 0..k + 1 : i # 0 => g[i - 1] = f[i - 1]
    BY <2>2, <2>4
  <2> DEFINE h == [i \in 0..k + 1 |-> IF i = 0 THEN x0 ELSE step[g[i - 1]]]
  <2>6. \A i \in 0..k + 1 : g[i] = h[i]
    BY <2>5
  <2>7. g = h
    BY <2>6
  <2> HIDE DEF g
  <2>8. Run(k + 1, g)
    BY <2>7
  <2> HIDE DEF Run
  <2>9. k + 1 \in Nat
    OBVIOUS
  <2> QED
    BY <2>3, <2>8, <2>9
<1>3. \A k \in 0..n : k \in G
  <2> HIDE DEF G
  <2> QED
    BY <1>1, <1>2, UpTo
<1>4. n \in G
  BY <1>3
<1> QED
  BY <1>4 DEF Runs

-----------------------------------------------------------------------------
N == Cardinality(Nodes)

\* The nodes are finitely many numbers, and Null is none of them.
LEMMA NodesAre ==
    /\ IsFiniteSet(Nodes) /\ N \in Nat /\ Nodes \subseteq Nat \ {0} /\ Null \notin Nodes
    /\ PageSize * MaxPages \in Nat
<1>1. PageSize * MaxPages \in Nat
  BY TrieAssumption
<1> DEFINE k == PageSize * MaxPages
<1> HIDE DEF k
<1>2. k \in Nat => IsFiniteSet(1..k) /\ Cardinality(1..k) \in Nat
  BY FS_Interval, FS_CardinalityType
<1>3. k \in Nat => 1..k \subseteq Nat \ {0} /\ 0 \notin 1..k
  OBVIOUS
<1> QED
  BY <1>1, <1>2, <1>3 DEF N, Nodes, Null, k

Strings == Seq({0, 1})

\* The first k bits of two strings are the same.
Agree(x, y, k) == \A i \in 0..(k - 1) : Bit(x, i) = Bit(y, i)

\* A bit of a string is 0 or 1, and 0 behind its end.
LEMMA BitIs ==
    /\ \A x \in Strings, i \in Nat : Bit(x, i) \in {0, 1}
    /\ \A x \in Strings, i \in Nat : i >= Len(x) => Bit(x, i) = 0
    /\ \A x \in Strings : Len(x) \in Nat
<1>1. ASSUME NEW x \in Strings, NEW i \in Nat PROVE Bit(x, i) \in {0, 1}
  <2>1. Len(x) \in Nat
    BY DEF Strings
  <2>2. CASE i < Len(x)
    <3>1. i + 1 \in 1..Len(x)
      BY <2>1, <2>2
    <3>2. x[i + 1] \in {0, 1}
      BY <3>1, ElementOfSeq DEF Strings
    <3> QED
      BY <2>2, <3>2 DEF Bit
  <2>3. CASE ~ (i < Len(x))
    BY <2>3 DEF Bit
  <2> QED
    BY <2>2, <2>3
<1>2. \A x \in Strings : Len(x) \in Nat
  BY DEF Strings
<1> QED
  BY <1>1, <1>2 DEF Bit

\* A string is its bits.
LEMMA SameString ==
    ASSUME NEW x \in Strings, NEW y \in Strings, Len(x) = Len(y), Agree(x, y, Len(x))
    PROVE  x = y
<1>1. Len(x) \in Nat
  BY BitIs
<1>2. ASSUME NEW i \in 1..Len(x) PROVE x[i] = y[i]
  <2>1. i - 1 \in 0..(Len(x) - 1) /\ i - 1 < Len(x) /\ i - 1 < Len(y) /\ (i - 1) + 1 = i
    BY <1>1
  <2>2. Bit(x, i - 1) = Bit(y, i - 1)
    BY <2>1 DEF Agree
  <2>3. Bit(x, i - 1) = x[(i - 1) + 1] /\ Bit(y, i - 1) = y[(i - 1) + 1]
    BY <2>1 DEF Bit
  <2> QED
    BY <2>1, <2>2, <2>3
<1> QED
  BY <1>2, SeqEqual DEF Strings

\* Agreement on some bits.
LEMMA Agreement ==
    /\ \A x, k : Agree(x, x, k)
    /\ \A x, y, k : Agree(x, y, k) => Agree(y, x, k)
    /\ \A x, y, z : \A k, j \in Nat : j <= k /\ Agree(x, y, k) /\ Agree(y, z, j) => Agree(x, z, j)
    /\ \A x, y : \A k \in Nat : Agree(x, y, k) /\ Bit(x, k) = Bit(y, k) => Agree(x, y, k + 1)
    /\ \A x, y : \A k \in Nat, i \in Nat : Agree(x, y, k) /\ i < k => Bit(x, i) = Bit(y, i)
<1>1. \A x, k : Agree(x, x, k)
  BY DEF Agree
<1>2. \A x, y, k : Agree(x, y, k) => Agree(y, x, k)
  BY DEF Agree
<1>3. ASSUME NEW x, NEW y, NEW k \in Nat, NEW i \in Nat, Agree(x, y, k), i < k
      PROVE  Bit(x, i) = Bit(y, i)
  <2>1. i \in 0..(k - 1)
    BY <1>3
  <2> QED
    BY <1>3, <2>1 DEF Agree
<1>4. ASSUME NEW x, NEW y, NEW z, NEW k \in Nat, NEW j \in Nat, j <= k, Agree(x, y, k), Agree(y, z, j)
      PROVE  Agree(x, z, j)
  <2> SUFFICES ASSUME NEW i \in 0..(j - 1) PROVE Bit(x, i) = Bit(z, i)
    BY DEF Agree
  <2>1. i \in Nat /\ i < k /\ i < j
    BY <1>4
  <2> QED
    BY <1>3, <1>4, <2>1
<1>5. ASSUME NEW x, NEW y, NEW k \in Nat, Agree(x, y, k), Bit(x, k) = Bit(y, k)
      PROVE  Agree(x, y, k + 1)
  <2> SUFFICES ASSUME NEW i \in 0..((k + 1) - 1) PROVE Bit(x, i) = Bit(y, i)
    BY DEF Agree
  <2>1. i \in Nat /\ (i < k \/ i = k)
    OBVIOUS
  <2> QED
    BY <1>3, <1>5, <2>1
<1> QED
  BY <1>1, <1>2, <1>3, <1>4, <1>5
-----------------------------------------------------------------------------
(* The tree: S are its nodes, and a gives each the bits it stands for, which a *)
(* glue node does not hold.                                                    *)
Named(nd, a, n) ==
    /\ a[n] \in Strings /\ Len(a[n]) = nd[n].len /\ nd[n].len <= MaxBitLen
    /\ ~nd[n].glue => nd[n].addr = a[n] /\ a[n] \in Prefixes

\* Where a node hangs: it is the head, or its parent's child toward its bits.
Hangs(h, nd, S, a, n) ==
    IF n = h THEN nd[n].parent = Null
    ELSE /\ nd[n].parent \in S
         /\ nd[nd[n].parent].child[Bit(a[n], nd[nd[n].parent].len)] = n

\* A child is longer, agrees, and hangs on the side of its next bit.
Leads(nd, S, a, n, b) ==
    nd[n].child[b] # Null =>
        /\ nd[n].child[b] \in S
        /\ nd[nd[n].child[b]].parent = n
        /\ nd[n].len < nd[nd[n].child[b]].len
        /\ Agree(a[nd[n].child[b]], a[n], nd[n].len)
        /\ Bit(a[nd[n].child[b]], nd[n].len) = b

Shape(h, nd, S, a) ==
    /\ nd \in [Nodes -> PNodes]
    /\ S \subseteq Nodes
    /\ IF h = Null THEN S = {} ELSE h \in S
    /\ \A n \in S : Named(nd, a, n)
    /\ \A n \in S : Hangs(h, nd, S, a, n)
    /\ \A n \in S : \A b \in {0, 1} : Leads(nd, S, a, n, b)

\* Glue has both children.
Forked(nd, S) == \A n \in S : nd[n].glue => \A b \in {0, 1} : nd[n].child[b] # Null

\* The fields of a node.
LEMMA NodeIs ==
    ASSUME NEW nd \in [Nodes -> PNodes], NEW n \in Nodes
    PROVE  /\ nd[n] \in PNodes /\ nd[n].len \in Nat /\ nd[n].glue \in BOOLEAN
           /\ nd[n].parent \in Nodes \cup {Null}
           /\ \A b \in {0, 1} : nd[n].child[b] \in Nodes \cup {Null}
<1>1. nd[n] \in PNodes
  OBVIOUS
<1>2. \A k \in 0..(MaxBitLen + 1) : k \in Nat
  BY TrieAssumption
<1> QED
  BY <1>1, <1>2 DEF PNodes

\* The parent of a node that is not the head is shorter and agrees with it.
LEMMA ParentIs ==
    ASSUME NEW h, NEW nd, NEW S, NEW a, Shape(h, nd, S, a), NEW n \in S, n # h
    PROVE  LET q == nd[n].parent
           IN  /\ q \in S /\ q \in Nodes /\ q # Null /\ q # n
               /\ nd[q].len \in Nat /\ nd[q].len < nd[n].len
               /\ Bit(a[n], nd[q].len) \in {0, 1}
               /\ nd[q].child[Bit(a[n], nd[q].len)] = n
               /\ Agree(a[n], a[q], nd[q].len)
<1> DEFINE q == nd[n].parent
           b == Bit(a[n], nd[q].len)
<1>1. nd \in [Nodes -> PNodes] /\ S \subseteq Nodes
  BY DEF Shape
<1>2. Hangs(h, nd, S, a, n)
  BY DEF Shape
<1>3. q \in S /\ nd[q].child[b] = n
  BY <1>2 DEF Hangs
<1>4. q \in Nodes /\ q # Null /\ n \in Nodes /\ n # Null
  BY <1>1, <1>3, NodesAre
<1>5. nd[q].len \in Nat /\ nd[n].len \in Nat
  BY <1>1, <1>4, NodeIs
<1>6. a[n] \in Strings
  BY DEF Shape, Named
<1>7. b \in {0, 1}
  BY <1>5, <1>6, BitIs
<1>8. Leads(nd, S, a, q, b)
  BY <1>3, <1>7 DEF Shape
<1> HIDE DEF q, b
<1>9. nd[q].len < nd[n].len /\ Agree(a[n], a[q], nd[q].len)
  BY <1>3, <1>4, <1>8 DEF Leads
<1>10. q # n
  BY <1>5, <1>9
<1> QED
  BY <1>3, <1>4, <1>5, <1>7, <1>9, <1>10 DEF q, b

\* The children of a node.
LEMMA ChildIs ==
    ASSUME NEW h, NEW nd, NEW S, NEW a, Shape(h, nd, S, a), NEW n \in S, NEW b \in {0, 1},
           nd[n].child[b] # Null
    PROVE  LET c == nd[n].child[b]
           IN  /\ c \in S /\ c \in Nodes /\ c # n /\ c # h
               /\ nd[c].parent = n /\ nd[c].len \in Nat /\ nd[n].len \in Nat
               /\ nd[n].len < nd[c].len
               /\ Agree(a[c], a[n], nd[n].len) /\ Bit(a[c], nd[n].len) = b
<1> DEFINE c == nd[n].child[b]
<1>1. nd \in [Nodes -> PNodes] /\ S \subseteq Nodes
  BY DEF Shape
<1>2. Leads(nd, S, a, n, b)
  BY DEF Shape
<1>3. c # Null
  OBVIOUS
<1> HIDE DEF c
<1>4. /\ c \in S /\ nd[c].parent = n /\ nd[n].len < nd[c].len
      /\ Agree(a[c], a[n], nd[n].len) /\ Bit(a[c], nd[n].len) = b
  BY <1>2, <1>3 DEF Leads, c
<1>5. c \in Nodes /\ n \in Nodes
  BY <1>1, <1>4
<1>6. nd[c].len \in Nat /\ nd[n].len \in Nat
  BY <1>1, <1>5, NodeIs
<1>7. c # n
  BY <1>4, <1>6
<1>8. c # h
  <2> SUFFICES ASSUME c = h PROVE FALSE
    OBVIOUS
  <2>1. Hangs(h, nd, S, a, c)
    BY <1>4 DEF Shape
  <2>2. nd[c].parent = Null
    BY <2>1 DEF Hangs
  <2> QED
    BY <1>4, <1>5, <2>2, NodesAre
<1> QED
  BY <1>4, <1>5, <1>6, <1>7, <1>8 DEF c

\* How many nodes are shorter: more for longer nodes, and fewer than there are.
LEMMA Depths ==
    ASSUME NEW nd \in [Nodes -> PNodes], NEW S \in SUBSET Nodes
    PROVE  \E D \in [S -> 0..(N - 1)] :
              \A m, n \in S : nd[m].len < nd[n].len => D[m] < D[n]
<1> DEFINE Shorts(n) == {m \in S : nd[m].len < nd[n].len}
           D == [n \in S |-> Cardinality(Shorts(n))]
<1>1. \A n \in S : nd[n].len \in Nat
  BY NodeIs
<1>2. ASSUME NEW n \in S
      PROVE  /\ IsFiniteSet(Shorts(n)) /\ Cardinality(Shorts(n)) \in Nat
             /\ IsFiniteSet(Shorts(n) \cup {n}) /\ Cardinality(Shorts(n) \cup {n}) \in Nat
             /\ Cardinality(Shorts(n) \cup {n}) = Cardinality(Shorts(n)) + 1
             /\ Cardinality(Shorts(n) \cup {n}) <= N
  <2>1. Shorts(n) \in SUBSET Nodes /\ Shorts(n) \cup {n} \in SUBSET Nodes /\ n \notin Shorts(n)
    BY <1>1
  <2> HIDE DEF Shorts
  <2>2. IsFiniteSet(Shorts(n)) /\ IsFiniteSet(Shorts(n) \cup {n})
    BY <2>1, NodesAre, FS_Subset
  <2>3. Cardinality(Shorts(n) \cup {n}) <= N
    BY <2>1, NodesAre, FS_Subset DEF N
  <2>4. Cardinality(Shorts(n) \cup {n}) = Cardinality(Shorts(n)) + 1
    BY <2>1, <2>2, FS_AddElement
  <2>5. Cardinality(Shorts(n)) \in Nat /\ Cardinality(Shorts(n) \cup {n}) \in Nat
    BY <2>2, FS_CardinalityType
  <2> QED
    BY <2>2, <2>3, <2>4, <2>5
<1>3. ASSUME NEW m \in S, NEW n \in S, nd[m].len < nd[n].len
      PROVE  Cardinality(Shorts(m)) < Cardinality(Shorts(n))
  <2>1. Shorts(m) \cup {m} \in SUBSET Shorts(n)
    BY <1>1, <1>3
  <2> HIDE DEF Shorts
  <2> HIDE DEF D
  <2>2. Cardinality(Shorts(m) \cup {m}) <= Cardinality(Shorts(n))
    BY <1>2, <2>1, FS_Subset
  <2>3. /\ Cardinality(Shorts(m)) \in Nat /\ Cardinality(Shorts(n)) \in Nat
        /\ Cardinality(Shorts(m) \cup {m}) = Cardinality(Shorts(m)) + 1
    BY <1>2
  <2> QED
    BY <2>2, <2>3
<1> HIDE DEF Shorts
<1>4. ASSUME NEW n \in S PROVE Cardinality(Shorts(n)) \in 0..(N - 1)
  <2>1. /\ Cardinality(Shorts(n)) \in Nat
        /\ Cardinality(Shorts(n) \cup {n}) = Cardinality(Shorts(n)) + 1
        /\ Cardinality(Shorts(n) \cup {n}) <= N
    BY <1>2
  <2>2. N \in Nat
    BY NodesAre
  <2> QED
    BY <2>1, <2>2
<1>5. D \in [S -> 0..(N - 1)]
  BY <1>4
<1>6. \A m, n \in S : nd[m].len < nd[n].len => D[m] < D[n]
  BY <1>3
<1> QED
  BY <1>5, <1>6

\* InTree, as the recursion it is.
Reaches(t, f) ==
    f = [i \in 0..Cardinality(Nodes) |->
            IF i = 0 THEN {t.head} \ {Null}
            ELSE LET r == f[i - 1]
                 IN  r \cup UNION {{t.node[n].child[b] : b \in {0, 1}} \ {Null} : n \in r}]

\* The nodes of the tree are the last of the sets that grow from the head by the
\* children of each.
LEMMA InTreeIs ==
    ASSUME NEW t, t.head \in Nodes \cup {Null}, t.node \in [Nodes -> PNodes]
    PROVE  \E f \in [0..N -> SUBSET Nodes] :
              /\ InTree(t) = f[N] /\ f[0] = {t.head} \ {Null}
              /\ \A i \in 1..N : f[i] = f[i - 1] \cup
                     UNION {{t.node[n].child[b] : b \in {0, 1}} \ {Null} : n \in f[i - 1]}
<1> DEFINE Sons(r) == UNION {{t.node[n].child[b] : b \in {0, 1}} \ {Null} : n \in r}
           X == SUBSET Nodes
           x0 == {t.head} \ {Null}
           step == [r \in X |-> r \cup Sons(r)]
<1>1. ASSUME NEW r \in X PROVE r \cup Sons(r) \in X
  <2>1. \A n \in r : \A b \in {0, 1} : t.node[n].child[b] \in Nodes \cup {Null}
    BY NodeIs
  <2> QED
    BY <2>1
<1>2. x0 \in X
  OBVIOUS
<1>3. step \in [X -> X]
  BY <1>1
<1> HIDE DEF step, x0, X, Sons
<1>0. N \in Nat /\ 0 \in 0..N
  BY NodesAre
<1>3a. PICK f : Runs(f, N, X, x0, step)
  BY <1>0, <1>2, <1>3, Iterates, Zenon
<1>4. f \in [0..N -> X] /\ f = [i \in 0..N |-> IF i = 0 THEN x0 ELSE step[f[i - 1]]]
  BY <1>3a DEF Runs
<1>5. \A i \in 0..N : f[i] = IF i = 0 THEN x0 ELSE f[i - 1] \cup Sons(f[i - 1])
  <2>1. \A i \in 0..N : f[i] = IF i = 0 THEN x0 ELSE step[f[i - 1]]
    BY <1>4, Zenon
  <2>2. \A i \in 0..N : i # 0 => i - 1 \in 0..N
    BY NodesAre
  <2>2a. \A r \in X : step[r] = r \cup Sons(r)
    BY DEF step
  <2>2b. \A i \in 0..N : i # 0 => f[i - 1] \in X
    BY <1>4, <2>2
  <2>3. \A i \in 0..N : i # 0 => step[f[i - 1]] = f[i - 1] \cup Sons(f[i - 1])
    BY <2>2a, <2>2b
  <2> QED
    BY <2>1, <2>3
<1>6. f = [i \in 0..N |-> IF i = 0 THEN x0 ELSE f[i - 1] \cup Sons(f[i - 1])]
  BY <1>4, <1>5
<1>7. Reaches(t, f)
  BY <1>6 DEF Reaches, x0, Sons, N
<1> DEFINE g == CHOOSE g : Reaches(t, g)
<1>8. Reaches(t, g)
  BY <1>7
<1>9. InTree(t) = g[N]
  BY Zenon DEF InTree, Reaches, N
<1> HIDE DEF g
<1>10. /\ g = [i \in 0..N |-> IF i = 0 THEN x0 ELSE g[i - 1] \cup Sons(g[i - 1])]
  BY <1>8 DEF Reaches, x0, Sons, N
<1>11. \A i \in 0..N : g[i] = IF i = 0 THEN x0 ELSE g[i - 1] \cup Sons(g[i - 1])
  BY <1>10, Zenon
<1>12. \A i \in 0..N : g[i] \in X
  <2> DEFINE G == {i \in 0..N : g[i] \in X}
  <2>1. 0 \in G
    BY <1>0, <1>2, <1>11
  <2>2. ASSUME NEW i \in 0..N - 1, i \in G PROVE i + 1 \in G
    <3>1. i + 1 \in 0..N /\ i + 1 # 0 /\ (i + 1) - 1 = i
      BY NodesAre
    <3>2. g[i + 1] = g[i] \cup Sons(g[i])
      BY <1>11, <3>1
    <3> QED
      BY <1>1, <2>2, <3>1, <3>2
  <2> HIDE DEF G
  <2>3. \A i \in 0..N : i \in G
    BY <2>1, <2>2, NodesAre, UpTo
  <2> QED
    BY <2>3 DEF G
<1>13. g \in [0..N -> X]
  BY <1>10, <1>12
<1>14. \A i \in 1..N : g[i] = g[i - 1] \cup Sons(g[i - 1])
  <2>1. \A i \in 1..N : i \in 0..N /\ i # 0
    BY NodesAre
  <2> QED
    BY <1>11, <2>1
<1>15. g[0] = x0
  BY <1>0, <1>11
<1> QED
  BY <1>9, <1>13, <1>14, <1>15 DEF X, x0, Sons

\* The nodes of a tree are those that can be reached.
LEMMA TreeIsInTree ==
    ASSUME NEW t, NEW S, NEW a, Shape(t.head, t.node, S, a)
    PROVE  InTree(t) = S
<1>1. t.node \in [Nodes -> PNodes] /\ S \in SUBSET Nodes /\ t.head \in Nodes \cup {Null}
  BY DEF Shape
<1>2. PICK f \in [0..N -> SUBSET Nodes] :
              /\ InTree(t) = f[N] /\ f[0] = {t.head} \ {Null}
              /\ \A i \in 1..N : f[i] = f[i - 1] \cup
                     UNION {{t.node[n].child[b] : b \in {0, 1}} \ {Null} : n \in f[i - 1]}
  BY <1>1, InTreeIs
<1>3. PICK D \in [S -> 0..(N - 1)] : \A m, n \in S : t.node[m].len < t.node[n].len => D[m] < D[n]
  BY <1>1, Depths
<1>4. \A i \in 0..N - 1 : i + 1 \in 1..N /\ (i + 1) - 1 = i /\ i \in 0..N
  BY NodesAre
<1>5. \A i \in 0..N : f[i] \subseteq S
  <2> DEFINE G == {i \in 0..N : f[i] \subseteq S}
  <2>1. 0 \in G
    <3>1. {t.head} \ {Null} \subseteq S
      BY DEF Shape
    <3> QED
      BY <1>2, <3>1, NodesAre
  <2>2. ASSUME NEW i \in 0..N - 1, i \in G PROVE i + 1 \in G
    <3>1. f[i + 1] = f[i] \cup
                     UNION {{t.node[n].child[b] : b \in {0, 1}} \ {Null} : n \in f[i]}
      BY <1>2, <1>4
    <3>2. ASSUME NEW n \in f[i], NEW b \in {0, 1}, t.node[n].child[b] # Null
          PROVE  t.node[n].child[b] \in S
      <4>1. n \in S
        BY <2>2
      <4> QED
        BY <3>2, <4>1, ChildIs
    <3>3. i + 1 \in 0..N
      BY NodesAre
    <3> QED
      BY <2>2, <3>1, <3>2, <3>3
  <2> HIDE DEF G
  <2>3. \A i \in 0..N : i \in G
    BY <2>1, <2>2, NodesAre, UpTo
  <2> QED
    BY <2>3 DEF G
<1>6. \A i \in 0..N : \A n \in S : D[n] <= i => n \in f[i]
  <2> DEFINE G == {i \in 0..N : \A n \in S : D[n] <= i => n \in f[i]}
  <2>1. ASSUME NEW n \in S, n # t.head
        PROVE  /\ t.node[n].parent \in S /\ D[t.node[n].parent] < D[n]
               /\ \E b \in {0, 1} : t.node[t.node[n].parent].child[b] = n
    BY <1>3, <2>1, ParentIs
  <2>2. \A n \in S : D[n] \in Nat
    BY <1>3, NodesAre
  <2>3. 0 \in G
    <3>1. ASSUME NEW n \in S, D[n] <= 0 PROVE n \in f[0]
      <4>1. n = t.head
        BY <2>1, <2>2, <3>1
      <4> QED
        BY <1>1, <1>2, <4>1, NodesAre
    <3> QED
      BY <3>1, NodesAre
  <2>4. ASSUME NEW i \in 0..N - 1, i \in G PROVE i + 1 \in G
    <3>1. f[i + 1] = f[i] \cup
                     UNION {{t.node[n].child[b] : b \in {0, 1}} \ {Null} : n \in f[i]}
      BY <1>2, <1>4
    <3>2. ASSUME NEW n \in S, D[n] <= i + 1 PROVE n \in f[i + 1]
      <4>1. CASE n = t.head
        <5>1. D[n] \in Nat /\ i \in Nat
          BY <2>2
        <5>2. n \in f[i] \/ D[n] > i
          BY <2>4, <5>1
        <5>3. n \in f[0]
          BY <1>1, <1>2, <4>1, NodesAre
        <5>4. \A j \in 0..N : n \in f[j]
          <6> DEFINE H == {j \in 0..N : n \in f[j]}
          <6>1. 0 \in H
            BY <5>3, NodesAre
          <6>2. ASSUME NEW j \in 0..N - 1, j \in H PROVE j + 1 \in H
            <7>1. f[j] \subseteq f[j + 1]
              BY <1>2, <1>4
            <7>2. j + 1 \in 0..N
              BY NodesAre
            <7> QED
              BY <6>2, <7>1, <7>2
          <6> HIDE DEF H
          <6>3. \A j \in 0..N : j \in H
            BY <6>1, <6>2, NodesAre, UpTo
          <6> QED
            BY <6>3 DEF H
        <5>5. i + 1 \in 0..N
          BY NodesAre
        <5> QED
          BY <5>4, <5>5
      <4>2. CASE n # t.head
        <5> DEFINE q == t.node[n].parent
        <5>1. q \in S /\ D[q] < D[n]
          BY <2>1, <4>2
        <5>2. PICK b \in {0, 1} : t.node[q].child[b] = n
          BY <2>1, <4>2
        <5> HIDE DEF q
        <5>3. D[q] <= i
          BY <2>2, <3>2, <5>1
        <5>4. q \in f[i]
          BY <2>4, <5>1, <5>3
        <5>5. n # Null
          BY <1>1, NodesAre
        <5> QED
          BY <3>1, <5>2, <5>4, <5>5
      <4> QED
        BY <4>1, <4>2
    <3>3. i + 1 \in 0..N
      BY NodesAre
    <3> QED
      BY <3>2, <3>3
  <2> HIDE DEF G
  <2>5. \A i \in 0..N : i \in G
    BY <2>3, <2>4, NodesAre, UpTo
  <2> QED
    BY <2>5 DEF G
<1>7. N \in 0..N /\ \A n \in S : D[n] <= N
  BY <1>3, NodesAre
<1> QED
  BY <1>2, <1>5, <1>6, <1>7
-----------------------------------------------------------------------------
(* Descents *)
Spots == [plain : Seq(Nodes), at : Nodes \cup {Null}]

Onward(t, p, w) == [plain |-> IF t.node[w.at].glue THEN w.plain ELSE Append(w.plain, w.at),
                    at    |-> Toward(t, w.at, p)]

DescentBy(t, p, G, f) ==
    f = [i \in 0..Cardinality(Nodes) |->
            IF i = 0 THEN [plain |-> <<>>, at |-> t.head]
            ELSE LET w == f[i - 1]
                 IN  IF w.at \notin G THEN w
                     ELSE [plain |-> IF t.node[w.at].glue THEN w.plain ELSE Append(w.plain, w.at),
                           at    |-> Toward(t, w.at, p)]]

Passed(t, p, G, f) ==
    /\ f \in [0..N -> Spots]
    /\ f[0] = [plain |-> <<>>, at |-> t.head]
    /\ \A i \in 1..N : f[i] = IF f[i - 1].at \in G THEN Onward(t, p, f[i - 1]) ELSE f[i - 1]

\* The child toward a string is a node or Null.
LEMMA TowardIs ==
    ASSUME NEW t, t.node \in [Nodes -> PNodes], NEW p \in Strings, NEW n \in Nodes
    PROVE  Bit(p, t.node[n].len) \in {0, 1} /\ Toward(t, n, p) \in Nodes \cup {Null}
<1>1. t.node[n].len \in Nat
  BY NodeIs
<1>2. Bit(p, t.node[n].len) \in {0, 1}
  BY <1>1, BitIs
<1>3. \A b \in {0, 1} : t.node[n].child[b] \in Nodes \cup {Null}
  BY NodeIs
<1> QED
  BY <1>2, <1>3 DEF Toward

\* Where a step of a descent goes.
LEMMA OnwardAt == \A t, p, w : Onward(t, p, w).at = Toward(t, w.at, p)
  BY DEF Onward

\* A step of a descent keeps its type.
LEMMA OnwardIs ==
    ASSUME NEW t, t.node \in [Nodes -> PNodes], NEW p \in Strings, NEW w \in Spots, w.at \in Nodes
    PROVE  Onward(t, p, w) \in Spots
<1>1. w.plain \in Seq(Nodes) /\ Append(w.plain, w.at) \in Seq(Nodes)
  BY AppendProperties DEF Spots
<1>2. Toward(t, w.at, p) \in Nodes \cup {Null}
  BY TowardIs
<1> QED
  BY <1>1, <1>2 DEF Onward, Spots

\* A descent is the last of its steps, each from the one before.
LEMMA DescentIs ==
    ASSUME NEW t, t.head \in Nodes \cup {Null}, t.node \in [Nodes -> PNodes],
           NEW p \in Strings, NEW G \in SUBSET Nodes
    PROVE  \E f : Passed(t, p, G, f) /\ Descent(t, p, G) = f[N]
<1> DEFINE x0 == [plain |-> <<>>, at |-> t.head]
           step == [w \in Spots |-> IF w.at \in G THEN Onward(t, p, w) ELSE w]
<1>0. N \in Nat /\ 0 \in 0..N
  BY NodesAre
<1>1. x0 \in Spots
  BY EmptySeq DEF Spots
<1>2. step \in [Spots -> Spots]
  BY OnwardIs
<1>3. \A w \in Spots : step[w] = IF w.at \notin G THEN w ELSE Onward(t, p, w)
  OBVIOUS
<1> HIDE DEF x0, step
<1>4. PICK f : Runs(f, N, Spots, x0, step)
  BY <1>0, <1>1, <1>2, Iterates, Zenon
<1>5. f \in [0..N -> Spots] /\ f = [i \in 0..N |-> IF i = 0 THEN x0 ELSE step[f[i - 1]]]
  BY <1>4 DEF Runs
<1>6. \A i \in 0..N : i # 0 => f[i - 1] \in Spots
  BY <1>0, <1>5
<1>7. \A i \in 0..N : i # 0 => step[f[i - 1]] = IF f[i - 1].at \notin G THEN f[i - 1] ELSE Onward(t, p, f[i - 1])
  BY <1>3, <1>6
<1>8. f = [i \in 0..N |-> IF i = 0 THEN x0
                          ELSE IF f[i - 1].at \notin G THEN f[i - 1] ELSE Onward(t, p, f[i - 1])]
  BY <1>5, <1>7
<1>9. DescentBy(t, p, G, f)
  BY <1>8 DEF DescentBy, x0, N, Onward
<1> DEFINE g == CHOOSE g : DescentBy(t, p, G, g)
<1>10. DescentBy(t, p, G, g)
  BY <1>9
<1>11. Descent(t, p, G) = g[N]
  BY Zenon DEF Descent, DescentBy, N
<1> HIDE DEF g
<1>12. g = [i \in 0..N |-> IF i = 0 THEN x0
                          ELSE IF g[i - 1].at \notin G THEN g[i - 1] ELSE Onward(t, p, g[i - 1])]
  BY <1>10 DEF DescentBy, x0, N, Onward
<1>13. \A i \in 0..N : g[i] = IF i = 0 THEN x0
                          ELSE IF g[i - 1].at \notin G THEN g[i - 1] ELSE Onward(t, p, g[i - 1])
  BY <1>12, Zenon
<1>14. \A i \in 0..N : g[i] \in Spots
  <2> DEFINE H == {i \in 0..N : g[i] \in Spots}
  <2>1. 0 \in H
    BY <1>0, <1>1, <1>13
  <2>2. ASSUME NEW i \in 0..N - 1, i \in H PROVE i + 1 \in H
    <3>1. i + 1 \in 0..N /\ i + 1 # 0 /\ (i + 1) - 1 = i
      BY <1>0
    <3>2. g[i + 1] = IF g[i].at \notin G THEN g[i] ELSE Onward(t, p, g[i])
      BY <1>13, <3>1
    <3>3. g[i].at \in G => Onward(t, p, g[i]) \in Spots
      BY <2>2, OnwardIs
    <3> QED
      BY <2>2, <3>1, <3>2, <3>3
  <2> HIDE DEF H
  <2>3. \A i \in 0..N : i \in H
    BY <2>1, <2>2, <1>0, UpTo
  <2> QED
    BY <2>3 DEF H
<1>15. g \in [0..N -> Spots]
  BY <1>12, <1>14
<1>16. \A i \in 1..N : g[i] = IF g[i - 1].at \in G THEN Onward(t, p, g[i - 1]) ELSE g[i - 1]
  <2>1. \A i \in 1..N : i \in 0..N /\ i # 0
    BY <1>0
  <2> QED
    BY <1>13, <2>1
<1>17. g[0] = x0
  BY <1>0, <1>13
<1>18. Passed(t, p, G, g)
  BY <1>15, <1>16, <1>17 DEF Passed, x0
<1> QED
  BY <1>11, <1>18

\* A descent in steps: it stays in the tree, goes on while it is in G, and stops
\* for good when it is not, within as many steps as there are nodes.
LEMMA StepsAre ==
    ASSUME NEW t, NEW S, NEW a, Shape(t.head, t.node, S, a), NEW p \in Strings, NEW G \in SUBSET Nodes,
           NEW f, Passed(t, p, G, f)
    PROVE  /\ \A i \in 0..N : f[i].at \in S \cup {Null}
           /\ \A i \in 0..N - 1 : f[i].at \in G => f[i + 1] = Onward(t, p, f[i])
           /\ \A i \in 0..N - 1 : f[i].at \notin G => f[i + 1] = f[i]
           /\ \A i \in 0..N : f[i].at \notin G => f[N] = f[i]
           /\ f[N].at \notin G
<1>0. N \in Nat /\ 0 \in 0..N /\ N \in 0..N
  BY NodesAre
<1>1. t.node \in [Nodes -> PNodes] /\ S \in SUBSET Nodes /\ t.head \in S \cup {Null}
  BY DEF Shape
<1>2. \A i \in 0..N - 1 : i + 1 \in 1..N /\ (i + 1) - 1 = i
  BY <1>0
<1>3. /\ \A i \in 0..N - 1 : f[i].at \in G => f[i + 1] = Onward(t, p, f[i])
      /\ \A i \in 0..N - 1 : f[i].at \notin G => f[i + 1] = f[i]
  BY <1>2 DEF Passed
<1>4. Null \notin G
  BY NodesAre
<1>5. ASSUME NEW n \in S PROVE Toward(t, n, p) \in S \cup {Null}
  <2>1. Bit(p, t.node[n].len) \in {0, 1}
    BY <1>1, TowardIs
  <2> QED
    BY <2>1, ChildIs DEF Toward
<1>6. \A i \in 0..N : f[i].at \in S \cup {Null}
  <2> DEFINE H == {i \in 0..N : f[i].at \in S \cup {Null}}
  <2>1. 0 \in H
    BY <1>0, <1>1 DEF Passed
  <2>2. ASSUME NEW i \in 0..N - 1, i \in H PROVE i + 1 \in H
    <3>1. i + 1 \in 0..N
      BY <1>0
    <3>2. f[i].at \in S \cup {Null}
      BY <2>2
    <3>3. f[i].at \in G => f[i + 1].at \in S \cup {Null}
      BY <1>3, <1>4, <1>5, <3>2, OnwardAt
    <3>4. f[i].at \notin G => f[i + 1].at \in S \cup {Null}
      BY <1>3, <3>2
    <3> QED
      BY <3>1, <3>3, <3>4
  <2> HIDE DEF H
  <2>3. \A i \in 0..N : i \in H
    BY <2>1, <2>2, <1>0, UpTo
  <2> QED
    BY <2>3 DEF H
<1>7. ASSUME NEW i \in 0..N, f[i].at \notin G PROVE f[N] = f[i]
  <2> DEFINE H == {j \in 0..N : j >= i => f[j] = f[i]}
  <2>1. 0 \in H
    BY <1>0
  <2>2. ASSUME NEW j \in 0..N - 1, j \in H PROVE j + 1 \in H
    <3>1. j + 1 \in 0..N
      BY <1>0
    <3>2. CASE j >= i
      <4>1. f[j] = f[i]
        BY <2>2, <3>2
      <4>2. f[j + 1] = f[j]
        BY <1>3, <1>7, <4>1
      <4> QED
        BY <3>1, <4>1, <4>2
    <3>3. CASE ~ (j >= i)
      <4>1. j + 1 >= i => j + 1 = i
        BY <1>0, <3>3
      <4> QED
        BY <3>1, <4>1
    <3> QED
      BY <3>2, <3>3
  <2> HIDE DEF H
  <2>3. \A j \in 0..N : j \in H
    BY <2>1, <2>2, <1>0, UpTo
  <2>4. N \in H /\ N >= i
    BY <1>0, <2>3
  <2> QED
    BY <2>4 DEF H
<1>8. f[N].at \notin G
  <2>1. PICK D \in [S -> 0..(N - 1)] : \A m, n \in S : t.node[m].len < t.node[n].len => D[m] < D[n]
    BY <1>1, Depths
  <2> SUFFICES ASSUME f[N].at \in G PROVE FALSE
    OBVIOUS
  <2>2. \A i \in 0..N : f[i].at \in G
    BY <1>7
  <2>3. \A i \in 0..N : f[i].at \in S
    BY <1>4, <1>6, <2>2
  <2> DEFINE H == {i \in 0..N : D[f[i].at] >= i}
  <2>4. 0 \in H
    BY <1>0, <2>1, <2>3
  <2>5. ASSUME NEW i \in 0..N - 1, i \in H PROVE i + 1 \in H
    <3> DEFINE m == f[i].at
               n == f[i + 1].at
    <3>1. i \in 0..N /\ i + 1 \in 0..N
      BY <1>0
    <3>2. m \in S /\ n \in S
      BY <2>3, <3>1
    <3>3. n = Toward(t, m, p)
      BY <1>3, <2>2, <3>1, OnwardAt
    <3>4. Bit(p, t.node[m].len) \in {0, 1}
      BY <1>1, <3>2, TowardIs
    <3>5. n # Null
      BY <1>1, <3>2, NodesAre
    <3> HIDE DEF m, n
    <3>5a. n = t.node[m].child[Bit(p, t.node[m].len)]
      BY <3>3 DEF Toward
    <3>6. t.node[m].len < t.node[n].len
      BY <3>2, <3>4, <3>5, <3>5a, ChildIs
    <3>7. D[m] < D[n] /\ D[m] \in Nat /\ D[n] \in Nat
      BY <2>1, <3>2, <3>6, <1>0
    <3>8. D[m] >= i
      BY <2>5 DEF m
    <3>9. D[n] >= i + 1
      BY <3>1, <3>7, <3>8
    <3> QED
      BY <3>1, <3>9 DEF n
  <2> HIDE DEF H
  <2>6. \A i \in 0..N : i \in H
    BY <2>4, <2>5, <1>0, UpTo
  <2>7. D[f[N].at] >= N
    BY <1>0, <2>6 DEF H
  <2>8. D[f[N].at] \in 0..(N - 1)
    BY <1>0, <2>1, <2>3
  <2> QED
    BY <1>0, <2>7, <2>8
<1> QED
  BY <1>3, <1>6, <1>7, <1>8

\* The same as a set: V are the nodes on the way, e the end of it.
Way(t, S, p, G, V, e) ==
    /\ V \subseteq S /\ e \in V \cup {Null} /\ e \notin G
    /\ t.head # Null => t.head \in V
    /\ \A v \in V : v \notin G => v = e
    /\ \A v \in V : v \in G => Toward(t, v, p) \in V \cup {Null}
    /\ \A v \in V : v \in G /\ Toward(t, v, p) = Null => e = Null
    /\ \A v \in V : v # t.head => /\ t.node[v].parent \in V \cap G
                                  /\ Toward(t, t.node[v].parent, p) = v

\* The nodes a descent comes by, and where it ends, are a way through the tree.
LEMMA WayIs ==
    ASSUME NEW t, NEW S, NEW a, Shape(t.head, t.node, S, a), NEW p \in Strings, NEW G \in SUBSET Nodes,
           NEW f, Passed(t, p, G, f)
    PROVE  Way(t, S, p, G, {f[i].at : i \in 0..N} \ {Null}, f[N].at)
<1> DEFINE V == {f[i].at : i \in 0..N} \ {Null}
           e == f[N].at
<1>0. N \in Nat /\ 0 \in 0..N /\ N \in 0..N
  BY NodesAre
<1>1. t.node \in [Nodes -> PNodes] /\ S \in SUBSET Nodes /\ Null \notin G
  BY NodesAre DEF Shape
<1>2. /\ \A i \in 0..N : f[i].at \in S \cup {Null}
      /\ \A i \in 0..N - 1 : f[i].at \in G => f[i + 1] = Onward(t, p, f[i])
      /\ \A i \in 0..N - 1 : f[i].at \notin G => f[i + 1] = f[i]
      /\ \A i \in 0..N : f[i].at \notin G => f[N] = f[i]
      /\ f[N].at \notin G
  BY StepsAre, Zenon
<1>3. V \subseteq S /\ e \in V \cup {Null} /\ e \notin G
  BY <1>0, <1>2
<1>4. t.head # Null => t.head \in V
  <2>1. f[0].at = t.head
    BY DEF Passed
  <2> QED
    BY <1>0, <2>1
<1>5. \A v \in V : v \notin G => v = e
  BY <1>2
<1>6. ASSUME NEW v \in V, v \in G
      PROVE  Toward(t, v, p) \in V \cup {Null} /\ (Toward(t, v, p) = Null => e = Null)
  <2>1. PICK i \in 0..N : v = f[i].at
    OBVIOUS
  <2>2. i # N
    BY <1>2, <1>6, <2>1
  <2>3. i \in 0..N - 1 /\ i + 1 \in 0..N
    BY <1>0, <2>2
  <2>4. f[i + 1].at = Toward(t, v, p)
    BY <1>2, <1>6, <2>1, <2>3, OnwardAt
  <2>5. f[i + 1].at = Null => f[N] = f[i + 1]
    BY <1>1, <1>2, <2>3
  <2> QED
    BY <2>3, <2>4, <2>5
<1>7. ASSUME NEW v \in V, v # t.head
      PROVE  t.node[v].parent \in V \cap G /\ Toward(t, t.node[v].parent, p) = v
  <2> DEFINE T == {i \in 0..N : f[i].at = v}
             k == Min(T)
  <2>1. T \in SUBSET Nat /\ T # {}
    OBVIOUS
  <2>2. k \in T /\ \A x \in T : k <= x
    BY <2>1, MinIsLeast
  <2> HIDE DEF k
  <2>3. k \in 0..N /\ f[k].at = v
    BY <2>2
  <2>4. k # 0
    BY <1>7, <2>3 DEF Passed
  <2>5. k - 1 \in 0..N - 1 /\ k - 1 \in 0..N /\ (k - 1) + 1 = k /\ ~ (k <= k - 1)
    BY <1>0, <2>3, <2>4
  <2>6. f[k - 1].at # v
    BY <2>2, <2>5
  <2> DEFINE q == f[k - 1].at
  <2>7. q \in G /\ Toward(t, q, p) = v
    <3>1. q \notin G => f[k] = f[k - 1]
      BY <1>2, <2>5
    <3>2. q \in G => f[k] = Onward(t, p, f[k - 1])
      BY <1>2, <2>5
    <3>3. q \in G
      BY <2>3, <2>6, <3>1
    <3> QED
      BY <2>3, <3>2, <3>3, OnwardAt
  <2>8. q \in V /\ q \in S
    BY <1>1, <1>2, <2>5, <2>7
  <2> HIDE DEF q
  <2>9. Bit(p, t.node[q].len) \in {0, 1} /\ v # Null
    BY <1>1, <2>8, TowardIs
  <2>10. t.node[v].parent = q
    BY <2>7, <2>8, <2>9, ChildIs DEF Toward
  <2> QED
    BY <2>7, <2>8, <2>10
<1> HIDE DEF V, e
<1>8. Way(t, S, p, G, V, e)
  BY <1>3, <1>4, <1>5, <1>6, <1>7 DEF Way
<1> QED
  BY <1>8 DEF V, e

\* A descent takes a way through the tree.
LEMMA DescentWay ==
    ASSUME NEW t, NEW S, NEW a, Shape(t.head, t.node, S, a), NEW p \in Strings, NEW G \in SUBSET Nodes
    PROVE  \E V : Way(t, S, p, G, V, Descent(t, p, G).at)
<1>1. t.node \in [Nodes -> PNodes] /\ t.head \in Nodes \cup {Null}
  BY DEF Shape
<1>2. PICK f : Passed(t, p, G, f) /\ Descent(t, p, G) = f[N]
  BY <1>1, DescentIs
<1> QED
  BY <1>2, WayIs

\* The way goes on at nodes of less than k bits that stand for the first bits of p,
\* if there is where to go.
GoesOn(t, a, p, G, V, k) ==
    \A v \in V : t.node[v].len < k /\ Agree(a[v], p, t.node[v].len) /\ Toward(t, v, p) # Null => v \in G

\* A node that stands for the first bits of p is on the way, if the way goes on
\* at those that are shorter.
LEMMA OnTheWay ==
    ASSUME NEW t, NEW S, NEW a, Shape(t.head, t.node, S, a), NEW p \in Strings, NEW G \in SUBSET Nodes,
           NEW V, NEW e, Way(t, S, p, G, V, e),
           NEW w \in S, Agree(a[w], p, t.node[w].len),
           GoesOn(t, a, p, G, V, t.node[w].len)
    PROVE  w \in V
<1> DEFINE Out == {v \in S : /\ v \notin V /\ Agree(a[v], p, t.node[v].len)
                             /\ t.node[v].len <= t.node[w].len}
           L == {t.node[v].len : v \in Out}
           k == Min(L)
<1> SUFFICES ASSUME w \notin V PROVE FALSE
  OBVIOUS
<1>1. t.node \in [Nodes -> PNodes] /\ S \in SUBSET Nodes
  BY DEF Shape
<1>2. \A v \in S : t.node[v].len \in Nat
  BY <1>1, NodeIs
<1>3. L \in SUBSET Nat /\ L # {}
  <2>1. w \in Out
    BY <1>2
  <2>2. t.node[w].len \in L
    BY <2>1
  <2> QED
    BY <1>2, <2>2
<1>4. k \in L /\ \A x \in L : k <= x
  BY <1>3, MinIsLeast
<1> HIDE DEF k
<1>5. PICK v \in Out : t.node[v].len = k
  BY <1>4
<1>6. /\ v \in S /\ v \notin V /\ Agree(a[v], p, t.node[v].len) /\ t.node[v].len <= t.node[w].len
      /\ v # Null
  BY <1>1, NodesAre
<1>7. v # t.head
  BY <1>6 DEF Way
<1> DEFINE q == t.node[v].parent
<1>8. /\ q \in S /\ t.node[q].len \in Nat /\ t.node[q].len < t.node[v].len
      /\ t.node[q].child[Bit(a[v], t.node[q].len)] = v
      /\ Agree(a[v], a[q], t.node[q].len)
  BY <1>6, <1>7, ParentIs
<1> HIDE DEF q
<1>9. t.node[v].len \in Nat /\ t.node[w].len \in Nat
  BY <1>2, <1>6
<1>10. Agree(a[q], p, t.node[q].len)
  <2>1. Agree(a[q], a[v], t.node[q].len)
    BY <1>8, Agreement
  <2>2. Agree(p, a[v], t.node[v].len)
    BY <1>6, Agreement
  <2>3. Agree(p, a[q], t.node[q].len)
    <3>1. t.node[q].len <= t.node[v].len
      BY <1>8, <1>9
    <3> QED
      BY <1>8, <1>9, <2>2, <3>1, Agreement
  <2> QED
    BY <2>3, Agreement
<1>11. q \in V
  <2> SUFFICES ASSUME q \notin V PROVE FALSE
    OBVIOUS
  <2>1. q \in Out
    BY <1>6, <1>8, <1>9, <1>10
  <2>2. k <= t.node[q].len
    BY <1>4, <2>1
  <2> QED
    BY <1>5, <1>8, <1>9, <2>2
<1>12. Toward(t, q, p) = v
  <2>1. Bit(a[v], t.node[q].len) = Bit(p, t.node[q].len)
    BY <1>6, <1>8, <1>9, Agreement
  <2> QED
    BY <1>8, <2>1 DEF Toward
<1>13. q \in G
  <2>1. t.node[q].len < t.node[w].len
    BY <1>6, <1>8, <1>9
  <2> QED
    BY <1>6, <1>10, <1>11, <1>12, <2>1 DEF GoesOn
<1>14. v \in V \cup {Null}
  BY <1>11, <1>12, <1>13 DEF Way
<1> QED
  BY <1>6, <1>14
-----------------------------------------------------------------------------
(* What is stored, and how it is found *)
LEMMA PrefixIs ==
    ASSUME NEW p \in Prefixes
    PROVE  p \in Strings /\ Len(p) \in 0..MaxBitLen
<1>1. PICK k \in 0..MaxBitLen : p \in [1..k -> {0, 1}]
  BY TrieAssumption
<1>2. k \in Nat
  BY TrieAssumption
<1>3. p \in Seq({0, 1})
  BY <1>1, <1>2, SeqDef
<1>4. Len(p) = k
  BY <1>1, <1>2, <1>3, LenProperties
<1> QED
  BY <1>3, <1>4 DEF Strings

\* The search for the bits of a node ends at it.
LEMMA SearchEnds ==
    ASSUME NEW t, NEW S, NEW a, Shape(t.head, t.node, S, a), NEW n \in S
    PROVE  Descent(t, a[n], Shorter(t, a[n])).at = n
<1> DEFINE p == a[n]
           G == Shorter(t, p)
           e == Descent(t, p, G).at
<1>1. p \in Strings /\ Len(p) = t.node[n].len
  BY DEF Shape, Named
<1>2. G \in SUBSET Nodes
  BY DEF Shorter
<1>3. PICK V : Way(t, S, p, G, V, e)
  BY <1>1, <1>2, DescentWay
<1>4. S \subseteq Nodes /\ t.node \in [Nodes -> PNodes] /\ t.node[n].len \in Nat
  BY NodeIs DEF Shape
<1>5. Agree(a[n], p, t.node[n].len)
  BY Agreement
<1>6. \A v \in V : t.node[v].len < t.node[n].len => v \in G
  <2>1. V \subseteq Nodes
    BY <1>3, <1>4 DEF Way
  <2> QED
    BY <1>1, <2>1 DEF Shorter
<1>7. n \notin G
  BY <1>1, <1>4 DEF Shorter
<1> HIDE DEF p, G, e
<1>6a. GoesOn(t, a, p, G, V, t.node[n].len)
  BY <1>6 DEF GoesOn
<1>8. n \in V
  BY <1>1, <1>2, <1>3, <1>5, <1>6a, OnTheWay, Zenon
<1>9. n = e
  BY <1>3, <1>7, <1>8 DEF Way
<1> QED
  BY <1>9 DEF p, G, e

\* No two nodes stand for the same bits.
LEMMA BitsTellApart ==
    ASSUME NEW t, NEW S, NEW a, Shape(t.head, t.node, S, a), NEW m \in S, NEW n \in S, a[m] = a[n]
    PROVE  m = n
  BY SearchEnds

Plains(t, S) == {n \in S : ~t.node[n].glue}

\* The prefixes stored are the bits of the plain nodes of the tree.
LEMMA StoredIs ==
    ASSUME NEW t, NEW S, NEW a, Shape(t.head, t.node, S, a)
    PROVE  /\ Stored(t) = {a[n] : n \in Plains(t, S)}
           /\ Stored(t) \subseteq Prefixes
<1>1. InTree(t) = S
  BY TreeIsInTree
<1>2. \A n \in Plains(t, S) : t.node[n].addr = a[n] /\ a[n] \in Prefixes
  BY DEF Shape, Named, Plains
<1>3. Stored(t) = {t.node[n].addr : n \in Plains(t, S)}
  BY <1>1 DEF Stored, Plains
<1> QED
  BY <1>2, <1>3

\* The exact search returns the node of the prefix, and no other.
LEMMA SearchExactIs ==
    ASSUME NEW t, NEW S, NEW a, Shape(t.head, t.node, S, a), NEW p \in Strings
    PROVE  /\ \A n \in Plains(t, S) : a[n] = p => SearchExact(t, p) = n
           /\ SearchExact(t, p) # Null =>
                 SearchExact(t, p) \in Plains(t, S) /\ a[SearchExact(t, p)] = p
<1> DEFINE e == Descent(t, p, Shorter(t, p)).at
           found == e # Null /\ t.node[e].len = Len(p) /\ ~t.node[e].glue /\ Match(t, e, p, Len(p))
<1>1. SearchExact(t, p) = IF found THEN e ELSE Null
  BY DEF SearchExact
<1>2. ASSUME NEW n \in Plains(t, S), a[n] = p
      PROVE  SearchExact(t, p) = n
  <2>1. n \in S /\ ~t.node[n].glue
    BY DEF Plains
  <2>2. e = n
    BY <1>2, <2>1, SearchEnds
  <2>3. t.node[n].addr = a[n] /\ Len(a[n]) = t.node[n].len /\ n # Null
    BY <2>1, NodesAre DEF Shape, Named
  <2>4. Match(t, n, p, Len(p))
    BY <1>2, <2>3 DEF Match
  <2> HIDE DEF e
  <2> QED
    BY <1>1, <1>2, <2>1, <2>2, <2>3, <2>4
<1>3. ASSUME found
      PROVE  e \in Plains(t, S) /\ a[e] = p
  <2>1. Shorter(t, p) \in SUBSET Nodes
    BY DEF Shorter
  <2>2. PICK V : Way(t, S, p, Shorter(t, p), V, e)
    BY <2>1, DescentWay
  <2>3. e \in S
    BY <1>3, <2>2 DEF Way
  <2> HIDE DEF e
  <2>4. a[e] \in Strings /\ Len(a[e]) = t.node[e].len /\ t.node[e].addr = a[e]
    BY <1>3, <2>3 DEF Shape, Named
  <2>5. Agree(a[e], p, Len(p))
    BY <1>3, <2>4 DEF Match, Agree
  <2>6. a[e] = p
    BY <1>3, <2>4, <2>5, SameString
  <2> QED
    BY <1>3, <2>3, <2>6 DEF Plains
<1> HIDE DEF e
<1> QED
  BY <1>1, <1>2, <1>3

\* Below every node, or at it, is a plain node.
LEMMA PlainBelow ==
    ASSUME NEW t, NEW S, NEW a, Shape(t.head, t.node, S, a), Forked(t.node, S), NEW c \in S
    PROVE  \E m \in Plains(t, S) : t.node[c].len <= t.node[m].len /\ Agree(a[m], a[c], t.node[c].len)
<1> DEFINE B == {m \in S : t.node[c].len <= t.node[m].len /\ Agree(a[m], a[c], t.node[c].len)}
           L == {t.node[m].len : m \in B}
<1>1. t.node \in [Nodes -> PNodes] /\ S \in SUBSET Nodes
  BY DEF Shape
<1>2. \A m \in S : t.node[m].len \in 0..MaxBitLen
  <2>1. \A m \in S : t.node[m].len \in Nat
    BY <1>1, NodeIs
  <2>2. \A m \in S : t.node[m].len <= MaxBitLen
    BY DEF Shape, Named
  <2> QED
    BY <2>1, <2>2, TrieAssumption
<1>3. c \in B
  BY <1>2, Agreement
<1>4. L \in SUBSET (0..MaxBitLen) /\ L # {}
  BY <1>2, <1>3
<1>5. PICK k \in L : \A x \in L : x <= k
  BY <1>4, Greatest, TrieAssumption
<1>6. PICK m \in B : t.node[m].len = k
  BY <1>5
<1>7. \A n \in B : t.node[n].len <= t.node[m].len
  BY <1>5, <1>6
<1>8. m \in S /\ t.node[c].len <= t.node[m].len /\ Agree(a[m], a[c], t.node[c].len)
  OBVIOUS
<1>9. ~t.node[m].glue
  <2> SUFFICES ASSUME t.node[m].glue PROVE FALSE
    OBVIOUS
  <2> DEFINE n == t.node[m].child[0]
  <2>1. n # Null
    BY <1>8 DEF Forked
  <2>2. n \in S /\ t.node[m].len < t.node[n].len /\ Agree(a[n], a[m], t.node[m].len)
    BY <1>8, <2>1, ChildIs
  <2> HIDE DEF n
  <2>3. t.node[c].len \in Nat /\ t.node[m].len \in Nat /\ t.node[n].len \in Nat
    BY <1>2, <1>8, <2>2
  <2>4. Agree(a[n], a[c], t.node[c].len)
    BY <1>8, <2>2, <2>3, Agreement
  <2>5. n \in B
    BY <1>8, <2>2, <2>3, <2>4
  <2> QED
    BY <1>7, <2>2, <2>3, <2>5
<1> QED
  BY <1>8, <1>9 DEF Plains
-----------------------------------------------------------------------------
(* Where an insertion looks for its place *)
GoesToPlace(t, p) == {n \in Nodes : /\ t.node[n].len < Len(p) \/ t.node[n].glue
                                    /\ Toward(t, n, p) # Null}

\* The descent ends at a plain node: glue always leads on.
LEMMA ReachedIs ==
    ASSUME NEW t, NEW S, NEW a, Shape(t.head, t.node, S, a), Forked(t.node, S), t.head # Null,
           NEW p \in Strings
    PROVE  /\ \E V : Way(t, S, p, GoesToPlace(t, p), V, Reached(t, p)) /\ Reached(t, p) \in V
           /\ Reached(t, p) \in Plains(t, S)
           /\ t.node[Reached(t, p)].len < Len(p) => Toward(t, Reached(t, p), p) = Null
<1> DEFINE G == GoesToPlace(t, p)
           r == Reached(t, p)
<1>1. r = Descent(t, p, G).at
  BY DEF Reached, GoesToPlace
<1>2. G \in SUBSET Nodes
  BY DEF GoesToPlace
<1>3. PICK V : Way(t, S, p, G, V, r)
  BY <1>1, <1>2, DescentWay
<1>4. t.node \in [Nodes -> PNodes] /\ S \in SUBSET Nodes /\ V \subseteq S
  BY <1>3 DEF Shape, Way
<1>5. \A v \in V : t.node[v].len \in 0..MaxBitLen
  <2>1. \A v \in V : t.node[v].len \in Nat
    BY <1>4, NodeIs
  <2>2. \A v \in V : t.node[v].len <= MaxBitLen
    BY <1>4 DEF Shape, Named
  <2> QED
    BY <2>1, <2>2, TrieAssumption
<1> HIDE DEF r
<1>6. r # Null
  <2> SUFFICES ASSUME r = Null PROVE FALSE
    OBVIOUS
  <2>1. \A v \in V : v \in G
    BY <1>3, <1>4, NodesAre DEF Way
  <2>2. \A v \in V : Toward(t, v, p) \in V
    BY <1>3, <1>4, <2>1 DEF Way, GoesToPlace
  <2> DEFINE L == {t.node[v].len : v \in V}
  <2>3. L \in SUBSET (0..MaxBitLen) /\ L # {}
    BY <1>3, <1>5 DEF Way
  <2>4. PICK k \in L : \A x \in L : x <= k
    BY <2>3, Greatest, TrieAssumption
  <2>5. PICK v \in V : t.node[v].len = k
    BY <2>4
  <2> DEFINE w == Toward(t, v, p)
  <2>6. w \in V /\ v \in S /\ w # Null
    BY <1>4, <2>2, NodesAre
  <2>7. Bit(p, t.node[v].len) \in {0, 1} /\ w = t.node[v].child[Bit(p, t.node[v].len)]
    BY <1>4, <2>6, TowardIs DEF Toward
  <2> HIDE DEF w
  <2>8. t.node[v].len < t.node[w].len
    BY <2>6, <2>7, ChildIs
  <2>9. t.node[w].len \in L
    BY <2>6
  <2>10. t.node[w].len <= t.node[v].len
    BY <2>4, <2>5, <2>9
  <2>11. t.node[w].len \in Nat /\ t.node[v].len \in Nat
    BY <1>5, <2>6
  <2> QED
    BY <2>8, <2>10, <2>11
<1>7. r \in V /\ r \in S /\ r \notin G /\ r \in Nodes
  BY <1>3, <1>4, <1>6 DEF Way
<1>8. ~t.node[r].glue
  <2> SUFFICES ASSUME t.node[r].glue PROVE FALSE
    OBVIOUS
  <2>1. Bit(p, t.node[r].len) \in {0, 1}
    BY <1>4, <1>7, TowardIs
  <2>2. Toward(t, r, p) # Null
    BY <1>7, <2>1 DEF Forked, Toward
  <2> QED
    BY <1>7, <2>2 DEF GoesToPlace
<1>9. t.node[r].len < Len(p) => Toward(t, r, p) = Null
  BY <1>7 DEF GoesToPlace
<1> QED
  BY <1>3, <1>7, <1>8, <1>9 DEF r, Plains

\* The first bit in which p and a plain node differ.
LEMMA DifferBitIs ==
    ASSUME NEW t, NEW S, NEW a, Shape(t.head, t.node, S, a), NEW r \in Plains(t, S), NEW p \in Strings
    PROVE  LET d == DifferBit(t, r, p)
           IN  /\ d \in Nat /\ d <= t.node[r].len /\ d <= Len(p)
               /\ Agree(a[r], p, d)
               /\ d < t.node[r].len /\ d < Len(p) => Bit(a[r], d) # Bit(p, d)
<1> DEFINE x == t.node[r].len
           y == Len(p)
           c == Min({x, y})
           Differs == {i \in 0..(c - 1) : Bit(t.node[r].addr, i) # Bit(p, i)}
           d == Min({c} \cup Differs)
<1>1. /\ r \in S /\ ~t.node[r].glue /\ t.node[r].addr = a[r]
      /\ x \in Nat /\ y \in Nat
  <2>1. r \in S /\ ~t.node[r].glue /\ r \in Nodes /\ t.node \in [Nodes -> PNodes]
    BY DEF Plains, Shape
  <2>2. t.node[r].addr = a[r]
    BY <2>1 DEF Shape, Named
  <2> QED
    BY <2>1, <2>2, NodeIs, BitIs
<1>2. c \in Nat /\ c <= x /\ c <= y /\ (c = x \/ c = y)
  <2>1. {x, y} \in SUBSET Nat /\ {x, y} # {}
    BY <1>1
  <2> HIDE DEF x, y
  <2>2. c \in {x, y} /\ \A z \in {x, y} : c <= z
    BY <2>1, MinIsLeast
  <2> QED
    BY <2>1, <2>2
<1> HIDE DEF c
<1>3. d \in {c} \cup Differs /\ \A z \in {c} \cup Differs : d <= z
  <2>1. {c} \cup Differs \in SUBSET Nat /\ {c} \cup Differs # {}
    BY <1>2
  <2> HIDE DEF Differs
  <2> QED
    BY <2>1, MinIsLeast
<1>4. d = DifferBit(t, r, p)
  BY DEF DifferBit, c
<1> HIDE DEF d, x, y
<1>5. d \in Nat /\ d <= c
  BY <1>2, <1>3
<1>6. Agree(a[r], p, d)
  <2> SUFFICES ASSUME NEW i \in 0..(d - 1) PROVE Bit(a[r], i) = Bit(p, i)
    BY DEF Agree
  <2>1. i \in 0..(c - 1) /\ ~ (d <= i)
    BY <1>2, <1>5
  <2>2. i \notin Differs
    BY <1>3, <2>1
  <2> QED
    BY <1>1, <2>1, <2>2
<1>7. d < x /\ d < y => Bit(a[r], d) # Bit(p, d)
  <2> SUFFICES ASSUME d < x, d < y PROVE Bit(a[r], d) # Bit(p, d)
    OBVIOUS
  <2>1. d # c
    BY <1>2
  <2>2. d \in Differs
    BY <1>3, <2>1
  <2> QED
    BY <1>1, <2>2
<1>8. d <= x /\ d <= y
  BY <1>1, <1>2, <1>5
<1> QED
  BY <1>4, <1>5, <1>6, <1>7, <1>8 DEF x, y

\* Climbed, as the recursion it is.
Climbs(t, n, d, f) ==
    f = [i \in 0..Cardinality(Nodes) |->
            IF i = 0 THEN n
            ELSE LET m == f[i - 1]
                     parent == t.node[m].parent
                 IN  IF parent # Null /\ t.node[parent].len >= d THEN parent ELSE m]

Higher(t, m, d) == t.node[m].parent # Null /\ t.node[t.node[m].parent].len >= d

\* A climb is the last of its steps, each to the parent while that is long enough.
LEMMA ClimbedBy ==
    ASSUME NEW t, t.node \in [Nodes -> PNodes], NEW n \in Nodes, NEW d
    PROVE  \E f : /\ Climbed(t, n, d) = f[N] /\ f[0] = n
                  /\ \A i \in 0..N : f[i] \in Nodes
                  /\ \A i \in 0..N - 1 :
                        f[i + 1] = IF Higher(t, f[i], d) THEN t.node[f[i]].parent ELSE f[i]
<1> DEFINE step == [m \in Nodes |-> IF Higher(t, m, d) THEN t.node[m].parent ELSE m]
<1>0. N \in Nat /\ 0 \in 0..N
  BY NodesAre
<1>1. ASSUME NEW m \in Nodes, Higher(t, m, d) PROVE t.node[m].parent \in Nodes
  BY <1>1, NodeIs DEF Higher
<1>2. step \in [Nodes -> Nodes]
  BY <1>1
<1>3. \A m \in Nodes : step[m] = IF Higher(t, m, d) THEN t.node[m].parent ELSE m
  OBVIOUS
<1> HIDE DEF step
<1>4. PICK f : Runs(f, N, Nodes, n, step)
  BY <1>0, <1>2, Iterates, Zenon
<1>5. f \in [0..N -> Nodes] /\ f = [i \in 0..N |-> IF i = 0 THEN n ELSE step[f[i - 1]]]
  BY <1>4 DEF Runs
<1>6. \A i \in 0..N : i # 0 => f[i - 1] \in Nodes
  <2>1. \A i \in 0..N : i # 0 => i - 1 \in 0..N
    BY <1>0
  <2> QED
    BY <1>5, <2>1
<1>7. \A i \in 0..N : i # 0 =>
         step[f[i - 1]] = IF Higher(t, f[i - 1], d) THEN t.node[f[i - 1]].parent ELSE f[i - 1]
  BY <1>3, <1>6
<1>8. f = [i \in 0..N |-> IF i = 0 THEN n
                          ELSE IF Higher(t, f[i - 1], d) THEN t.node[f[i - 1]].parent ELSE f[i - 1]]
  BY <1>5, <1>7
<1>9. Climbs(t, n, d, f)
  BY <1>8 DEF Climbs, N, Higher
<1> DEFINE g == CHOOSE g : Climbs(t, n, d, g)
<1>10. Climbs(t, n, d, g)
  BY <1>9
<1>11. Climbed(t, n, d) = g[N]
  BY Zenon DEF Climbed, Climbs, N
<1> HIDE DEF g
<1>12. g = [i \in 0..N |-> IF i = 0 THEN n
                          ELSE IF Higher(t, g[i - 1], d) THEN t.node[g[i - 1]].parent ELSE g[i - 1]]
  BY <1>10 DEF Climbs, N, Higher
<1>13. \A i \in 0..N : g[i] = IF i = 0 THEN n
                          ELSE IF Higher(t, g[i - 1], d) THEN t.node[g[i - 1]].parent ELSE g[i - 1]
  BY <1>12, Zenon
<1>14. \A i \in 0..N - 1 :
          g[i + 1] = IF Higher(t, g[i], d) THEN t.node[g[i]].parent ELSE g[i]
  <2>1. \A i \in 0..N - 1 : i + 1 \in 0..N /\ i + 1 # 0 /\ (i + 1) - 1 = i
    BY <1>0
  <2> QED
    BY <1>13, <2>1
<1>15. g[0] = n
  BY <1>0, <1>13
<1>16. \A i \in 0..N : g[i] \in Nodes
  <2> DEFINE H == {i \in 0..N : g[i] \in Nodes}
  <2>1. 0 \in H
    BY <1>0, <1>15
  <2>2. ASSUME NEW i \in 0..N - 1, i \in H PROVE i + 1 \in H
    <3>1. i + 1 \in 0..N
      BY <1>0
    <3> QED
      BY <1>1, <1>14, <2>2, <3>1
  <2> HIDE DEF H
  <2>3. \A i \in 0..N : i \in H
    BY <2>1, <2>2, <1>0, UpTo
  <2> QED
    BY <2>3 DEF H
<1> QED
  BY <1>11, <1>14, <1>15, <1>16

\* What the climb keeps: m is on the way to r, and not above bit d.
Rises(t, a, p, V, r, d, m) ==
    /\ m \in V /\ d <= t.node[m].len /\ Agree(a[r], a[m], t.node[m].len)
    /\ m # r => /\ t.node[m].len < t.node[r].len
                /\ Bit(a[r], t.node[m].len) = Bit(p, t.node[m].len)

\* One step up stays on the way down, and gets shorter.
LEMMA RisesOn ==
    ASSUME NEW t, NEW S, NEW a, Shape(t.head, t.node, S, a), NEW p \in Strings, NEW G \in SUBSET Nodes,
           NEW V, NEW r \in V, Way(t, S, p, G, V, r), NEW d \in Nat,
           NEW m, Rises(t, a, p, V, r, d, m), Higher(t, m, d)
    PROVE  /\ Rises(t, a, p, V, r, d, t.node[m].parent)
           /\ t.node[t.node[m].parent].len < t.node[m].len
<1> DEFINE q == t.node[m].parent
           b == Bit(p, t.node[q].len)
<1>1. V \subseteq S /\ S \subseteq Nodes /\ t.node \in [Nodes -> PNodes]
  BY DEF Way, Shape
<1>2. m \in S /\ m \in V /\ r \in S
  BY <1>1 DEF Rises
<1>3. m # t.head
  BY <1>2 DEF Shape, Hangs, Higher
<1>4. q \in V /\ q \in S /\ Toward(t, q, p) = m
  BY <1>1, <1>2, <1>3 DEF Way
<1>5. /\ t.node[q].len \in Nat /\ t.node[m].len \in Nat /\ t.node[r].len \in Nat
  BY <1>1, <1>2, <1>4, NodeIs
<1>6. d <= t.node[q].len
  BY <1>5 DEF Higher
<1>7. b \in {0, 1} /\ t.node[q].child[b] = m /\ m # Null
  BY <1>1, <1>2, <1>4, TowardIs, NodesAre DEF Toward
<1> HIDE DEF b
<1>8. /\ t.node[q].len < t.node[m].len
      /\ Agree(a[m], a[q], t.node[q].len) /\ Bit(a[m], t.node[q].len) = b
  <2> HIDE DEF q
  <2> QED
    BY <1>4, <1>7, ChildIs
<1> HIDE DEF q
<1>9. Agree(a[r], a[m], t.node[m].len)
  BY DEF Rises
<1>10. Agree(a[r], a[q], t.node[q].len)
  BY <1>5, <1>8, <1>9, Agreement
<1>11. Bit(a[r], t.node[q].len) = Bit(a[m], t.node[q].len)
  BY <1>5, <1>8, <1>9, Agreement
<1>12. t.node[m].len <= t.node[r].len
  BY <1>5 DEF Rises
<1>13. t.node[q].len < t.node[r].len
  BY <1>5, <1>8, <1>12
<1> QED
  BY <1>4, <1>6, <1>8, <1>10, <1>11, <1>13 DEF Rises, b, q

\* A climb ends on the way down, at a node whose parent is shorter than d bits.
LEMMA ClimbedIs ==
    ASSUME NEW t, NEW S, NEW a, Shape(t.head, t.node, S, a), NEW p \in Strings, NEW G \in SUBSET Nodes,
           NEW V, NEW r \in V, Way(t, S, p, G, V, r), NEW d \in Nat, d <= t.node[r].len
    PROVE  /\ Rises(t, a, p, V, r, d, Climbed(t, r, d))
           /\ ~Higher(t, Climbed(t, r, d), d)
<1>0. N \in Nat /\ 0 \in 0..N /\ N \in 0..N
  BY NodesAre
<1>1. V \subseteq S /\ S \in SUBSET Nodes /\ t.node \in [Nodes -> PNodes] /\ r \in Nodes
  BY DEF Way, Shape
<1>2. PICK f : /\ Climbed(t, r, d) = f[N] /\ f[0] = r
               /\ \A i \in 0..N : f[i] \in Nodes
               /\ \A i \in 0..N - 1 :
                     f[i + 1] = IF Higher(t, f[i], d) THEN t.node[f[i]].parent ELSE f[i]
  BY <1>1, ClimbedBy
<1>3. \A i \in 0..N - 1 : i + 1 \in 0..N /\ i \in 0..N
  BY <1>0
<1>4. \A i \in 0..N : Rises(t, a, p, V, r, d, f[i])
  <2> DEFINE H == {i \in 0..N : Rises(t, a, p, V, r, d, f[i])}
  <2>1. 0 \in H
    <3>1. Agree(a[r], a[r], t.node[r].len)
      BY Agreement
    <3> QED
      BY <1>0, <1>2, <3>1 DEF Rises
  <2>2. ASSUME NEW i \in 0..N - 1, i \in H PROVE i + 1 \in H
    <3>1. Rises(t, a, p, V, r, d, f[i])
      BY <2>2
    <3>2. Rises(t, a, p, V, r, d, f[i + 1])
      <4>1. CASE Higher(t, f[i], d)
        <5>1. Rises(t, a, p, V, r, d, t.node[f[i]].parent)
          BY <3>1, <4>1, RisesOn
        <5> QED
          BY <1>2, <4>1, <5>1
      <4>2. CASE ~Higher(t, f[i], d)
        <5>1. f[i + 1] = f[i]
          BY <1>2, <4>2
        <5> QED
          BY <3>1, <5>1
      <4> QED
        BY <4>1, <4>2
    <3> QED
      BY <1>3, <3>2
  <2> HIDE DEF H
  <2>3. \A i \in 0..N : i \in H
    BY <2>1, <2>2, <1>0, UpTo
  <2> QED
    BY <2>3 DEF H
<1>5. PICK D \in [S -> 0..(N - 1)] : \A m, n \in S : t.node[m].len < t.node[n].len => D[m] < D[n]
  BY <1>1, Depths
<1>6. \A i \in 0..N : f[i] \in S
  BY <1>1, <1>4 DEF Rises
<1>7. \A i \in 0..N : ~Higher(t, f[i], d) \/ D[f[i]] + i <= D[r]
  <2> DEFINE H == {i \in 0..N : ~Higher(t, f[i], d) \/ D[f[i]] + i <= D[r]}
  <2>1. 0 \in H
    <3>1. D[r] \in Nat
      BY <1>0, <1>1, <1>5
    <3> QED
      BY <1>0, <1>2, <3>1
  <2>2. ASSUME NEW i \in 0..N - 1, i \in H PROVE i + 1 \in H
    <3>1. CASE ~Higher(t, f[i], d)
      <4>1. f[i + 1] = f[i]
        BY <1>2, <3>1
      <4> QED
        BY <1>3, <3>1, <4>1
    <3>2. CASE Higher(t, f[i], d)
      <4>1. D[f[i]] + i <= D[r]
        BY <2>2, <3>2
      <4>2. f[i + 1] = t.node[f[i]].parent
        BY <1>2, <3>2
      <4>3. Rises(t, a, p, V, r, d, f[i])
        BY <1>3, <1>4
      <4>4. t.node[f[i + 1]].len < t.node[f[i]].len
        BY <3>2, <4>2, <4>3, RisesOn
      <4>5. f[i] \in S /\ f[i + 1] \in S
        BY <1>3, <1>6
      <4>6. D[f[i + 1]] < D[f[i]]
        BY <1>5, <4>4, <4>5
      <4>7. D[f[i + 1]] \in Int /\ D[f[i]] \in Int /\ D[r] \in Int /\ i \in Int
        BY <1>0, <1>1, <1>5, <4>5
      <4>8. D[f[i + 1]] + (i + 1) <= D[r]
        BY <4>1, <4>6, <4>7
      <4> QED
        BY <1>3, <4>8
    <3> QED
      BY <3>1, <3>2
  <2> HIDE DEF H
  <2>3. \A i \in 0..N : i \in H
    BY <2>1, <2>2, <1>0, UpTo
  <2> QED
    BY <2>3 DEF H
<1>8. ~Higher(t, f[N], d)
  <2>1. D[f[N]] \in 0..(N - 1) /\ D[r] \in 0..(N - 1)
    BY <1>0, <1>1, <1>5, <1>6
  <2>2. ~ (D[f[N]] + N <= D[r])
    BY <1>0, <2>1
  <2> QED
    BY <1>0, <1>7, <2>2
<1> QED
  BY <1>0, <1>2, <1>4, <1>8

\* What an insertion finds, if no subnet of p is stored but p: p itself, or a node
\* that p hangs from, or one that p parts from behind bit d.
IsThere(t, S, a, p, n) == n \in Plains(t, S) /\ a[n] = p

HangsFrom(t, S, a, p, d, n) ==
    /\ d < Len(p) /\ p \notin Stored(t)
    /\ n \in S /\ t.node[n].len = d /\ Agree(a[n], p, d)
    /\ Toward(t, n, p) = Null

PartsFrom(t, S, a, p, d, n) ==
    /\ d < Len(p) /\ p \notin Stored(t)
    /\ n \in S /\ d < t.node[n].len /\ Agree(a[n], p, d) /\ Bit(a[n], d) # Bit(p, d)
    /\ t.node[n].parent # Null => t.node[t.node[n].parent].len < d

\* Where a prefix goes that has no subnets in the trie: it is there, it hangs from a
\* shorter node, or it parts from the node at bit d, which glue will be put above.
LEMMA PlaceIs ==
    ASSUME NEW t, NEW S, NEW a, Shape(t.head, t.node, S, a), Forked(t.node, S), t.head # Null,
           NEW p \in Strings, StrictSubnets(t, p) = {},
           NEW r, r = Reached(t, p), NEW d, d = DifferBit(t, r, p), NEW n, n = Climbed(t, r, d)
    PROVE  /\ d = Len(p) /\ t.node[n].len = Len(p) => IsThere(t, S, a, p, n)
           /\ d # Len(p) \/ t.node[n].len # Len(p) =>
                 IF t.node[n].len = d THEN HangsFrom(t, S, a, p, d, n)
                                      ELSE PartsFrom(t, S, a, p, d, n)
<1> DEFINE G == GoesToPlace(t, p)
<1>1. /\ r \in Plains(t, S)
      /\ t.node[r].len < Len(p) => Toward(t, r, p) = Null
  BY ReachedIs
<1>2. PICK V : Way(t, S, p, G, V, r) /\ r \in V
  BY ReachedIs
<1>3. /\ d \in Nat /\ d <= t.node[r].len /\ d <= Len(p)
      /\ Agree(a[r], p, d)
      /\ d < t.node[r].len /\ d < Len(p) => Bit(a[r], d) # Bit(p, d)
  BY <1>1, DifferBitIs
<1>4. G \in SUBSET Nodes
  BY DEF GoesToPlace
<1>5. Rises(t, a, p, V, r, d, n) /\ ~Higher(t, n, d)
  <2> HIDE DEF G
  <2> QED
    BY <1>2, <1>3, <1>4, ClimbedIs
<1>6. /\ V \subseteq S /\ S \in SUBSET Nodes /\ t.node \in [Nodes -> PNodes]
      /\ r \in S /\ ~t.node[r].glue
  BY <1>1, <1>2 DEF Way, Shape, Plains
<1>7. /\ n \in V /\ n \in S /\ d <= t.node[n].len /\ Agree(a[r], a[n], t.node[n].len)
      /\ n # r => /\ t.node[n].len < t.node[r].len
                  /\ Bit(a[r], t.node[n].len) = Bit(p, t.node[n].len)
  BY <1>5, <1>6 DEF Rises
<1>8. t.node[r].len \in Nat /\ t.node[n].len \in Nat /\ Len(p) \in Nat
  BY <1>6, <1>7, NodeIs, BitIs
<1>9. t.node[n].len <= t.node[r].len
  BY <1>7, <1>8
<1>10. /\ a[r] \in Strings /\ Len(a[r]) = t.node[r].len
       /\ a[n] \in Strings /\ Len(a[n]) = t.node[n].len
  BY <1>6, <1>7 DEF Shape, Named
<1>11. Agree(a[n], p, d)
  <2>1. Agree(a[n], a[r], t.node[n].len)
    BY <1>7, Agreement
  <2>2. Agree(p, a[r], d)
    BY <1>3, Agreement
  <2>3. Agree(a[r], a[n], t.node[n].len) /\ d <= t.node[n].len
    BY <1>7
  <2>4. Agree(a[r], a[n], d)
    <3>1. Agree(a[n], a[n], d)
      BY Agreement
    <3> QED
      BY <1>3, <1>8, <2>3, <3>1, Agreement
  <2>5. Agree(p, a[n], d)
    BY <1>3, <2>2, <2>4, Agreement
  <2> QED
    BY <2>5, Agreement
<1>12. ASSUME d = Len(p) PROVE a[r] = p
  <2>1. a[r] \in Stored(t)
    BY <1>1, StoredIs
  <2>2. Covers(p, a[r])
    <3>1. \A i \in 1..Len(p) : i - 1 \in 0..(d - 1) /\ i - 1 < Len(p) /\ i - 1 < Len(a[r]) /\ (i - 1) + 1 = i
      BY <1>3, <1>8, <1>10, <1>12
    <3>2. \A i \in 1..Len(p) : Bit(a[r], i - 1) = Bit(p, i - 1)
      BY <1>3, <3>1 DEF Agree
    <3>3. \A i \in 1..Len(p) : p[i] = a[r][i]
      BY <3>1, <3>2 DEF Bit
    <3>4. Len(p) <= Len(a[r])
      BY <1>3, <1>10, <1>12
    <3> QED
      BY <3>3, <3>4 DEF Covers
  <2> QED
    BY <2>1, <2>2 DEF StrictSubnets
<1>13. ASSUME d = Len(p), t.node[n].len = Len(p) PROVE IsThere(t, S, a, p, n)
  <2>1. a[r] = p
    BY <1>12, <1>13
  <2>2. n = r
    BY <1>7, <1>8, <1>10, <1>13, <2>1
  <2> QED
    BY <1>1, <2>1, <2>2 DEF IsThere
<1>14. ASSUME d # Len(p) \/ t.node[n].len # Len(p) PROVE d < Len(p)
  <2> SUFFICES ASSUME d = Len(p) PROVE FALSE
    BY <1>3, <1>8
  <2>1. a[r] = p
    BY <1>12
  <2> QED
    BY <1>7, <1>8, <1>9, <1>10, <1>14, <2>1
<1>15. ASSUME d < Len(p) PROVE p \notin Stored(t)
  <2> SUFFICES ASSUME p \in Stored(t) PROVE FALSE
    OBVIOUS
  <2>1. PICK m \in Plains(t, S) : a[m] = p
    BY StoredIs
  <2>2. m \in S /\ m \in Nodes /\ ~t.node[m].glue /\ t.node[m].len = Len(p)
    BY <1>6, <2>1 DEF Plains, Shape, Named
  <2>3. GoesOn(t, a, p, G, V, t.node[m].len)
    BY <1>6, <2>2 DEF GoesOn, GoesToPlace
  <2>4. Agree(a[m], p, t.node[m].len)
    BY <2>1, Agreement
  <2>5. m \notin G
    BY <1>8, <2>2 DEF GoesToPlace
  <2> HIDE DEF G
  <2>6. m \in V
    BY <1>2, <1>4, <2>2, <2>3, <2>4, OnTheWay
  <2>7. m = r
    BY <1>2, <2>5, <2>6 DEF Way
  <2>8. Bit(a[r], d) # Bit(p, d)
    BY <1>3, <1>15, <2>2, <2>7
  <2> QED
    BY <2>1, <2>7, <2>8
<1>16. ASSUME d < Len(p), t.node[n].len = d PROVE Toward(t, n, p) = Null
  <2>1. n = r
    BY <1>3, <1>7, <1>8, <1>16
  <2> QED
    BY <1>1, <1>16, <2>1
<1>17. ASSUME d < Len(p), t.node[n].len # d
       PROVE  d < t.node[n].len /\ Bit(a[n], d) # Bit(p, d)
  <2>1. d < t.node[n].len
    BY <1>3, <1>7, <1>8, <1>17
  <2>2. Bit(a[r], d) # Bit(p, d)
    BY <1>3, <1>8, <1>9, <1>17, <2>1
  <2>3. Bit(a[r], d) = Bit(a[n], d)
    BY <1>3, <1>7, <1>8, <2>1, Agreement
  <2> QED
    BY <2>1, <2>2, <2>3
<1>18. ASSUME t.node[n].parent # Null PROVE t.node[t.node[n].parent].len < d
  <2>1. ~ (t.node[t.node[n].parent].len >= d)
    BY <1>5, <1>18 DEF Higher
  <2>2. t.node[n].parent \in Nodes
    BY <1>6, <1>7, <1>18, NodeIs
  <2>3. t.node[t.node[n].parent].len \in Nat
    BY <1>6, <2>2, NodeIs
  <2> QED
    BY <1>3, <2>1, <2>3
<1> QED
  BY <1>7, <1>11, <1>13, <1>14, <1>15, <1>16, <1>17, <1>18 DEF HangsFrom, PartsFrom
-----------------------------------------------------------------------------
(* How a change of links changes the shape *)

\* All of a node but its links.
Keeps(nd, nd2, m) == /\ nd2[m].addr = nd[m].addr /\ nd2[m].len = nd[m].len
                     /\ nd2[m].glue = nd[m].glue

\* A new node without children, for the prefix p.
IsLeaf(nd, m, p) == /\ nd[m].addr = p /\ nd[m].len = Len(p) /\ nd[m].glue = FALSE
                    /\ \A b \in {0, 1} : nd[m].child[b] = Null

\* A node that keeps its bits, its length and its kind keeps its name.
LEMMA NamedStill ==
    ASSUME NEW nd, NEW nd2, NEW a, NEW a2, NEW m, Named(nd, a, m), Keeps(nd, nd2, m), a2[m] = a[m]
    PROVE  Named(nd2, a2, m)
  BY DEF Named, Keeps

\* A leaf of a prefix stands for its bits.
LEMMA LeafNamed ==
    ASSUME NEW nd, NEW a, NEW m, NEW p \in Prefixes, IsLeaf(nd, m, p), a[m] = p
    PROVE  Named(nd, a, m)
  BY PrefixIs, TrieAssumption DEF Named, IsLeaf

\* The only node of a tree.
LEMMA OnlyLeaf ==
    ASSUME NEW nd \in [Nodes -> PNodes], NEW n \in Nodes, NEW p \in Prefixes,
           IsLeaf(nd, n, p), nd[n].parent = Null, NEW a, a[n] = p
    PROVE  Shape(n, nd, {n}, a)
<1>1. Named(nd, a, n)
  BY LeafNamed
<1>2. Hangs(n, nd, {n}, a, n)
  BY DEF Hangs
<1>3. \A b \in {0, 1} : Leads(nd, {n}, a, n, b)
  BY DEF Leads, IsLeaf
<1> QED
  BY <1>1, <1>2, <1>3, NodesAre DEF Shape

\* A leaf hung from a node with room for it.
LEMMA LeafAdded ==
    ASSUME NEW h, NEW nd, NEW S, NEW a, Shape(h, nd, S, a),
           NEW n \in S, NEW new \in Nodes, new \notin S, NEW p \in Prefixes, NEW b0,
           b0 = Bit(p, nd[n].len), nd[n].len < Len(p), Agree(a[n], p, nd[n].len),
           nd[n].child[b0] = Null,
           NEW nd2 \in [Nodes -> PNodes], NEW a2,
           IsLeaf(nd2, new, p), nd2[new].parent = n, a2[new] = p,
           \A m \in S : Keeps(nd, nd2, m) /\ a2[m] = a[m] /\ nd2[m].parent = nd[m].parent,
           \A m \in S : \A b \in {0, 1} :
              nd2[m].child[b] = IF m = n /\ b = b0 THEN new ELSE nd[m].child[b]
    PROVE  Shape(h, nd2, S \cup {new}, a2)
<1> DEFINE T == S \cup {new}
<1>1. /\ nd \in [Nodes -> PNodes] /\ S \subseteq Nodes /\ n \in Nodes /\ new # Null
      /\ (h = Null => S = {}) /\ (h # Null => h \in S)
  BY NodesAre DEF Shape
<1>2. h \in S /\ h # Null
  BY <1>1
<1>3. nd[n].len \in Nat /\ p \in Strings /\ b0 \in {0, 1}
  BY <1>1, NodeIs, PrefixIs, BitIs
<1>4. ASSUME NEW m \in T PROVE Named(nd2, a2, m)
  <2>1. CASE m = new
    BY <2>1, LeafNamed
  <2>2. CASE m \in S
    <3>1. Named(nd, a, m)
      BY <2>2 DEF Shape
    <3> QED
      BY <2>2, <3>1, NamedStill
  <2> QED
    BY <2>1, <2>2
<1>5. ASSUME NEW m \in T PROVE Hangs(h, nd2, T, a2, m)
  <2>1. CASE m = new
    <3>1. m # h /\ nd2[m].parent = n /\ n \in T
      BY <1>2, <2>1
    <3>2. nd2[n].len = nd[n].len /\ nd2[n].child[b0] = new
      BY <1>3 DEF Keeps
    <3> QED
      BY <2>1, <3>1, <3>2 DEF Hangs
  <2>2. CASE m \in S /\ m = h
    <3>1. Hangs(h, nd, S, a, m)
      BY <2>2 DEF Shape
    <3> QED
      BY <2>2, <3>1 DEF Hangs
  <2>3. CASE m \in S /\ m # h
    <3> DEFINE q == nd[m].parent
               b == Bit(a[m], nd[q].len)
    <3>1. q \in S /\ b \in {0, 1} /\ nd[q].child[b] = m
      BY <2>3, ParentIs
    <3>2. m # Null
      BY <1>1, <2>3, NodesAre
    <3>3. nd2[m].parent = q /\ nd2[q].len = nd[q].len /\ a2[m] = a[m]
      BY <2>3, <3>1 DEF Keeps
    <3> HIDE DEF q
    <3>4. nd2[q].child[b] = m
      BY <3>1, <3>2
    <3> QED
      BY <2>3, <3>1, <3>3, <3>4 DEF Hangs
  <2> QED
    BY <2>1, <2>2, <2>3
<1>6. ASSUME NEW m \in T, NEW b \in {0, 1} PROVE Leads(nd2, T, a2, m, b)
  <2>1. CASE m = new
    BY <2>1 DEF Leads, IsLeaf
  <2>2. CASE m = n /\ b = b0
    <3>1. /\ nd2[m].child[b] = new /\ nd2[m].len = nd[n].len /\ nd2[new].len = Len(p)
          /\ a2[n] = a[n]
      BY <2>2 DEF Keeps, IsLeaf
    <3>2. Agree(p, a[n], nd[n].len)
      BY Agreement
    <3> QED
      BY <2>2, <3>1, <3>2 DEF Leads
  <2>3. CASE m \in S /\ ~ (m = n /\ b = b0)
    <3>1. Leads(nd, S, a, m, b)
      BY <2>3 DEF Shape
    <3> DEFINE c == nd[m].child[b]
    <3>2. nd2[m].child[b] = c /\ nd2[m].len = nd[m].len /\ a2[m] = a[m]
      BY <2>3 DEF Keeps
    <3>3. c \in S => nd2[c].parent = nd[c].parent /\ nd2[c].len = nd[c].len /\ a2[c] = a[c]
      BY DEF Keeps
    <3> HIDE DEF c
    <3>4. c # Null => /\ c \in S /\ nd[c].parent = m /\ nd[m].len < nd[c].len
                      /\ Agree(a[c], a[m], nd[m].len) /\ Bit(a[c], nd[m].len) = b
      BY <3>1 DEF Leads, c
    <3> QED
      BY <3>2, <3>3, <3>4 DEF Leads
  <2> QED
    BY <2>1, <2>2, <2>3
<1> HIDE DEF T
<1>7. T \subseteq Nodes /\ h \in T
  BY <1>1, <1>2 DEF T
<1>8. Shape(h, nd2, T, a2)
  BY <1>2, <1>4, <1>5, <1>6, <1>7 DEF Shape
<1> QED
  BY <1>8 DEF T

\* A leaf taken out.
LEMMA LeafCut ==
    ASSUME NEW h, NEW nd, NEW S, NEW a, Shape(h, nd, S, a),
           NEW n \in S, n # h, \A b \in {0, 1} : nd[n].child[b] = Null, NEW b0,
           b0 = Bit(a[n], nd[nd[n].parent].len),
           NEW nd2 \in [Nodes -> PNodes],
           \A m \in S \ {n} : Keeps(nd, nd2, m) /\ nd2[m].parent = nd[m].parent,
           \A m \in S \ {n} : \A b \in {0, 1} :
              nd2[m].child[b] = IF m = nd[n].parent /\ b = b0 THEN Null ELSE nd[m].child[b]
    PROVE  Shape(h, nd2, S \ {n}, a)
<1> DEFINE T == S \ {n}
<1>1. /\ nd \in [Nodes -> PNodes] /\ S \subseteq Nodes /\ n \in Nodes
      /\ (h = Null => S = {}) /\ (h # Null => h \in S)
  BY DEF Shape
<1>2. h \in T /\ h # Null
  BY <1>1
<1>3. ASSUME NEW m \in T PROVE Named(nd2, a, m)
  <2>1. Named(nd, a, m)
    BY DEF Shape
  <2> QED
    BY <2>1, NamedStill
<1>4. ASSUME NEW m \in T PROVE Hangs(h, nd2, T, a, m)
  <2>1. CASE m = h
    <3>1. Hangs(h, nd, S, a, m)
      BY <2>1 DEF Shape
    <3> QED
      BY <2>1, <3>1 DEF Hangs
  <2>2. CASE m # h
    <3> DEFINE q == nd[m].parent
               b == Bit(a[m], nd[q].len)
    <3>1. q \in S /\ b \in {0, 1} /\ nd[q].child[b] = m
      BY <2>2, ParentIs
    <3>2. m # Null
      BY <1>1, NodesAre
    <3>3. q # n
      BY <3>1, <3>2
    <3>4. nd2[m].parent = q /\ nd2[q].len = nd[q].len
      BY <3>1, <3>3 DEF Keeps
    <3>5. ~ (q = nd[n].parent /\ b = b0)
      <4>1. nd[nd[n].parent].child[b0] = n
        BY ParentIs
      <4> QED
        BY <3>1, <4>1
    <3> HIDE DEF q
    <3>6. nd2[q].child[b] = m
      BY <3>1, <3>3, <3>5
    <3> QED
      BY <2>2, <3>1, <3>3, <3>4, <3>6 DEF Hangs
  <2> QED
    BY <2>1, <2>2
<1>5. ASSUME NEW m \in T, NEW b \in {0, 1} PROVE Leads(nd2, T, a, m, b)
  <2>1. CASE m = nd[n].parent /\ b = b0
    BY <2>1 DEF Leads
  <2>2. CASE ~ (m = nd[n].parent /\ b = b0)
    <3>1. Leads(nd, S, a, m, b)
      BY DEF Shape
    <3> DEFINE c == nd[m].child[b]
    <3>2. nd2[m].child[b] = c /\ nd2[m].len = nd[m].len
      BY <2>2 DEF Keeps
    <3>3. c \in T => nd2[c].parent = nd[c].parent /\ nd2[c].len = nd[c].len
      BY DEF Keeps
    <3> HIDE DEF c
    <3>4. c # Null => /\ c \in S /\ nd[c].parent = m /\ nd[m].len < nd[c].len
                      /\ Agree(a[c], a[m], nd[m].len) /\ Bit(a[c], nd[m].len) = b
      BY <3>1 DEF Leads, c
    <3>5. c # n
      <4> SUFFICES ASSUME c = n PROVE FALSE
        OBVIOUS
      <4>1. c # Null
        BY <1>1, NodesAre
      <4> QED
        BY <2>2, <3>4, <4>1
    <3> QED
      BY <3>2, <3>3, <3>4, <3>5 DEF Leads
  <2> QED
    BY <2>1, <2>2
<1> HIDE DEF T
<1>6. T \subseteq Nodes
  BY <1>1 DEF T
<1>7. Shape(h, nd2, T, a)
  BY <1>2, <1>3, <1>4, <1>5, <1>6 DEF Shape
<1> QED
  BY <1>7 DEF T

\* Only the head has no parent.
LEMMA HeadIs ==
    ASSUME NEW h, NEW nd, NEW S, NEW a, Shape(h, nd, S, a), NEW n \in S
    PROVE  n = h <=> nd[n].parent = Null
<1>1. n = h => nd[n].parent = Null
  BY DEF Shape, Hangs
<1>2. n # h => nd[n].parent # Null
  BY ParentIs
<1> QED
  BY <1>1, <1>2

\* A node with one child taken out: the child hangs where it hung.
ChildBetween(h, nd, S, a, x, b1, c, q, b0, h2, nd2) ==
    /\ x \in S /\ b1 \in {0, 1} /\ c = nd[x].child[b1] /\ c # Null
    /\ \A b \in {0, 1} : b # b1 => nd[x].child[b] = Null
    /\ q = nd[x].parent /\ (q # Null => b0 = Bit(a[x], nd[q].len))
    /\ (q = Null => h2 = c) /\ (q # Null => h2 = h)
    /\ nd2 \in [Nodes -> PNodes]
    /\ \A m \in S \ {x} : /\ Keeps(nd, nd2, m)
                          /\ nd2[m].parent = IF m = c THEN q ELSE nd[m].parent
    /\ \A m \in S \ {x} : \A b \in {0, 1} :
          nd2[m].child[b] = IF q # Null /\ m = q /\ b = b0 THEN c ELSE nd[m].child[b]

\* A tree keeps its shape when a node leaves and its only child takes its place.
LEMMA NodeSpliced ==
    ASSUME NEW h, NEW nd, NEW S, NEW a, Shape(h, nd, S, a),
           NEW x, NEW b1, NEW c, NEW q, NEW b0, NEW h2, NEW nd2,
           ChildBetween(h, nd, S, a, x, b1, c, q, b0, h2, nd2)
    PROVE  Shape(h2, nd2, S \ {x}, a)
<1> DEFINE T == S \ {x}
<1>0. /\ x \in S /\ b1 \in {0, 1} /\ c = nd[x].child[b1] /\ c # Null
      /\ \A b \in {0, 1} : b # b1 => nd[x].child[b] = Null
      /\ q = nd[x].parent /\ (q # Null => b0 = Bit(a[x], nd[q].len))
      /\ (q = Null => h2 = c) /\ (q # Null => h2 = h)
      /\ nd2 \in [Nodes -> PNodes]
      /\ \A m \in S \ {x} : /\ Keeps(nd, nd2, m)
                            /\ nd2[m].parent = IF m = c THEN q ELSE nd[m].parent
      /\ \A m \in S \ {x} : \A b \in {0, 1} :
            nd2[m].child[b] = IF q # Null /\ m = q /\ b = b0 THEN c ELSE nd[m].child[b]
  BY DEF ChildBetween
<1> USE <1>0
<1>1. /\ nd \in [Nodes -> PNodes] /\ S \subseteq Nodes /\ x \in Nodes
      /\ (h = Null => S = {}) /\ (h # Null => h \in S)
  BY DEF Shape
<1>2. h \in S /\ h # Null
  BY <1>1
<1>3. /\ c \in S /\ c \in Nodes /\ c # x /\ c # h
      /\ nd[c].parent = x /\ nd[c].len \in Nat /\ nd[x].len \in Nat
      /\ nd[x].len < nd[c].len
      /\ Agree(a[c], a[x], nd[x].len) /\ Bit(a[c], nd[x].len) = b1
  BY ChildIs
<1>4. x = h <=> q = Null
  BY HeadIs
<1>5. q # Null => /\ q \in S /\ q \in Nodes /\ q # x
                  /\ nd[q].len \in Nat /\ nd[q].len < nd[x].len
                  /\ b0 \in {0, 1} /\ nd[q].child[b0] = x
                  /\ Agree(a[x], a[q], nd[q].len)
  BY <1>4, ParentIs
<1>6. q # Null => /\ Agree(a[c], a[q], nd[q].len) /\ Bit(a[c], nd[q].len) = b0
                  /\ nd[q].len < nd[c].len
  BY <1>3, <1>5, Agreement
<1>7. h2 \in T /\ h2 # Null
  BY <1>2, <1>3, <1>4
<1>8. ASSUME NEW m \in T PROVE Named(nd2, a, m)
  <2>1. Named(nd, a, m)
    BY DEF Shape
  <2> QED
    BY <2>1, NamedStill
<1>9. ASSUME NEW m \in T PROVE Hangs(h2, nd2, T, a, m)
  <2>1. CASE m = c /\ q = Null
    BY <2>1 DEF Hangs
  <2>2. CASE m = c /\ q # Null
    <3>1. nd2[m].parent = q /\ nd2[q].len = nd[q].len /\ nd2[q].child[b0] = c /\ q \in T
      BY <1>5, <2>2 DEF Keeps
    <3>2. m # h2
      BY <1>3, <2>2
    <3> QED
      BY <1>6, <2>2, <3>1, <3>2 DEF Hangs
  <2>3. CASE m # c /\ m = h
    <3>1. Hangs(h, nd, S, a, m) /\ m = h2
      BY <1>4, <2>3 DEF Shape
    <3> QED
      BY <2>3, <3>1 DEF Hangs
  <2>4. CASE m # c /\ m # h
    <3> DEFINE r == nd[m].parent
               b == Bit(a[m], nd[r].len)
    <3>1. r \in S /\ b \in {0, 1} /\ nd[r].child[b] = m
      BY <2>4, ParentIs
    <3>2. m # Null
      BY <1>1, NodesAre
    <3>3. r # x
      BY <2>4, <3>1, <3>2
    <3>4. nd2[m].parent = r /\ nd2[r].len = nd[r].len
      BY <2>4, <3>1, <3>3 DEF Keeps
    <3>5. ~ (q # Null /\ r = q /\ b = b0)
      BY <1>5, <3>1
    <3>6. m # h2
      BY <1>7, <2>4
    <3> HIDE DEF r
    <3>7. nd2[r].child[b] = m
      BY <3>1, <3>3, <3>5
    <3> QED
      BY <3>1, <3>3, <3>4, <3>6, <3>7 DEF Hangs
  <2> QED
    BY <2>1, <2>2, <2>3, <2>4
<1>10. ASSUME NEW m \in T, NEW b \in {0, 1} PROVE Leads(nd2, T, a, m, b)
  <2>1. CASE q # Null /\ m = q /\ b = b0
    <3>1. /\ nd2[m].child[b] = c /\ nd2[m].len = nd[q].len /\ nd2[c].len = nd[c].len
          /\ nd2[c].parent = q /\ c \in T
      BY <1>3, <2>1 DEF Keeps
    <3> QED
      BY <1>6, <2>1, <3>1 DEF Leads
  <2>2. CASE ~ (q # Null /\ m = q /\ b = b0)
    <3>1. Leads(nd, S, a, m, b)
      BY DEF Shape
    <3> DEFINE e == nd[m].child[b]
    <3>2. nd2[m].child[b] = e /\ nd2[m].len = nd[m].len
      BY <2>2 DEF Keeps
    <3>3. e # Null => /\ e \in S /\ nd[e].parent = m /\ nd[m].len < nd[e].len
                      /\ Agree(a[e], a[m], nd[m].len) /\ Bit(a[e], nd[m].len) = b
      BY <3>1 DEF Leads
    <3> HIDE DEF e
    <3>4. e # Null => e # c
      BY <1>3, <3>3
    <3>5. e # x
      <4> SUFFICES ASSUME e = x PROVE FALSE
        OBVIOUS
      <4>1. e # Null
        BY <1>1, NodesAre
      <4>2. q = m
        BY <3>3, <4>1
      <4>3. m # Null
        BY <1>1, NodesAre
      <4> QED
        BY <2>2, <3>3, <4>1, <4>2, <4>3
    <3>6. e # Null => nd2[e].parent = nd[e].parent /\ nd2[e].len = nd[e].len /\ e \in T
      BY <3>3, <3>4, <3>5 DEF Keeps
    <3> QED
      BY <3>2, <3>3, <3>6 DEF Leads
  <2> QED
    BY <2>1, <2>2
<1> HIDE DEF T
<1>11. T \subseteq Nodes
  BY <1>1 DEF T
<1>12. Shape(h2, nd2, T, a)
  BY <1>7, <1>8, <1>9, <1>10, <1>11 DEF Shape
<1> QED
  BY <1>12 DEF T

\* The first bits of a string.
LEMMA CutIs ==
    ASSUME NEW p \in Strings, NEW d \in Nat, d <= Len(p)
    PROVE  /\ SubSeq(p, 1, d) \in Strings /\ Len(SubSeq(p, 1, d)) = d
           /\ Agree(SubSeq(p, 1, d), p, d)
<1> DEFINE s == SubSeq(p, 1, d)
<1>1. p \in Seq({0, 1}) /\ Len(p) \in Nat
  BY BitIs DEF Strings
<1>2. \A i \in 1..d : p[i] \in {0, 1}
  BY <1>1, ElementOfSeq
<1>3. s \in Seq({0, 1}) /\ Len(s) = d /\ \A i \in 1..d : s[i] = p[i]
  BY <1>1, <1>2
<1> HIDE DEF s
<1>4. Agree(s, p, d)
  <2> SUFFICES ASSUME NEW i \in 0..(d - 1) PROVE Bit(s, i) = Bit(p, i)
    BY DEF Agree
  <2>1. i < d /\ i < Len(p) /\ i + 1 \in 1..d
    BY <1>1
  <2> QED
    BY <1>3, <2>1 DEF Bit
<1> QED
  BY <1>3, <1>4 DEF s, Strings

\* Glue of d bits put between a node and its parent, with a new leaf on its other
\* side.
GlueBetween(nd, S, a, n, x, g, p, d, q, b0, nd2, a2) ==
    /\ n \in S /\ x \in Nodes /\ x \notin S /\ g \in Nodes /\ g \notin S /\ g # x
    /\ d < Len(p) /\ d < nd[n].len /\ Agree(a[n], p, d) /\ Bit(a[n], d) # Bit(p, d)
    /\ q = nd[n].parent
    /\ q # Null => nd[q].len < d /\ b0 = Bit(a[n], nd[q].len)
    /\ nd2 \in [Nodes -> PNodes]
    /\ IsLeaf(nd2, x, p) /\ nd2[x].parent = g /\ a2[x] = p
    /\ nd2[g].glue = TRUE /\ nd2[g].len = d /\ nd2[g].parent = q /\ a2[g] = SubSeq(p, 1, d)
    /\ \A b \in {0, 1} : nd2[g].child[b] = IF b = Bit(p, d) THEN x ELSE n
    /\ \A m \in S : /\ Keeps(nd, nd2, m) /\ a2[m] = a[m]
                    /\ nd2[m].parent = IF m = n THEN g ELSE nd[m].parent
    /\ \A m \in S : \A b \in {0, 1} :
          nd2[m].child[b] = IF q # Null /\ m = q /\ b = b0 THEN g ELSE nd[m].child[b]

\* A tree keeps its shape when glue comes above a node, with a leaf on its other side.
LEMMA GlueAdded ==
    ASSUME NEW h, NEW nd, NEW S, NEW a, Shape(h, nd, S, a),
           NEW n, NEW x, NEW g, NEW p \in Prefixes, NEW d \in Nat, NEW q, NEW b0, NEW nd2, NEW a2,
           GlueBetween(nd, S, a, n, x, g, p, d, q, b0, nd2, a2),
           NEW h2, h2 = IF q = Null THEN g ELSE h
    PROVE  Shape(h2, nd2, S \cup {x, g}, a2)
<1> DEFINE T == S \cup {x, g}
<1>0. /\ n \in S /\ x \in Nodes /\ x \notin S /\ g \in Nodes /\ g \notin S /\ g # x
      /\ d < Len(p) /\ d < nd[n].len /\ Agree(a[n], p, d) /\ Bit(a[n], d) # Bit(p, d)
      /\ q = nd[n].parent
      /\ (q # Null => nd[q].len < d /\ b0 = Bit(a[n], nd[q].len))
      /\ nd2 \in [Nodes -> PNodes]
      /\ IsLeaf(nd2, x, p) /\ nd2[x].parent = g /\ a2[x] = p
      /\ nd2[g].glue = TRUE /\ nd2[g].len = d /\ nd2[g].parent = q /\ a2[g] = SubSeq(p, 1, d)
      /\ \A b \in {0, 1} : nd2[g].child[b] = IF b = Bit(p, d) THEN x ELSE n
      /\ \A m \in S : /\ Keeps(nd, nd2, m) /\ a2[m] = a[m]
                      /\ nd2[m].parent = IF m = n THEN g ELSE nd[m].parent
      /\ \A m \in S : \A b \in {0, 1} :
            nd2[m].child[b] = IF q # Null /\ m = q /\ b = b0 THEN g ELSE nd[m].child[b]
  BY DEF GlueBetween
<1> USE <1>0
<1>1. /\ nd \in [Nodes -> PNodes] /\ S \subseteq Nodes /\ n \in Nodes
      /\ (h = Null => S = {}) /\ (h # Null => h \in S)
      /\ x # Null /\ g # Null
  BY NodesAre DEF Shape
<1>2. h \in S /\ h # Null
  BY <1>1
<1>3. /\ p \in Strings /\ Len(p) \in Nat /\ Len(p) <= MaxBitLen /\ nd[n].len \in Nat
      /\ Bit(p, d) \in {0, 1} /\ Bit(a[n], d) \in {0, 1}
  <2>1. a[n] \in Strings
    BY DEF Shape, Named
  <2> QED
    BY <1>1, <2>1, PrefixIs, NodeIs, BitIs, TrieAssumption
<1>4. a2[g] \in Strings /\ Len(a2[g]) = d /\ Agree(a2[g], p, d)
  BY <1>3, CutIs
<1>5. n = h <=> q = Null
  BY HeadIs
<1>6. q # Null => /\ q \in S /\ q \in Nodes /\ q # n
                  /\ nd[q].len \in Nat
                  /\ b0 \in {0, 1} /\ nd[q].child[b0] = n
                  /\ Agree(a[n], a[q], nd[q].len)
  BY <1>5, ParentIs
<1>7. Agree(p, a2[g], d) /\ Agree(a[n], a2[g], d)
  <2>1. Agree(p, a2[g], d)
    BY <1>4, Agreement
  <2> QED
    BY <1>3, <2>1, Agreement
<1>8. q # Null => Agree(a2[g], a[q], nd[q].len) /\ Bit(a2[g], nd[q].len) = b0
  <2> SUFFICES ASSUME q # Null PROVE Agree(a2[g], a[q], nd[q].len) /\ Bit(a2[g], nd[q].len) = b0
    OBVIOUS
  <2>1. Agree(a2[g], a[n], d)
    BY <1>7, Agreement
  <2>2. nd[q].len \in Nat /\ nd[q].len < d /\ nd[q].len <= d
    BY <1>6
  <2>3. Agree(a[n], a[q], nd[q].len)
    BY <1>6
  <2>4. Agree(a2[g], a[q], nd[q].len)
    BY <2>1, <2>2, <2>3, Agreement
  <2>5. Bit(a2[g], nd[q].len) = Bit(a[n], nd[q].len)
    BY <2>1, <2>2, Agreement
  <2> QED
    BY <2>4, <2>5
<1>9. h2 \in T /\ h2 # Null
  BY <1>1, <1>2
<1>10. ASSUME NEW m \in T PROVE Named(nd2, a2, m)
  <2>1. CASE m = x
    BY <2>1, LeafNamed
  <2>2. CASE m = g
    <3>1. nd2[m].glue = TRUE /\ nd2[m].len = d /\ a2[m] \in Strings /\ Len(a2[m]) = d
      BY <1>4, <2>2
    <3>2. d <= MaxBitLen
      BY <1>3, TrieAssumption
    <3> QED
      BY <3>1, <3>2 DEF Named
  <2>3. CASE m \in S
    <3>1. Named(nd, a, m)
      BY <2>3 DEF Shape
    <3> QED
      BY <2>3, <3>1, NamedStill
  <2> QED
    BY <2>1, <2>2, <2>3
<1>11. ASSUME NEW m \in T PROVE Hangs(h2, nd2, T, a2, m)
  <2>1. CASE m = x
    <3>1. m # h2 /\ nd2[m].parent = g /\ g \in T /\ nd2[g].child[Bit(p, d)] = x
      BY <1>2, <1>3, <2>1
    <3> QED
      BY <2>1, <3>1 DEF Hangs
  <2>2. CASE m = g /\ q = Null
    BY <2>2 DEF Hangs
  <2>3. CASE m = g /\ q # Null
    <3>1. /\ m # h2 /\ nd2[m].parent = q /\ q \in T /\ nd2[q].child[b0] = g
          /\ nd2[q].len = nd[q].len
      BY <1>2, <1>6, <2>3 DEF Keeps
    <3>2. Bit(a2[m], nd2[q].len) = b0
      BY <1>8, <2>3, <3>1
    <3> QED
      BY <3>1, <3>2, <2>3 DEF Hangs
  <2>4. CASE m = n
    <3>1. m # h2 /\ nd2[m].parent = g /\ g \in T /\ nd2[g].child[Bit(a[n], d)] = n /\ a2[m] = a[n]
      BY <1>3, <1>5, <2>4
    <3> QED
      BY <2>4, <3>1 DEF Hangs
  <2>5. CASE m \in S /\ m # n /\ m = h
    <3>1. Hangs(h, nd, S, a, m) /\ m = h2
      BY <1>5, <2>5 DEF Shape
    <3> QED
      BY <2>5, <3>1 DEF Hangs
  <2>6. CASE m \in S /\ m # n /\ m # h
    <3> DEFINE r == nd[m].parent
               b == Bit(a[m], nd[r].len)
    <3>1. r \in S /\ b \in {0, 1} /\ nd[r].child[b] = m
      BY <2>6, ParentIs
    <3>2. nd2[m].parent = r /\ nd2[r].len = nd[r].len /\ a2[m] = a[m]
      BY <2>6, <3>1 DEF Keeps
    <3>3. ~ (q # Null /\ r = q /\ b = b0)
      BY <1>6, <2>6, <3>1
    <3>4. m # h2
      BY <2>6
    <3> HIDE DEF r
    <3>5. nd2[r].child[b] = m
      BY <3>1, <3>3
    <3> QED
      BY <3>1, <3>2, <3>4, <3>5 DEF Hangs
  <2> QED
    BY <2>1, <2>2, <2>3, <2>4, <2>5, <2>6
<1>12. ASSUME NEW m \in T, NEW b \in {0, 1} PROVE Leads(nd2, T, a2, m, b)
  <2>1. CASE m = x
    BY <2>1 DEF Leads, IsLeaf
  <2>2. CASE m = g /\ b = Bit(p, d)
    <3>1. /\ nd2[m].child[b] = x /\ nd2[x].len = Len(p) /\ nd2[x].parent = m /\ x \in T
          /\ nd2[m].len = d
      BY <2>2 DEF IsLeaf
    <3>2. nd2[m].len < nd2[x].len /\ Agree(a2[x], a2[m], d) /\ Bit(a2[x], d) = b
      BY <1>7, <2>2, <3>1
    <3> QED
      BY <3>1, <3>2 DEF Leads
  <2>3. CASE m = g /\ b # Bit(p, d)
    <3>1. /\ nd2[m].child[b] = n /\ nd2[n].len = nd[n].len /\ nd2[n].parent = g /\ a2[n] = a[n]
          /\ b = Bit(a[n], d)
      BY <1>3, <2>3 DEF Keeps
    <3> QED
      BY <1>7, <2>3, <3>1 DEF Leads
  <2>4. CASE m \in S /\ q # Null /\ m = q /\ b = b0
    <3>1. nd2[m].child[b] = g /\ nd2[m].len = nd[q].len /\ a2[m] = a[q]
      BY <2>4 DEF Keeps
    <3> QED
      BY <1>8, <2>4, <3>1 DEF Leads
  <2>5. CASE m \in S /\ ~ (q # Null /\ m = q /\ b = b0)
    <3>1. Leads(nd, S, a, m, b)
      BY <2>5 DEF Shape
    <3> DEFINE e == nd[m].child[b]
    <3>2. nd2[m].child[b] = e /\ nd2[m].len = nd[m].len /\ a2[m] = a[m]
      BY <2>5 DEF Keeps
    <3>3. e # Null => /\ e \in S /\ nd[e].parent = m /\ nd[m].len < nd[e].len
                      /\ Agree(a[e], a[m], nd[m].len) /\ Bit(a[e], nd[m].len) = b
      BY <3>1 DEF Leads
    <3>4. m # Null
      BY <1>1, <2>5, NodesAre
    <3> HIDE DEF e
    <3>5. e # Null => e # n
      <4> SUFFICES ASSUME e # Null, e = n PROVE FALSE
        OBVIOUS
      <4>1. q = m
        BY <3>3
      <4> QED
        BY <2>5, <3>3, <3>4, <4>1
    <3>6. e # Null => nd2[e].parent = nd[e].parent /\ nd2[e].len = nd[e].len /\ a2[e] = a[e]
      BY <3>3, <3>5 DEF Keeps
    <3> QED
      BY <3>2, <3>3, <3>6 DEF Leads
  <2> QED
    BY <2>1, <2>2, <2>3, <2>4, <2>5
<1> HIDE DEF T
<1>13. T \subseteq Nodes
  BY <1>1 DEF T
<1>14. Shape(h2, nd2, T, a2)
  BY <1>9, <1>10, <1>11, <1>12, <1>13 DEF Shape
<1> QED
  BY <1>14 DEF T
-----------------------------------------------------------------------------
(* Free nodes *)
LEMMA Times ==
    ASSUME NEW i \in Nat, NEW j \in Nat, NEW k \in Nat
    PROVE  /\ i * k \in Nat /\ i * k = k * i /\ (i + 1) * k = i * k + k
           /\ i <= j => i * k <= j * k
<1>1. i * k \in Nat /\ i * k = k * i /\ (i + 1) * k = i * k + k
  OBVIOUS
<1>2. ASSUME i <= j PROVE i * k <= j * k
  <2>1. j = i + (j - i) /\ j - i \in Nat
    BY <1>2
  <2>2. (i + (j - i)) * k = i * k + (j - i) * k
    OBVIOUS
  <2>3. (j - i) * k \in Nat
    BY <2>1
  <2> QED
    BY <2>1, <2>2, <2>3
<1> QED
  BY <1>1, <1>2

\* Quotient and remainder make the number up again.
LEMMA Divided ==
    ASSUME NEW u \in Nat, NEW k \in Nat \ {0}
    PROVE  u = k * (u \div k) + (u % k) /\ u % k \in 0..(k - 1) /\ u \div k \in Nat
<1>1. u % k \in 0..(k - 1)
  OBVIOUS
<1>2. u = k * (u \div k) + (u % k)
  OBVIOUS
<1>3. u \div k \in Int
  OBVIOUS
<1>4. u \div k >= 0
  OBVIOUS
<1> QED
  BY <1>1, <1>2, <1>3, <1>4

\* Quotient and remainder are the only ones.
LEMMA SameQuotient ==
    ASSUME NEW x \in Nat, NEW y \in Nat, NEW k \in Nat \ {0}, NEW r \in 0..(k - 1), NEW s \in 0..(k - 1),
           x * k + r = y * k + s
    PROVE  x = y /\ r = s
<1>1. ASSUME NEW i \in Nat, NEW j \in Nat, i < j, NEW v \in 0..(k - 1), NEW w \in 0..(k - 1)
      PROVE  i * k + v # j * k + w
  <2>1. (i + 1) * k <= j * k /\ (i + 1) * k = i * k + k
    BY <1>1, Times
  <2>2. i * k \in Nat /\ j * k \in Nat
    BY Times
  <2> QED
    BY <2>1, <2>2
<1>2. x = y
  BY <1>1
<1>3. x * k \in Nat
  BY Times
<1> QED
  BY <1>2, <1>3

\* The free nodes are nodes of the pages there are, once each, and none of S; those
\* of S are of these pages.
Ledger(free, pages, S) ==
    /\ \A i \in 1..Len(free) : free[i] \notin S /\ free[i] <= pages * PageSize
    /\ \A i, j \in 1..Len(free) : free[i] = free[j] => i = j
    /\ \A n \in S : n <= pages * PageSize

\* The fields of a trie.
LEMMA TrieIs ==
    ASSUME NEW t \in Tries
    PROVE  /\ t.head \in Nodes \cup {Null} /\ t.node \in [Nodes -> PNodes]
           /\ t.free \in Seq(Nodes) /\ t.pages \in 0..MaxPages /\ t.pages \in Nat
           /\ t.nprefs \in 0..(CountMod - 1)
<1>1. \A k \in 0..MaxPages : k \in Nat
  BY TrieAssumption
<1> QED
  BY <1>1 DEF Tries

\* The nodes of a page, from the last of them down.
LEMMA PageIs ==
    ASSUME NEW k \in Nat, k < MaxPages
    PROVE  /\ PageNodes(k) \in Seq(Nodes) /\ Len(PageNodes(k)) = PageSize
           /\ \A i \in 1..PageSize : /\ PageNodes(k)[i] > k * PageSize
                                     /\ PageNodes(k)[i] <= (k + 1) * PageSize
                                     /\ PageNodes(k)[i] = k * PageSize + (PageSize - i) + 1
<1> DEFINE x == k * PageSize
           s == PageNodes(k)
<1>1. PageSize \in Nat /\ MaxPages \in Nat
  BY TrieAssumption
<1>2. x \in Nat /\ (k + 1) * PageSize = x + PageSize /\ (k + 1) * PageSize <= PageSize * MaxPages
  <2>1. k + 1 <= MaxPages /\ k + 1 \in Nat
    BY <1>1
  <2>2. (k + 1) * PageSize <= MaxPages * PageSize
    BY <1>1, <2>1, Times
  <2>3. MaxPages * PageSize = PageSize * MaxPages
    BY <1>1, Times
  <2>4. x \in Nat /\ (k + 1) * PageSize = x + PageSize
    BY <1>1, Times
  <2> QED
    BY <2>2, <2>3, <2>4
<1>3. s = [i \in 1..PageSize |-> x + PageSize + 1 - i]
  BY DEF PageNodes
<1>4. PageSize * MaxPages \in Nat
  BY NodesAre
<1> DEFINE y == PageSize * MaxPages
           z == (k + 1) * PageSize
<1> HIDE DEF x, s, y, z
<1>5. x \in Nat /\ z = x + PageSize /\ z <= y /\ y \in Nat
  BY <1>2, <1>4 DEF y, z
<1>6. \A i \in 1..PageSize : s[i] = x + (PageSize - i) + 1
  BY <1>1, <1>3, <1>5
<1>7. \A i \in 1..PageSize : s[i] > x /\ s[i] <= z /\ s[i] \in 1..y
  BY <1>1, <1>5, <1>6
<1>8. s \in [1..PageSize -> 1..y]
  BY <1>3, <1>7
<1>9. s \in Seq(1..y)
  BY <1>1, <1>8, SeqDef
<1>10. Len(s) = PageSize
  BY <1>1, <1>8, <1>9, LenProperties
<1> QED
  BY <1>6, <1>7, <1>9, <1>10 DEF x, s, y, z, Nodes

\* A new page when there are no free nodes: the free list stays in order.
LEMMA RefilledIs ==
    ASSUME NEW t \in Tries, NEW S, Ledger(t.free, t.pages, S), S \subseteq Nodes
    PROVE  LET u == Refilled(t)
           IN  /\ u \in Tries /\ u.head = t.head /\ u.node = t.node /\ u.nprefs = t.nprefs
               /\ Ledger(u.free, u.pages, S)
<1>1. CASE t.free = <<>> /\ t.pages < MaxPages
  <2> DEFINE k == t.pages
             s == PageNodes(t.pages)
             u == [t EXCEPT !.free = s, !.pages = k + 1]
  <2>1. k \in Nat /\ k \in 0..MaxPages /\ k < MaxPages /\ PageSize \in Nat /\ MaxPages \in Nat
    BY <1>1, TrieIs, TrieAssumption
  <2>2. /\ s \in Seq(Nodes) /\ Len(s) = PageSize
        /\ \A i \in 1..PageSize : /\ s[i] > k * PageSize /\ s[i] <= (k + 1) * PageSize
                                  /\ s[i] = k * PageSize + (PageSize - i) + 1
    BY <2>1, PageIs
  <2>3. Refilled(t) = u
    BY <1>1 DEF Refilled
  <2> HIDE DEF s
  <2>4. k + 1 \in 0..MaxPages
    BY <2>1
  <2>5. /\ u \in Tries /\ u.head = t.head /\ u.node = t.node /\ u.nprefs = t.nprefs
        /\ u.free = s /\ u.pages = k + 1
    BY <2>2, <2>4 DEF Tries
  <2>6. Ledger(s, k + 1, S)
    <3> DEFINE x == k * PageSize
               z == (k + 1) * PageSize
    <3>1. x \in Nat /\ z = x + PageSize /\ z \in Nat
      BY <2>1, Times
    <3>2. \A i \in 1..PageSize : s[i] > x /\ s[i] <= z /\ s[i] = x + (PageSize - i) + 1
      BY <2>2
    <3>3. \A n \in S : n <= x /\ n \in Nat
      BY NodesAre DEF Ledger
    <3> HIDE DEF x, z, k
    <3>4. \A n \in S : n <= z
      BY <2>1, <3>1, <3>3
    <3>5. \A i \in 1..PageSize : s[i] \notin S
      BY <2>1, <3>1, <3>2, <3>3
    <3>6. \A i, j \in 1..PageSize : s[i] = s[j] => i = j
      BY <2>1, <3>1, <3>2
    <3> QED
      BY <2>2, <3>2, <3>4, <3>5, <3>6 DEF Ledger, z
  <2> QED
    BY <2>3, <2>5, <2>6
<1>2. CASE ~ (t.free = <<>> /\ t.pages < MaxPages)
  BY <1>2 DEF Refilled
<1> QED
  BY <1>1, <1>2

\* u is t with the free node new, which is none of S, taken and initialised to r.
TakesNode(t, u, S, r, new) ==
    /\ new \in Nodes /\ new \notin S
    /\ u \in Tries /\ u.head = t.head /\ u.nprefs = t.nprefs
    /\ u.node = [t.node EXCEPT ![new] = r]
    /\ u.free = Tail(Refilled(t).free) /\ u.pages = Refilled(t).pages
    /\ Ledger(u.free, u.pages, S \cup {new})

\* Taking the first free node leaves it out of the free list.
LEMMA TakenIs ==
    ASSUME NEW t \in Tries, NEW S, Ledger(t.free, t.pages, S), S \subseteq Nodes,
           HasFree(t), NEW r \in PNodes
    PROVE  TakesNode(t, Taken(t, r), S, r, FreeNode(t))
<1> DEFINE v == Refilled(t)
           new == FreeNode(t)
           f == v.free
           u == [v EXCEPT !.free = Tail(f), !.node = [v.node EXCEPT ![new] = r]]
<1>1. /\ v \in Tries /\ v.head = t.head /\ v.node = t.node /\ v.nprefs = t.nprefs
      /\ Ledger(v.free, v.pages, S)
  BY RefilledIs
<1>2. new = Head(f) /\ f # <<>> /\ f \in Seq(Nodes)
  BY <1>1, TrieIs DEF FreeNode, HasFree
<1>3. u = Taken(t, r)
  <2>1. Taken(t, r) = [v EXCEPT !.free = Tail(@), !.node[new] = r]
    BY DEF Taken
  <2> HIDE DEF v, new
  <2>2. v.node \in [Nodes -> PNodes]
    BY <1>1, TrieIs
  <2> QED
    BY <1>1, <2>1, <2>2 DEF Tries
<1> HIDE DEF v
<1>4. /\ Len(f) \in Nat /\ Len(f) >= 1 /\ new = f[1] /\ new \in Nodes
      /\ Tail(f) \in Seq(Nodes) /\ Len(Tail(f)) = Len(f) - 1
      /\ \A i \in 1..Len(Tail(f)) : Tail(f)[i] = f[i + 1]
  BY <1>2, HeadTailProperties
<1>5. /\ \A i \in 1..Len(f) : f[i] \notin S /\ f[i] <= v.pages * PageSize
      /\ \A i, j \in 1..Len(f) : f[i] = f[j] => i = j
      /\ \A n \in S : n <= v.pages * PageSize
  BY <1>1 DEF Ledger
<1> HIDE DEF new
<1>6. new \notin S /\ new <= v.pages * PageSize
  <2>1. 1 \in 1..Len(f)
    BY <1>4
  <2> QED
    BY <1>4, <1>5, <2>1
<1>7. v.node \in [Nodes -> PNodes]
  BY <1>1, TrieIs
<1>8. [v.node EXCEPT ![new] = r] \in [Nodes -> PNodes]
  BY <1>7
<1>9. /\ u \in Tries /\ u.head = t.head /\ u.nprefs = t.nprefs
      /\ u.node = [t.node EXCEPT ![new] = r] /\ u.free = Tail(f) /\ u.pages = v.pages
  BY <1>1, <1>4, <1>8 DEF Tries
<1>10. Ledger(Tail(f), v.pages, S \cup {new})
  <2> HIDE DEF f
  <2>1. \A i \in 1..Len(Tail(f)) : i + 1 \in 1..Len(f) /\ i + 1 # 1 /\ 1 \in 1..Len(f)
    BY <1>4
  <2>2. \A i \in 1..Len(Tail(f)) : /\ Tail(f)[i] \notin S \cup {new}
                                   /\ Tail(f)[i] <= v.pages * PageSize
    BY <1>4, <1>5, <2>1
  <2>3. \A i, j \in 1..Len(Tail(f)) : Tail(f)[i] = Tail(f)[j] => i = j
    <3>1. \A i, j \in 1..Len(Tail(f)) : Tail(f)[i] = Tail(f)[j] => i + 1 = j + 1
      BY <1>4, <1>5, <2>1
    <3> QED
      BY <3>1
  <2> QED
    BY <1>5, <1>6, <2>2, <2>3 DEF Ledger
<1> QED
  BY <1>3, <1>4, <1>6, <1>9, <1>10 DEF new, v, TakesNode

\* A fresh node has its type.
LEMMA UnusedIs == Unused \in PNodes /\ \A p \in Prefixes : Plain(p) \in PNodes
<1>1. MaxBitLen \in Nat /\ 0 \in 0..(MaxBitLen + 1)
  BY TrieAssumption
<1>2. <<>> \in Seq({0, 1})
  BY EmptySeq
<1>3. Unused \in PNodes
  BY <1>1, <1>2 DEF Unused, Glue, PNodes
<1>4. ASSUME NEW p \in Prefixes PROVE Plain(p) \in PNodes
  <2>1. p \in Seq({0, 1}) /\ Len(p) \in 0..(MaxBitLen + 1)
    BY <1>1, PrefixIs DEF Strings
  <2> QED
    BY <2>1 DEF Plain, Glue, PNodes
<1> QED
  BY <1>3, <1>4

\* u is t with the node n of S freed.
FreesNode(t, u, S, n) ==
    /\ u \in Tries /\ u.head = t.head /\ u.nprefs = t.nprefs
    /\ u.node = [t.node EXCEPT ![n] = Unused]
    /\ Ledger(u.free, u.pages, S \ {n})

\* A node of the tree goes to the free list.
LEMMA FreedIs ==
    ASSUME NEW t \in Tries, NEW S, Ledger(t.free, t.pages, S), S \subseteq Nodes, NEW n \in S
    PROVE  FreesNode(t, Freed(t, n), S, n)
<1> DEFINE f == t.free
           g == <<n>> \o f
           u == [t EXCEPT !.free = g, !.node = [t.node EXCEPT ![n] = Unused]]
<1>1. /\ f \in Seq(Nodes) /\ t.node \in [Nodes -> PNodes] /\ n \in Nodes
  BY TrieIs
<1>2. /\ g \in Seq(Nodes) /\ Len(g) = Len(f) + 1 /\ Len(f) \in Nat
      /\ g[1] = n /\ \A i \in 2..Len(g) : g[i] = f[i - 1]
  <2>1. <<n>> \in Seq(Nodes) /\ Len(<<n>>) = 1
    BY <1>1
  <2>2. Len(f) \in Nat
    BY <1>1, LenProperties
  <2>3. g \in Seq(Nodes) /\ Len(g) = 1 + Len(f)
    BY <1>1, <2>1, ConcatProperties
  <2>4. \A i \in 1..(1 + Len(f)) : g[i] = IF i <= 1 THEN <<n>>[i] ELSE f[i - 1]
    BY <1>1, <2>1, ConcatProperties
  <2> HIDE DEF g
  <2> QED
    BY <2>2, <2>3, <2>4
<1>3. u = Freed(t, n)
  <2>1. Freed(t, n) = [putfreenode(t, n) EXCEPT !.node[n] = Unused]
    BY DEF Freed
  <2>2. putfreenode(t, n) = [t EXCEPT !.free = g]
    BY DEF putfreenode
  <2> HIDE DEF g
  <2> QED
    BY <1>1, <2>1, <2>2 DEF Tries
<1> HIDE DEF g
<1>4. [t.node EXCEPT ![n] = Unused] \in [Nodes -> PNodes]
  BY <1>1, UnusedIs
<1>5. /\ u \in Tries /\ u.head = t.head /\ u.nprefs = t.nprefs
      /\ u.node = [t.node EXCEPT ![n] = Unused] /\ u.free = g /\ u.pages = t.pages
  BY <1>2, <1>4 DEF Tries
<1>6. Ledger(g, t.pages, S \ {n})
  <2>1. /\ \A i \in 1..Len(f) : f[i] \notin S /\ f[i] <= t.pages * PageSize
        /\ \A i, j \in 1..Len(f) : f[i] = f[j] => i = j
        /\ \A m \in S : m <= t.pages * PageSize
    BY DEF Ledger
  <2> HIDE DEF f
  <2>2. \A i \in 1..Len(g) : i = 1 \/ (i \in 2..Len(g) /\ i - 1 \in 1..Len(f))
    BY <1>2
  <2>3. \A i \in 1..Len(g) : i # 1 => g[i] \in {f[k] : k \in 1..Len(f)}
    BY <1>2, <2>2
  <2>4. \A i \in 1..Len(g) : g[i] \notin S \ {n} /\ g[i] <= t.pages * PageSize
    BY <1>2, <2>1, <2>3
  <2>5. \A i, j \in 1..Len(g) : g[i] = g[j] => i = j
    <3>1. \A i \in 1..Len(g) : g[i] = n => i = 1
      BY <2>1, <2>3
    <3>2. ASSUME NEW i \in 1..Len(g), NEW j \in 1..Len(g), g[i] = g[j], i # 1, j # 1 PROVE i = j
      <4>1. i - 1 \in 1..Len(f) /\ j - 1 \in 1..Len(f) /\ g[i] = f[i - 1] /\ g[j] = f[j - 1]
        BY <1>2, <2>2, <3>2
      <4>2. i - 1 = j - 1
        BY <2>1, <3>2, <4>1
      <4> QED
        BY <4>2
    <3> QED
      BY <1>2, <3>1, <3>2
  <2> QED
    BY <2>1, <2>4, <2>5 DEF Ledger
<1> QED
  BY <1>3, <1>5, <1>6 DEF FreesNode
-----------------------------------------------------------------------------
(* The calls on a sound trie *)

\* The trie t has the nodes S, that stand for a, and its free nodes are in order.
Sound(t, S, a) ==
    /\ t \in Tries /\ S \in SUBSET Nodes
    /\ Shape(t.head, t.node, S, a) /\ Forked(t.node, S) /\ Ledger(t.free, t.pages, S)

SetChild(nd, n, b, c) == [nd EXCEPT ![n].child[b] = c]
SetParent(nd, n, q) == [nd EXCEPT ![n].parent = q]

\* nd2 is nd with such a link, and nothing else changed.
ChildWritten(nd, nd2, n, b0, c) ==
    /\ nd2 \in [Nodes -> PNodes]
    /\ \A m \in Nodes : Keeps(nd, nd2, m) /\ nd2[m].parent = nd[m].parent
    /\ \A m \in Nodes : \A b \in {0, 1} :
          nd2[m].child[b] = IF m = n /\ b = b0 THEN c ELSE nd[m].child[b]

ParentWritten(nd, nd2, n, q) ==
    /\ nd2 \in [Nodes -> PNodes]
    /\ \A m \in Nodes : /\ Keeps(nd, nd2, m)
                        /\ nd2[m].parent = IF m = n THEN q ELSE nd[m].parent
    /\ \A m \in Nodes : \A b \in {0, 1} : nd2[m].child[b] = nd[m].child[b]

\* Setting one link down changes no other.
LEMMA SetChildIs ==
    ASSUME NEW nd \in [Nodes -> PNodes], NEW n \in Nodes, NEW b0 \in {0, 1}, NEW c \in Nodes \cup {Null}
    PROVE  ChildWritten(nd, SetChild(nd, n, b0, c), n, b0, c)
<1> DEFINE r == [nd[n] EXCEPT !.child[b0] = c]
           nd2 == [nd EXCEPT ![n] = r]
<1>1. SetChild(nd, n, b0, c) = nd2
  BY DEF SetChild
<1>2. /\ r \in PNodes /\ r.addr = nd[n].addr /\ r.len = nd[n].len /\ r.glue = nd[n].glue
      /\ r.parent = nd[n].parent
      /\ \A b \in {0, 1} : r.child[b] = IF b = b0 THEN c ELSE nd[n].child[b]
  <2>1. nd[n] \in PNodes
    OBVIOUS
  <2> DEFINE k == nd[n]
  <2> HIDE DEF k
  <2>2. k \in PNodes => /\ [k EXCEPT !.child[b0] = c] \in PNodes
                        /\ \A b \in {0, 1} : [k EXCEPT !.child[b0] = c].child[b] =
                              IF b = b0 THEN c ELSE k.child[b]
    BY DEF PNodes
  <2>3. k \in PNodes => /\ [k EXCEPT !.child[b0] = c].addr = k.addr
                        /\ [k EXCEPT !.child[b0] = c].len = k.len
                        /\ [k EXCEPT !.child[b0] = c].glue = k.glue
                        /\ [k EXCEPT !.child[b0] = c].parent = k.parent
    BY DEF PNodes
  <2> QED
    BY <2>1, <2>2, <2>3 DEF k
<1> HIDE DEF r
<1>3. nd2 \in [Nodes -> PNodes] /\ \A m \in Nodes : nd2[m] = IF m = n THEN r ELSE nd[m]
  BY <1>2
<1> HIDE DEF nd2
<1> QED
  BY <1>1, <1>2, <1>3 DEF Keeps, ChildWritten

\* Setting one link up changes no other.
LEMMA SetParentIs ==
    ASSUME NEW nd \in [Nodes -> PNodes], NEW n \in Nodes, NEW q \in Nodes \cup {Null}
    PROVE  ParentWritten(nd, SetParent(nd, n, q), n, q)
<1> DEFINE r == [nd[n] EXCEPT !.parent = q]
           nd2 == [nd EXCEPT ![n] = r]
<1>1. SetParent(nd, n, q) = nd2
  BY DEF SetParent
<1>2. /\ r \in PNodes /\ r.addr = nd[n].addr /\ r.len = nd[n].len /\ r.glue = nd[n].glue
      /\ r.parent = q /\ r.child = nd[n].child
  <2>1. nd[n] \in PNodes
    OBVIOUS
  <2> DEFINE k == nd[n]
  <2> HIDE DEF k
  <2>2. k \in PNodes => /\ [k EXCEPT !.parent = q] \in PNodes
                        /\ [k EXCEPT !.parent = q].addr = k.addr
                        /\ [k EXCEPT !.parent = q].len = k.len
                        /\ [k EXCEPT !.parent = q].glue = k.glue
                        /\ [k EXCEPT !.parent = q].parent = q
                        /\ [k EXCEPT !.parent = q].child = k.child
    BY DEF PNodes
  <2> QED
    BY <2>1, <2>2 DEF k
<1> HIDE DEF r
<1>3. nd2 \in [Nodes -> PNodes] /\ \A m \in Nodes : nd2[m] = IF m = n THEN r ELSE nd[m]
  BY <1>2
<1> HIDE DEF nd2
<1> QED
  BY <1>1, <1>2, <1>3 DEF Keeps, ParentWritten

\* v is u with such a head, such nodes and such a count.
TrieWritten(u, v, hd, nd, k) ==
    /\ v \in Tries /\ v.head = hd /\ v.node = nd /\ v.nprefs = k
    /\ v.free = u.free /\ v.pages = u.pages

\* A trie with another head, other nodes and another count.
LEMMA Written ==
    ASSUME NEW u \in Tries, NEW hd \in Nodes \cup {Null}, NEW nd \in [Nodes -> PNodes],
           NEW k \in 0..(CountMod - 1)
    PROVE  TrieWritten(u, [u EXCEPT !.head = hd, !.node = nd, !.nprefs = k], hd, nd, k)
  BY DEF Tries, TrieWritten

\* The counts stay in their range.
LEMMA CountIs ==
    ASSUME NEW k \in 0..(CountMod - 1)
    PROVE  (k + 1) % CountMod \in 0..(CountMod - 1) /\ (k - 1) % CountMod \in 0..(CountMod - 1)
<1>1. CountMod \in Nat \ {0}
  BY TrieAssumption
<1> QED
  BY <1>1

\* Nodes outside the tree do not count.
LEMMA Elsewhere ==
    ASSUME NEW h, NEW nd, NEW S, NEW a, Shape(h, nd, S, a), NEW nd2 \in [Nodes -> PNodes], NEW a2,
           \A m \in S : nd2[m] = nd[m] /\ a2[m] = a[m]
    PROVE  /\ Shape(h, nd2, S, a2)
           /\ Forked(nd, S) => Forked(nd2, S)
<1>1. ASSUME NEW m \in S PROVE Named(nd2, a2, m)
  <2>1. Named(nd, a, m)
    BY DEF Shape
  <2> QED
    BY <2>1 DEF Named
<1>2. ASSUME NEW m \in S PROVE Hangs(h, nd2, S, a2, m)
  <2>1. Hangs(h, nd, S, a, m)
    BY DEF Shape
  <2> QED
    BY <2>1 DEF Hangs
<1>3. ASSUME NEW m \in S, NEW b \in {0, 1} PROVE Leads(nd2, S, a2, m, b)
  <2>1. Leads(nd, S, a, m, b)
    BY DEF Shape
  <2> QED
    BY <2>1 DEF Leads
<1>4. Shape(h, nd2, S, a2)
  BY <1>1, <1>2, <1>3 DEF Shape
<1> QED
  BY <1>4 DEF Forked

\* The side on which a node hangs.
LEMMA SideIs ==
    ASSUME NEW t, NEW S, NEW a, Shape(t.head, t.node, S, a), NEW n \in S, n # t.head
    PROVE  Side(t, n) = Bit(a[n], t.node[t.node[n].parent].len)
<1> DEFINE q == t.node[n].parent
           b == Bit(a[n], t.node[q].len)
<1>1. q \in S /\ b \in {0, 1} /\ t.node[q].child[b] = n
  BY ParentIs
<1>2. n # Null
  BY NodesAre DEF Shape
<1>3. t.node[q].child[1] = n => b = 1
  BY <1>1, <1>2, ChildIs
<1> HIDE DEF q
<1> QED
  BY <1>1, <1>3 DEF Side, q

LinkWritten(t, u, q, b0, c) ==
    /\ u \in Tries /\ u.head = IF q = Null THEN c ELSE t.head
    /\ u.free = t.free /\ u.pages = t.pages /\ u.nprefs = t.nprefs
    /\ \A m \in Nodes : Keeps(t.node, u.node, m) /\ u.node[m].parent = t.node[m].parent
    /\ \A m \in Nodes : \A b \in {0, 1} :
          u.node[m].child[b] = IF q # Null /\ m = q /\ b = b0 THEN c ELSE t.node[m].child[b]

\* The link that leads to a node is the head or one child of its parent: redirecting it
\* changes no other link.
LEMMA RelinkedIs ==
    ASSUME NEW t \in Tries, NEW S, NEW a, Shape(t.head, t.node, S, a), NEW n \in S,
           NEW c \in Nodes \cup {Null}, NEW q, q = t.node[n].parent,
           NEW b0, q # Null => b0 = Bit(a[n], t.node[q].len)
    PROVE  LinkWritten(t, Relinked(t, n, c), q, b0, c)
<1>1. /\ t.head \in Nodes \cup {Null} /\ t.node \in [Nodes -> PNodes]
      /\ t.nprefs \in 0..(CountMod - 1)
  BY TrieIs
<1>2. CASE q = Null
  <2> DEFINE u == [t EXCEPT !.head = c]
  <2>1. Relinked(t, n, c) = u
    BY <1>2 DEF Relinked
  <2>2. /\ u \in Tries /\ u.head = c /\ u.node = t.node
        /\ u.free = t.free /\ u.pages = t.pages /\ u.nprefs = t.nprefs
    BY DEF Tries
  <2> HIDE DEF u
  <2> QED
    BY <1>2, <2>1, <2>2 DEF Keeps, LinkWritten
<1>3. CASE q # Null
  <2> DEFINE nd2 == SetChild(t.node, q, b0, c)
             u == [t EXCEPT !.head = t.head, !.node = nd2, !.nprefs = t.nprefs]
  <2>1. n # t.head
    BY <1>3, HeadIs
  <2>2. q \in Nodes /\ b0 \in {0, 1} /\ Side(t, n) = b0
    BY <2>1, ParentIs, SideIs
  <2>3. ChildWritten(t.node, nd2, q, b0, c)
    <3>1. t.node \in [Nodes -> PNodes] /\ q \in Nodes /\ b0 \in {0, 1} /\ c \in Nodes \cup {Null}
      BY <1>1, <2>2
    <3> QED
      BY <3>1, SetChildIs, Zenon
  <2>4. Relinked(t, n, c) = u
    <3>1. Relinked(t, n, c) = [t EXCEPT !.node[q].child[b0] = c]
      BY <1>3, <2>2 DEF Relinked
    <3> QED
      BY <3>1 DEF SetChild, Tries
  <2> HIDE DEF nd2
  <2>5. TrieWritten(t, u, t.head, nd2, t.nprefs)
    <3>1. /\ t \in Tries /\ t.head \in Nodes \cup {Null} /\ nd2 \in [Nodes -> PNodes]
          /\ t.nprefs \in 0..(CountMod - 1)
      BY <1>1, <2>3 DEF ChildWritten
    <3> QED
      BY <3>1, Written, Zenon
  <2> HIDE DEF u
  <2> QED
    BY <1>3, <2>3, <2>4, <2>5 DEF ChildWritten, TrieWritten, LinkWritten
<1> QED
  BY <1>2, <1>3

\* Whether there is a free node depends on the free list and the pages only.
LEMMA HasFreeIs ==
    ASSUME NEW t \in Tries
    PROVE  HasFree(t) <=> t.free # <<>> \/ t.pages < MaxPages
<1>1. CASE t.free = <<>> /\ t.pages < MaxPages
  <2>1. t.pages \in Nat
    BY TrieIs
  <2>2. Len(PageNodes(t.pages)) = PageSize
    BY <1>1, <2>1, PageIs
  <2>3. PageNodes(t.pages) # <<>>
    BY <2>2, EmptySeq, TrieAssumption
  <2>4. Refilled(t).free = PageNodes(t.pages)
    BY <1>1 DEF Refilled, Tries
  <2> QED
    BY <1>1, <2>3, <2>4 DEF HasFree
<1>2. CASE ~ (t.free = <<>> /\ t.pages < MaxPages)
  BY <1>2 DEF HasFree, Refilled
<1> QED
  BY <1>1, <1>2

\* What a node holds has no influence on whether there is a free one.
LEMMA SameRoom ==
    ASSUME NEW t, NEW S, NEW u, NEW v, NEW r, NEW s, NEW m, NEW n, NEW w \in Tries,
           TakesNode(t, u, S, r, m), TakesNode(t, v, S, s, n), w.free = u.free, w.pages = u.pages
    PROVE  HasFree(w) <=> HasFree(v)
<1>1. v \in Tries /\ v.free = w.free /\ v.pages = w.pages
  BY DEF TakesNode
<1> QED
  BY <1>1, HasFreeIs

\* t2 has the nodes S2, that stand for a2: those of t and one more, for p.
Grown(t, S, a, t2, S2, a2, p) ==
    /\ Sound(t2, S2, a2)
    /\ \E x \in Nodes \ S : Plains(t2, S2) = Plains(t, S) \cup {x} /\ a2[x] = p
    /\ \A m \in Plains(t, S) : a2[m] = a[m]
    /\ t2.nprefs = (t.nprefs + 1) % CountMod

\* The first prefix of a trie.
LEMMA FirstIs ==
    ASSUME NEW t, NEW S, NEW a, Sound(t, S, a), NEW p \in Prefixes, t.head = Null, HasFree(t)
    PROVE  \E S2, a2 : Grown(t, S, a, [Taken(t, Plain(p)) EXCEPT !.head = FreeNode(t),
                                                                 !.nprefs = (@ + 1) % CountMod], S2, a2, p)
<1> DEFINE r == Plain(p)
           new == FreeNode(t)
           u == Taken(t, r)
           k == (t.nprefs + 1) % CountMod
           v == [u EXCEPT !.head = new, !.node = u.node, !.nprefs = k]
           a2 == [m \in Nodes |-> p]
<1>1. t \in Tries /\ S = {} /\ Ledger(t.free, t.pages, S)
  BY DEF Sound, Shape
<1>2. TakesNode(t, u, S, r, new)
  <2>1. r \in PNodes /\ S \subseteq Nodes
    BY <1>1, UnusedIs
  <2> HIDE DEF r
  <2> QED
    BY <1>1, <2>1, TakenIs
<1>3. [u EXCEPT !.head = new, !.nprefs = (@ + 1) % CountMod] = v
  BY <1>2 DEF TakesNode, Tries
<1>4. IsLeaf([t.node EXCEPT ![new] = r], new, p) /\ [t.node EXCEPT ![new] = r][new].parent = Null
  BY <1>1, <1>2, TrieIs DEF TakesNode, IsLeaf, Plain, Glue
<1> HIDE DEF r, u, new
<1>5. TrieWritten(u, v, new, u.node, k)
  <2>1. u \in Tries /\ new \in Nodes \cup {Null} /\ u.node \in [Nodes -> PNodes]
    BY <1>2, TrieIs DEF TakesNode
  <2>2. k \in 0..(CountMod - 1)
    BY <1>1, TrieIs, CountIs
  <2> HIDE DEF k
  <2> QED
    BY <2>1, <2>2, Written
<1> HIDE DEF v, k
<1>6. /\ v \in Tries /\ v.head = new /\ v.nprefs = k /\ v.node = [t.node EXCEPT ![new] = r] /\ v.node \in [Nodes -> PNodes]
      /\ Ledger(v.free, v.pages, {new}) /\ new \in Nodes /\ new \notin S
  <2>1. S \cup {new} = {new}
    BY <1>1
  <2> QED
    BY <1>2, <1>5, <2>1, TrieIs DEF TakesNode, TrieWritten
<1>7. IsLeaf(v.node, new, p) /\ v.node[new].parent = Null
  BY <1>4, <1>6
<1>8. a2[new] = p
  BY <1>6
<1> HIDE DEF a2
<1>9. Shape(new, v.node, {new}, a2)
  BY <1>6, <1>7, <1>8, OnlyLeaf
<1>10. Forked(v.node, {new})
  BY <1>7 DEF Forked, IsLeaf
<1>11. Sound(v, {new}, a2)
  BY <1>6, <1>9, <1>10 DEF Sound
<1>12. Plains(v, {new}) = Plains(t, S) \cup {new} /\ Plains(t, S) = {}
  BY <1>1, <1>7 DEF Plains, IsLeaf
<1>13. Grown(t, S, a, v, {new}, a2, p)
  BY <1>6, <1>8, <1>11, <1>12 DEF Grown, k
<1> QED
  BY <1>3, <1>13 DEF u, r, new

\* A prefix below a node that is a prefix of it.
LEMMA BelowIs ==
    ASSUME NEW t, NEW S, NEW a, Sound(t, S, a), NEW p \in Prefixes, NEW d, NEW n,
           HangsFrom(t, S, a, p, d, n), HasFree(t)
    PROVE  \E S2, a2 : Grown(t, S, a, Below(t, n, p), S2, a2, p)
<1> DEFINE r == [Plain(p) EXCEPT !.parent = n]
           new == FreeNode(t)
           u == Taken(t, r)
           b0 == Bit(p, t.node[n].len)
           nd == SetChild(u.node, n, b0, new)
           k == (t.nprefs + 1) % CountMod
           v == [u EXCEPT !.head = u.head, !.node = nd, !.nprefs = k]
           a2 == [m \in Nodes |-> IF m = new THEN p ELSE a[m]]
           S2 == S \cup {new}
<1>1. /\ t \in Tries /\ S \subseteq Nodes /\ Ledger(t.free, t.pages, S)
      /\ Shape(t.head, t.node, S, a) /\ Forked(t.node, S) /\ t.node \in [Nodes -> PNodes]
  BY TrieIs DEF Sound
<1>2. n \in S /\ n \in Nodes /\ t.node[n].len = d /\ d < Len(p) /\ Agree(a[n], p, d)
      /\ t.node[n].child[b0] = Null
  BY <1>1 DEF HangsFrom, Toward
<1>3. r \in PNodes /\ r.parent = n /\ r.addr = p /\ r.len = Len(p) /\ r.glue = FALSE
      /\ \A b \in {0, 1} : r.child[b] = Null
  <2>1. Plain(p) \in PNodes
    BY UnusedIs
  <2>2. \A x \in PNodes : [x EXCEPT !.parent = n] \in PNodes /\ [x EXCEPT !.parent = n].parent = n
    BY <1>2 DEF PNodes
  <2>3. r \in PNodes /\ r.parent = n
    BY <2>1, <2>2
  <2>4. r.addr = p /\ r.len = Len(p) /\ r.glue = FALSE /\ \A b \in {0, 1} : r.child[b] = Null
    BY DEF Plain, Glue
  <2> QED
    BY <2>3, <2>4
<1> HIDE DEF r
<1>4. TakesNode(t, u, S, r, new)
  BY <1>1, <1>3, TakenIs
<1> HIDE DEF new
<1>5. Below(t, n, p) = v
  <2>1. Below(t, n, p) = [u EXCEPT !.node[n].child[b0] = new, !.nprefs = (@ + 1) % CountMod]
    BY DEF Below, new, r
  <2> HIDE DEF u
  <2> QED
    BY <1>4, <2>1 DEF TakesNode, Tries, SetChild
<1> HIDE DEF u
<1>6. /\ u \in Tries /\ u.node = [t.node EXCEPT ![new] = r] /\ u.node \in [Nodes -> PNodes]
      /\ u.head = t.head /\ new \in Nodes /\ new \notin S /\ new # Null /\ new # n
      /\ Ledger(u.free, u.pages, S2)
  BY <1>2, <1>4, TrieIs, NodesAre DEF TakesNode
<1>7. b0 \in {0, 1}
  BY <1>1, <1>2, NodeIs, PrefixIs, BitIs
<1> HIDE DEF b0
<1>8. ChildWritten(u.node, nd, n, b0, new)
  BY <1>2, <1>6, <1>7, SetChildIs
<1> HIDE DEF nd
<1>9. TrieWritten(u, v, u.head, nd, k)
  <2>1. u.head \in Nodes \cup {Null} /\ nd \in [Nodes -> PNodes]
    BY <1>6, <1>8, TrieIs DEF ChildWritten
  <2>2. k \in 0..(CountMod - 1)
    BY <1>1, TrieIs, CountIs
  <2> HIDE DEF k
  <2> QED
    BY <1>6, <2>1, <2>2, Written
<1> HIDE DEF v, k
<1>10. /\ v \in Tries /\ v.head = t.head /\ v.nprefs = k /\ v.node = nd /\ nd \in [Nodes -> PNodes]
       /\ Ledger(v.free, v.pages, S2)
  BY <1>6, <1>8, <1>9 DEF TrieWritten, ChildWritten
<1>11. \A m \in S : u.node[m] = t.node[m] /\ m # new /\ m \in Nodes
  BY <1>1, <1>6
<1>12. u.node[new] = r
  BY <1>1, <1>6
<1>13. IsLeaf(nd, new, p) /\ nd[new].parent = n
  BY <1>3, <1>6, <1>8, <1>12 DEF ChildWritten, Keeps, IsLeaf
<1>14. /\ \A m \in S : Keeps(t.node, nd, m) /\ a2[m] = a[m] /\ nd[m].parent = t.node[m].parent
       /\ \A m \in S : \A b \in {0, 1} :
             nd[m].child[b] = IF m = n /\ b = b0 THEN new ELSE t.node[m].child[b]
       /\ a2[new] = p
  BY <1>6, <1>8, <1>11 DEF ChildWritten, Keeps
<1> HIDE DEF a2
<1>15. Shape(t.head, nd, S2, a2)
  <2>1. b0 = Bit(p, t.node[n].len)
    BY DEF b0
  <2> QED
    BY <1>1, <1>2, <1>6, <1>10, <1>13, <1>14, <2>1, LeafAdded
<1>16. Forked(nd, S2)
  <2> SUFFICES ASSUME NEW m \in S2, nd[m].glue, NEW b \in {0, 1} PROVE nd[m].child[b] # Null
    BY DEF Forked
  <2>1. m # new
    BY <1>13 DEF IsLeaf
  <2>2. m \in S /\ t.node[m].glue
    BY <1>14, <2>1 DEF Keeps
  <2>3. t.node[m].child[b] # Null
    BY <1>1, <2>2 DEF Forked
  <2> QED
    BY <1>6, <1>14, <2>2, <2>3
<1>17. S2 \in SUBSET Nodes
  BY <1>1, <1>6
<1>18. Plains(v, S2) = Plains(t, S) \cup {new}
  BY <1>10, <1>13, <1>14 DEF Plains, IsLeaf, Keeps
<1> HIDE DEF S2
<1>19. Sound(v, S2, a2)
  BY <1>10, <1>15, <1>16, <1>17 DEF Sound
<1>20. Grown(t, S, a, v, S2, a2, p)
  BY <1>6, <1>10, <1>14, <1>18, <1>19 DEF Grown, Plains, k
<1> QED
  BY <1>5, <1>20

\* p beside n under new glue, when there is memory for both.
LEMMA BesideIs ==
    ASSUME NEW t, NEW S, NEW a, Sound(t, S, a), NEW p \in Prefixes, NEW d, NEW n, d \in Nat,
           PartsFrom(t, S, a, p, d, n), HasFree(t), HasFree(Taken(t, Unused))
    PROVE  \E S2, a2 : Grown(t, S, a, Beside(t, n, p, d), S2, a2, p)
<1> DEFINE new == FreeNode(t)
           u1 == Taken(t, Plain(p))
           k == (t.nprefs + 1) % CountMod
           t1 == [u1 EXCEPT !.head = u1.head, !.node = u1.node, !.nprefs = k]
           g == FreeNode(t1)
           q == t.node[n].parent
           b1 == Bit(p, d)
           r2 == [Glue(d) EXCEPT !.parent = q, !.child = [b \in {0, 1} |-> IF b = b1 THEN new ELSE n]]
           t2 == Taken(t1, r2)
           t3 == Relinked(t2, n, g)
           nd1 == SetParent(t3.node, new, g)
           nd2 == SetParent(nd1, n, g)
           t4 == [t3 EXCEPT !.head = t3.head, !.node = nd2, !.nprefs = t3.nprefs]
           b0 == Bit(a[n], t.node[q].len)
           S1 == S \cup {new}
           S2 == S \cup {new, g}
           a2 == [m \in Nodes |-> IF m = new THEN p ELSE IF m = g THEN SubSeq(p, 1, d) ELSE a[m]]
<1>1. /\ t \in Tries /\ S \subseteq Nodes /\ Ledger(t.free, t.pages, S)
      /\ Shape(t.head, t.node, S, a) /\ Forked(t.node, S) /\ t.node \in [Nodes -> PNodes]
  BY TrieIs DEF Sound
<1>2. /\ n \in S /\ n \in Nodes /\ d < t.node[n].len /\ d < Len(p) /\ Agree(a[n], p, d)
      /\ Bit(a[n], d) # Bit(p, d) /\ t.node[n].len \in Nat
      /\ (q # Null => t.node[q].len < d) /\ q \in Nodes \cup {Null}
  BY <1>1, NodeIs DEF PartsFrom
<1>3. p \in Strings /\ Len(p) \in Nat /\ Len(p) <= MaxBitLen /\ b1 \in {0, 1} /\ Plain(p) \in PNodes
  BY PrefixIs, BitIs, UnusedIs, TrieAssumption
<1>4. TakesNode(t, u1, S, Plain(p), new) /\ TakesNode(t, Taken(t, Unused), S, Unused, new)
  BY <1>1, <1>3, UnusedIs, TakenIs
<1> HIDE DEF new
<1>5. /\ u1 \in Tries /\ u1.node = [t.node EXCEPT ![new] = Plain(p)] /\ u1.node \in [Nodes -> PNodes]
      /\ u1.head = t.head /\ u1.head \in Nodes \cup {Null}
      /\ new \in Nodes /\ new \notin S /\ new # Null /\ new # n
      /\ Ledger(u1.free, u1.pages, S1)
  BY <1>2, <1>4, TrieIs, NodesAre DEF TakesNode
<1>6. t1 = [u1 EXCEPT !.nprefs = (@ + 1) % CountMod]
  BY <1>4 DEF TakesNode, Tries
<1>7. TrieWritten(u1, t1, t.head, u1.node, k)
  <2>1. k \in 0..(CountMod - 1)
    BY <1>1, TrieIs, CountIs
  <2> HIDE DEF k, u1
  <2> QED
    BY <1>5, <2>1, Written
<1>8. Beside(t, n, p, d) = IF HasFree(t1)
                             THEN [t3 EXCEPT !.node[new].parent = g, !.node[n].parent = g]
                             ELSE t1
  <2> HIDE DEF t1
  <2> QED
    BY <1>6 DEF Beside, u1, new, r2
<1>9. HasFree(t1)
  <2>1. t1 \in Tries /\ t1.free = u1.free /\ t1.pages = u1.pages
    BY <1>7 DEF TrieWritten
  <2> HIDE DEF t1, u1
  <2> QED
    BY <1>4, <2>1, SameRoom
<1> HIDE DEF t1, u1, k
<1>10. /\ t1 \in Tries /\ t1.nprefs = k /\ t1.head = t.head /\ t1.node = [t.node EXCEPT ![new] = Plain(p)]
       /\ S1 \subseteq Nodes /\ Ledger(t1.free, t1.pages, S1) /\ t1.node \in [Nodes -> PNodes]
  BY <1>1, <1>5, <1>7 DEF TrieWritten
<1>11. /\ r2 \in PNodes /\ r2.parent = q /\ r2.len = d /\ r2.glue = TRUE
       /\ \A b \in {0, 1} : r2.child[b] = IF b = b1 THEN new ELSE n
  <2> DEFINE ch == [b \in {0, 1} |-> IF b = b1 THEN new ELSE n]
  <2>1. \A b \in {0, 1} : ch[b] = IF b = b1 THEN new ELSE n
    OBVIOUS
  <2>2. ch \in [{0, 1} -> Nodes \cup {Null}]
    BY <1>2, <1>5
  <2> HIDE DEF ch
  <2>3. d \in 0..(MaxBitLen + 1) /\ <<>> \in Seq({0, 1})
    BY <1>2, <1>3, TrieAssumption
  <2>4. Glue(d) \in PNodes
    BY <2>2, <2>3 DEF Glue, PNodes
  <2>5. \A x \in PNodes : /\ [x EXCEPT !.parent = q, !.child = ch] \in PNodes
                          /\ [x EXCEPT !.parent = q, !.child = ch].parent = q
                          /\ [x EXCEPT !.parent = q, !.child = ch].child = ch
                          /\ [x EXCEPT !.parent = q, !.child = ch].len = x.len
                          /\ [x EXCEPT !.parent = q, !.child = ch].glue = x.glue
    BY <1>2, <2>2 DEF PNodes
  <2>6. r2 = [Glue(d) EXCEPT !.parent = q, !.child = ch]
    BY DEF ch
  <2>7. Glue(d).len = d /\ Glue(d).glue = TRUE
    BY DEF Glue
  <2>8. r2 \in PNodes /\ r2.parent = q /\ r2.child = ch /\ r2.len = d /\ r2.glue = TRUE
    BY <2>4, <2>5, <2>6, <2>7
  <2> HIDE DEF r2
  <2> QED
    BY <2>1, <2>8
<1> HIDE DEF r2
<1>12. TakesNode(t1, t2, S1, r2, g)
  BY <1>9, <1>10, <1>11, TakenIs
<1> HIDE DEF g, t2
<1>13. /\ t2 \in Tries /\ t2.nprefs = k /\ t2.head = t.head /\ t2.node = [t1.node EXCEPT ![g] = r2]
       /\ t2.node \in [Nodes -> PNodes]
       /\ g \in Nodes /\ g \notin S /\ g # new /\ g # Null /\ g # n
       /\ Ledger(t2.free, t2.pages, S2)
  <2>1. t2 \in Tries /\ t2.nprefs = t1.nprefs /\ t2.head = t1.head /\ t2.node = [t1.node EXCEPT ![g] = r2]
        /\ g \in Nodes /\ g \notin S1 /\ Ledger(t2.free, t2.pages, S1 \cup {g})
    BY <1>12 DEF TakesNode
  <2>2. S2 = S1 \cup {g}
    OBVIOUS
  <2>3. g \notin S /\ g # new /\ g # n /\ g # Null
    BY <1>2, <2>1, NodesAre
  <2>4. t2.node \in [Nodes -> PNodes]
    BY <2>1, TrieIs
  <2> QED
    BY <1>10, <2>1, <2>2, <2>3, <2>4
<1>14. \A m \in S : t2.node[m] = t.node[m] /\ m # new /\ m # g /\ m \in Nodes
  BY <1>1, <1>5, <1>10, <1>13
<1>15. t2.node[new] = Plain(p) /\ t2.node[g] = r2
  BY <1>1, <1>5, <1>10, <1>13
<1>16. Shape(t2.head, t2.node, S, a)
  BY <1>1, <1>13, <1>14, Elsewhere
<1>17. q = t2.node[n].parent /\ (q # Null => q \in S /\ b0 = Bit(a[n], t2.node[q].len))
  <2>1. q = t2.node[n].parent
    BY <1>2, <1>14
  <2>2. q # Null => q \in S
    <3>1. q # Null => n # t.head
      BY <1>1, <1>2, HeadIs
    <3> QED
      BY <1>1, <1>2, <3>1, ParentIs
  <2>3. q # Null => t2.node[q].len = t.node[q].len
    BY <1>14, <2>2
  <2> QED
    BY <2>1, <2>2, <2>3
<1> HIDE DEF t3, b0, q
<1>18. LinkWritten(t2, t3, q, b0, g)
  <2>1. t2 \in Tries /\ n \in S /\ g \in Nodes \cup {Null} /\ q = t2.node[n].parent
        /\ (q # Null => b0 = Bit(a[n], t2.node[q].len)) /\ t2.head = t.head
    BY <1>2, <1>13, <1>17
  <2> QED
    BY <1>16, <2>1, RelinkedIs, Zenon DEF t3
<1>18a. /\ t3 \in Tries /\ t3.head = IF q = Null THEN g ELSE t.head
        /\ t3.free = t2.free /\ t3.pages = t2.pages /\ t3.nprefs = k
        /\ \A m \in Nodes : Keeps(t2.node, t3.node, m) /\ t3.node[m].parent = t2.node[m].parent
        /\ \A m \in Nodes : \A b \in {0, 1} :
              t3.node[m].child[b] = IF q # Null /\ m = q /\ b = b0 THEN g ELSE t2.node[m].child[b]
  BY <1>13, <1>18 DEF LinkWritten
<1>19. t3.node \in [Nodes -> PNodes] /\ t3.head \in Nodes \cup {Null} /\ t3.nprefs \in 0..(CountMod - 1)
  BY <1>18a, TrieIs
<1> HIDE DEF nd1, nd2
<1>20. ParentWritten(t3.node, nd1, new, g)
  BY <1>5, <1>13, <1>19, SetParentIs DEF nd1
<1>21. ParentWritten(nd1, nd2, n, g)
  <2>1. nd1 \in [Nodes -> PNodes]
    BY <1>20 DEF ParentWritten
  <2> QED
    BY <1>2, <1>13, <2>1, SetParentIs DEF nd2
<1>22. [t3 EXCEPT !.node[new].parent = g, !.node[n].parent = g] = t4
  BY <1>18a DEF Tries, nd2, nd1, SetParent
<1>23. TrieWritten(t3, t4, t3.head, nd2, t3.nprefs)
  <2>1. nd2 \in [Nodes -> PNodes]
    BY <1>21 DEF ParentWritten
  <2> QED
    BY <1>18a, <1>19, <2>1, Written
<1> HIDE DEF t4
<1>24. Beside(t, n, p, d) = t4
  BY <1>8, <1>9, <1>22
<1>25. /\ t4 \in Tries /\ t4.nprefs = k /\ t4.head = t3.head /\ t4.node = nd2 /\ nd2 \in [Nodes -> PNodes]
       /\ Ledger(t4.free, t4.pages, S2)
  BY <1>13, <1>18a, <1>21, <1>23 DEF TrieWritten, ParentWritten
<1>26. /\ \A m \in Nodes : /\ Keeps(t2.node, nd2, m)
                           /\ nd2[m].parent = IF m \in {new, n} THEN g ELSE t2.node[m].parent
       /\ \A m \in Nodes : \A b \in {0, 1} :
             nd2[m].child[b] = IF q # Null /\ m = q /\ b = b0 THEN g ELSE t2.node[m].child[b]
  BY <1>18a, <1>20, <1>21 DEF ParentWritten, Keeps
<1>27. q \notin {new, g}
  BY <1>5, <1>13, <1>14, <1>17
<1>28. IsLeaf(nd2, new, p) /\ nd2[new].parent = g
  <2>1. IsLeaf(t2.node, new, p)
    BY <1>15 DEF IsLeaf, Plain, Glue
  <2> QED
    BY <1>5, <1>26, <1>27, <2>1 DEF IsLeaf, Keeps
<1>29. /\ nd2[g].glue = TRUE /\ nd2[g].len = d /\ nd2[g].parent = q
       /\ \A b \in {0, 1} : nd2[g].child[b] = IF b = b1 THEN new ELSE n
  BY <1>11, <1>13, <1>15, <1>26, <1>27 DEF Keeps
<1>30. /\ \A m \in S : /\ Keeps(t.node, nd2, m) /\ a2[m] = a[m]
                       /\ nd2[m].parent = IF m = n THEN g ELSE t.node[m].parent
       /\ \A m \in S : \A b \in {0, 1} :
             nd2[m].child[b] = IF q # Null /\ m = q /\ b = b0 THEN g ELSE t.node[m].child[b]
  BY <1>14, <1>26 DEF Keeps
<1>31. a2[new] = p /\ a2[g] = SubSeq(p, 1, d)
  BY <1>5, <1>13
<1> HIDE DEF a2
<1>32. Shape(t4.head, nd2, S2, a2)
  <2>1. /\ q = t.node[n].parent /\ (q # Null => t.node[q].len < d)
        /\ (q # Null => b0 = Bit(a[n], t.node[q].len))
    BY <1>2 DEF q, b0
  <2>2. t4.head = IF q = Null THEN g ELSE t.head
    BY <1>18a, <1>25
  <2>3. \A b \in {0, 1} : nd2[g].child[b] = IF b = Bit(p, d) THEN new ELSE n
    BY <1>29
  <2> HIDE DEF b1
  <2>4. GlueBetween(t.node, S, a, n, new, g, p, d, q, b0, nd2, a2)
    BY <1>2, <1>5, <1>13, <1>25, <1>28, <1>29, <1>30, <1>31, <2>1, <2>3 DEF GlueBetween
  <2> QED
    BY <1>1, <2>2, <2>4, GlueAdded
<1>33. Forked(nd2, S2)
  <2> SUFFICES ASSUME NEW m \in S2, nd2[m].glue, NEW b \in {0, 1} PROVE nd2[m].child[b] # Null
    BY DEF Forked
  <2>1. m # new
    BY <1>28 DEF IsLeaf
  <2>2. CASE m = g
    <3>1. n # Null
      BY <1>2, NodesAre
    <3> QED
      BY <1>5, <1>29, <2>2, <3>1
  <2>3. CASE m \in S
    <3>1. t.node[m].glue
      BY <1>30, <2>3 DEF Keeps
    <3>2. t.node[m].child[b] # Null
      BY <1>1, <2>3, <3>1 DEF Forked
    <3> QED
      BY <1>13, <1>30, <2>3, <3>2
  <2> QED
    BY <2>1, <2>2, <2>3
<1>34. S2 \in SUBSET Nodes
  BY <1>1, <1>5, <1>13
<1>35. Plains(t4, S2) = Plains(t, S) \cup {new}
  BY <1>25, <1>28, <1>29, <1>30 DEF Plains, IsLeaf, Keeps
<1> HIDE DEF S2
<1>36. Sound(t4, S2, a2)
  BY <1>25, <1>32, <1>33, <1>34 DEF Sound
<1>37. Grown(t, S, a, t4, S2, a2, p)
  BY <1>5, <1>25, <1>30, <1>31, <1>35, <1>36 DEF Grown, Plains, k
<1> QED
  BY <1>24, <1>37

\* t2 has the same nodes.
Stays(t, S, a, t2) ==
    Sound(t2, S, a) /\ Plains(t2, S) = Plains(t, S)

\* The same without memory for the glue: the tree is as it was.
LEMMA LostIs ==
    ASSUME NEW t, NEW S, NEW a, Sound(t, S, a), NEW p \in Prefixes, NEW d, NEW n,
           HasFree(t), ~HasFree(Taken(t, Unused))
    PROVE  Stays(t, S, a, Beside(t, n, p, d)) /\ Beside(t, n, p, d).nprefs = (t.nprefs + 1) % CountMod
<1> DEFINE new == FreeNode(t)
           u1 == Taken(t, Plain(p))
           k == (t.nprefs + 1) % CountMod
           t1 == [u1 EXCEPT !.head = u1.head, !.node = u1.node, !.nprefs = k]
           S1 == S \cup {new}
<1>1. /\ t \in Tries /\ S \subseteq Nodes /\ Ledger(t.free, t.pages, S)
      /\ Shape(t.head, t.node, S, a) /\ Forked(t.node, S) /\ t.node \in [Nodes -> PNodes]
  BY TrieIs DEF Sound
<1>2. Plain(p) \in PNodes
  BY UnusedIs
<1>3. TakesNode(t, u1, S, Plain(p), new) /\ TakesNode(t, Taken(t, Unused), S, Unused, new)
  BY <1>1, <1>2, UnusedIs, TakenIs
<1> HIDE DEF new
<1>4. /\ u1 \in Tries /\ u1.node = [t.node EXCEPT ![new] = Plain(p)] /\ u1.node \in [Nodes -> PNodes]
      /\ u1.head = t.head /\ u1.head \in Nodes \cup {Null}
      /\ new \in Nodes /\ new \notin S /\ Ledger(u1.free, u1.pages, S1)
  BY <1>3, TrieIs DEF TakesNode
<1>5. t1 = [u1 EXCEPT !.nprefs = (@ + 1) % CountMod]
  BY <1>3 DEF TakesNode, Tries
<1>6. TrieWritten(u1, t1, t.head, u1.node, k)
  <2>1. k \in 0..(CountMod - 1)
    BY <1>1, TrieIs, CountIs
  <2> HIDE DEF k, u1
  <2> QED
    BY <1>4, <2>1, Written
<1>7. HasFree(t1) \/ Beside(t, n, p, d) = t1
  <2> HIDE DEF t1
  <2> QED
    BY <1>5 DEF Beside, u1, new
<1>8. ~HasFree(t1)
  <2>1. t1 \in Tries /\ t1.free = u1.free /\ t1.pages = u1.pages
    BY <1>6 DEF TrieWritten
  <2> HIDE DEF t1, u1
  <2> QED
    BY <1>3, <2>1, SameRoom
<1>8a. t1.nprefs = (t.nprefs + 1) % CountMod
  BY <1>6 DEF TrieWritten
<1> HIDE DEF t1, u1, k
<1>9. /\ t1 \in Tries /\ t1.head = t.head /\ t1.node \in [Nodes -> PNodes]
      /\ Ledger(t1.free, t1.pages, S1)
      /\ \A m \in S : t1.node[m] = t.node[m]
  BY <1>1, <1>4, <1>6 DEF TrieWritten
<1>10. Ledger(t1.free, t1.pages, S)
  BY <1>9 DEF Ledger
<1>11. Shape(t1.head, t1.node, S, a) /\ Forked(t1.node, S)
  BY <1>1, <1>9, Elsewhere
<1>12. Plains(t1, S) = Plains(t, S)
  BY <1>9 DEF Plains
<1>13. Stays(t, S, a, t1)
  BY <1>1, <1>9, <1>10, <1>11, <1>12 DEF Stays, Sound
<1> QED
  BY <1>7, <1>8, <1>8a, <1>13

\* A node with one child, c, taken out and freed: the second half of LeafRemoved,
\* and ChainRemoved.
Spliced(t, x, c, q) == Freed([Relinked(t, x, c) EXCEPT !.node[c].parent = q], x)

\* u is t without the node x of S, whose other nodes keep what they hold and lose no
\* child.
NodeLeft(t, S, a, u, x) ==
    /\ u \in Tries /\ Shape(u.head, u.node, S \ {x}, a) /\ Ledger(u.free, u.pages, S \ {x})
    /\ u.nprefs = t.nprefs
    /\ \A m \in S \ {x} : /\ Keeps(t.node, u.node, m)
                          /\ \A b \in {0, 1} : t.node[m].child[b] # Null => u.node[m].child[b] # Null

\* A node with one child goes to the free list, and the child takes its place.
LEMMA SplicedIs ==
    ASSUME NEW t \in Tries, NEW S \in SUBSET Nodes, NEW a, Shape(t.head, t.node, S, a),
           Ledger(t.free, t.pages, S),
           NEW x \in S, NEW b1 \in {0, 1}, NEW c, c = t.node[x].child[b1], c # Null,
           \A b \in {0, 1} : b # b1 => t.node[x].child[b] = Null,
           NEW q, q = t.node[x].parent
    PROVE  NodeLeft(t, S, a, Spliced(t, x, c, q), x)
<1> DEFINE b0 == Bit(a[x], t.node[q].len)
           t1 == Relinked(t, x, c)
           nd == SetParent(t1.node, c, q)
           t2 == [t1 EXCEPT !.head = t1.head, !.node = nd, !.nprefs = t1.nprefs]
           u == Freed(t2, x)
           T == S \ {x}
<1>1. /\ t.node \in [Nodes -> PNodes] /\ c \in S /\ c \in Nodes /\ c # x /\ c # Null
      /\ q \in Nodes \cup {Null} /\ x \in Nodes
  BY ChildIs, TrieIs, NodeIs
<1> HIDE DEF b0
<1>2. LinkWritten(t, t1, q, b0, c)
  <2>1. t \in Tries /\ x \in S /\ c \in Nodes \cup {Null} /\ q = t.node[x].parent
        /\ (q # Null => b0 = Bit(a[x], t.node[q].len))
    BY <1>1 DEF b0
  <2> QED
    BY <2>1, RelinkedIs
<1> HIDE DEF t1
<1>3. /\ t1 \in Tries /\ t1.node \in [Nodes -> PNodes] /\ t1.head \in Nodes \cup {Null}
      /\ t1.nprefs \in 0..(CountMod - 1) /\ t1.free = t.free /\ t1.pages = t.pages
      /\ t1.nprefs = t.nprefs
  BY <1>2, TrieIs DEF LinkWritten
<1>4. ParentWritten(t1.node, nd, c, q)
  BY <1>1, <1>3, SetParentIs
<1>5. [t1 EXCEPT !.node[c].parent = q] = t2
  BY <1>3 DEF Tries, SetParent
<1> HIDE DEF nd
<1>6. TrieWritten(t1, t2, t1.head, nd, t1.nprefs)
  <2>1. nd \in [Nodes -> PNodes]
    BY <1>4 DEF ParentWritten
  <2> QED
    BY <1>3, <2>1, Written
<1>7. Spliced(t, x, c, q) = u
  BY <1>5 DEF Spliced, t1
<1> HIDE DEF t2
<1>8. FreesNode(t2, u, S, x)
  <2>1. t2 \in Tries /\ Ledger(t2.free, t2.pages, S)
    BY <1>3, <1>6 DEF TrieWritten
  <2> QED
    BY <2>1, FreedIs
<1> HIDE DEF u
<1>9. /\ u \in Tries /\ u.head = IF q = Null THEN c ELSE t.head
      /\ u.node = [nd EXCEPT ![x] = Unused] /\ u.node \in [Nodes -> PNodes]
      /\ Ledger(u.free, u.pages, T) /\ u.nprefs = t.nprefs
  BY <1>2, <1>3, <1>6, <1>8, TrieIs DEF FreesNode, TrieWritten, LinkWritten
<1>10. \A m \in T : u.node[m] = nd[m] /\ m \in Nodes
  BY <1>4, <1>9 DEF ParentWritten
<1>11. /\ \A m \in T : /\ Keeps(t.node, u.node, m)
                       /\ u.node[m].parent = IF m = c THEN q ELSE t.node[m].parent
       /\ \A m \in T : \A b \in {0, 1} :
             u.node[m].child[b] = IF q # Null /\ m = q /\ b = b0 THEN c ELSE t.node[m].child[b]
  BY <1>2, <1>4, <1>10 DEF LinkWritten, ParentWritten, Keeps
<1>12. Shape(u.head, u.node, T, a)
  <2>1. q # Null => b0 = Bit(a[x], t.node[q].len)
    BY DEF b0
  <2> QED
    <3> DEFINE hd == u.head
               nd2 == u.node
    <3>1. (q = Null => hd = c) /\ (q # Null => hd = t.head)
      BY <1>9
    <3>2. ChildBetween(t.head, t.node, S, a, x, b1, c, q, b0, hd, nd2)
      BY <1>9, <1>11, <2>1, <3>1 DEF ChildBetween
    <3> HIDE DEF hd, nd2
    <3>3. Shape(t.head, t.node, S, a)
      OBVIOUS
    <3>4. Shape(hd, nd2, S \ {x}, a)
      BY <3>2, <3>3, NodeSpliced, Zenon
    <3> QED
      BY <3>4 DEF hd, nd2
<1>13. NodeLeft(t, S, a, u, x)
  BY <1>1, <1>9, <1>11, <1>12 DEF NodeLeft
<1> QED
  BY <1>7, <1>13

\* A head without children is the only node.
LEMMA LoneHead ==
    ASSUME NEW h, NEW nd, NEW S, NEW a, Shape(h, nd, S, a), h # Null,
           \A b \in {0, 1} : nd[h].child[b] = Null
    PROVE  S = {h}
<1> DEFINE R == S \ {h}
           L == {nd[m].len : m \in R}
<1> SUFFICES ASSUME R # {} PROVE FALSE
  BY DEF Shape
<1>1. nd \in [Nodes -> PNodes] /\ S \subseteq Nodes
  BY DEF Shape
<1>2. \A m \in S : nd[m].len \in Nat
  BY <1>1, NodeIs
<1>3. L \in SUBSET Nat /\ L # {}
  BY <1>2
<1>4. Min(L) \in L /\ \A k \in L : Min(L) <= k
  BY <1>3, MinIsLeast
<1>5. PICK m \in R : nd[m].len = Min(L)
  BY <1>4
<1> DEFINE q == nd[m].parent
<1>6. q \in S /\ nd[q].len < nd[m].len /\ Bit(a[m], nd[q].len) \in {0, 1}
      /\ nd[q].child[Bit(a[m], nd[q].len)] = m
  BY ParentIs
<1>7. m # Null
  BY <1>1, NodesAre
<1>8. q # h
  BY <1>6, <1>7
<1> HIDE DEF q
<1>9. nd[q].len \in L
  BY <1>6, <1>8
<1>10. nd[m].len <= nd[q].len
  BY <1>4, <1>5, <1>9
<1>11. nd[m].len \in Nat /\ nd[q].len \in Nat
  BY <1>2, <1>6
<1> QED
  BY <1>6, <1>10, <1>11

\* t2 has the same nodes but the plain node n, and perhaps glue.
Shrunk(t, S, a, t2, S2, n) ==
    Sound(t2, S2, a) /\ Plains(t2, S2) = Plains(t, S) \ {n} /\ t2.nprefs = t.nprefs

\* Removing a plain node with one child leaves a sound trie without its prefix.
LEMMA ChainIs ==
    ASSUME NEW t, NEW S, NEW a, Sound(t, S, a), NEW n \in Plains(t, S), NEW b1 \in {0, 1},
           t.node[n].child[b1] # Null, t.node[n].child[1 - b1] = Null
    PROVE  Shrunk(t, S, a, ChainRemoved(t, n), S \ {n}, n)
<1> DEFINE c == t.node[n].child[b1]
           q == t.node[n].parent
           u == ChainRemoved(t, n)
<1>1. /\ t \in Tries /\ S \in SUBSET Nodes /\ Shape(t.head, t.node, S, a) /\ Forked(t.node, S)
      /\ Ledger(t.free, t.pages, S) /\ n \in S
  BY DEF Sound, Plains
<1>2. \A b \in {0, 1} : b # b1 => t.node[n].child[b] = Null
  <2>1. \A b \in {0, 1} : b # b1 => b = 1 - b1
    OBVIOUS
  <2> QED
    BY <2>1
<1>3. c = t.node[n].child[IF t.node[n].child[1] # Null THEN 1 ELSE 0]
  BY <1>2
<1>4. u = Spliced(t, n, c, q)
  BY <1>3 DEF ChainRemoved, Spliced
<1> HIDE DEF u, q
<1>5. NodeLeft(t, S, a, Spliced(t, n, c, q), n)
  <2>1. c # Null /\ c = t.node[n].child[b1] /\ q = t.node[n].parent
    BY DEF q
  <2> HIDE DEF c
  <2> QED
    BY <1>1, <1>2, <2>1, SplicedIs
<1>6. NodeLeft(t, S, a, u, n)
  BY <1>4, <1>5
<1>7. Forked(u.node, S \ {n})
  BY <1>1, <1>6 DEF Forked, NodeLeft, Keeps
<1>8. Plains(u, S \ {n}) = Plains(t, S) \ {n}
  BY <1>6 DEF Plains, NodeLeft, Keeps
<1>9. Sound(u, S \ {n}, a)
  BY <1>1, <1>6, <1>7 DEF Sound, NodeLeft
<1> QED
  BY <1>6, <1>8, <1>9 DEF Shrunk, NodeLeft, u

\* Removing a plain node without children leaves a sound trie without its prefix, and
\* without the glue above it: glue never keeps one child.
LEMMA LeafIs ==
    ASSUME NEW t, NEW S, NEW a, Sound(t, S, a), NEW n \in Plains(t, S),
           \A b \in {0, 1} : t.node[n].child[b] = Null
    PROVE  \E S2 : Shrunk(t, S, a, LeafRemoved(t, n), S2, n)
<1> DEFINE q == t.node[n].parent
           u == Freed(t, n)
           v == LeafRemoved(t, n)
           T == S \ {n}
<1>1. /\ t \in Tries /\ S \in SUBSET Nodes /\ Shape(t.head, t.node, S, a) /\ Forked(t.node, S)
      /\ Ledger(t.free, t.pages, S) /\ n \in S /\ ~t.node[n].glue /\ n \in Nodes
      /\ t.node \in [Nodes -> PNodes]
  BY TrieIs DEF Sound, Plains
<1>2. FreesNode(t, u, S, n)
  BY <1>1, FreedIs
<1>3. /\ u \in Tries /\ u.head = t.head /\ u.nprefs = t.nprefs /\ u.node = [t.node EXCEPT ![n] = Unused]
      /\ u.node \in [Nodes -> PNodes] /\ Ledger(u.free, u.pages, T)
      /\ u.head \in Nodes \cup {Null} /\ u.nprefs \in 0..(CountMod - 1)
      /\ \A m \in T : u.node[m] = t.node[m] /\ m \in Nodes
  BY <1>1, <1>2, TrieIs DEF FreesNode
<1>4. CASE q = Null
  <2> DEFINE w == [u EXCEPT !.head = Null]
  <2>1. v = w
    BY <1>4 DEF LeafRemoved
  <2>2. n = t.head /\ n # Null
    BY <1>1, <1>4, HeadIs, NodesAre
  <2>3. S = {n}
    BY <1>1, <2>2, LoneHead
  <2> HIDE DEF u
  <2>4. w \in Tries /\ w.nprefs = t.nprefs /\ w.head = Null /\ w.node = u.node /\ w.free = u.free /\ w.pages = u.pages
    BY <1>3 DEF Tries
  <2>5. Shape(w.head, w.node, {}, a) /\ Forked(w.node, {}) /\ Ledger(w.free, w.pages, {})
    BY <1>3, <2>3, <2>4 DEF Shape, Forked
  <2>6. Sound(w, {}, a)
    BY <2>4, <2>5 DEF Sound
  <2>7. Plains(w, {}) = Plains(t, S) \ {n}
    BY <2>3 DEF Plains
  <2> QED
    BY <2>1, <2>4, <2>6, <2>7 DEF Shrunk
<1>5. CASE q # Null
  <2> DEFINE b0 == Bit(a[n], t.node[q].len)
             nd == SetChild(u.node, q, b0, Null)
             t1 == [u EXCEPT !.head = u.head, !.node = nd, !.nprefs = u.nprefs]
  <2>1. n # t.head
    BY <1>1, <1>5, HeadIs
  <2>2. q \in S /\ q \in Nodes /\ q # n /\ b0 \in {0, 1} /\ t.node[q].child[b0] = n
    BY <1>1, <2>1, ParentIs
  <2>3. Side(t, n) = b0
    BY <1>1, <2>1, SideIs
  <2> HIDE DEF u
  <2>4. [u EXCEPT !.node[q].child[b0] = Null] = t1
    BY <1>3 DEF Tries, SetChild
  <2> HIDE DEF b0, nd
  <2>5. ChildWritten(u.node, nd, q, b0, Null)
    <3>1. u.node \in [Nodes -> PNodes] /\ q \in Nodes /\ b0 \in {0, 1} /\ Null \in Nodes \cup {Null}
      BY <1>3, <2>2
    <3> HIDE DEF q
    <3> QED
      BY <3>1, SetChildIs DEF nd
  <2>6. TrieWritten(u, t1, u.head, nd, u.nprefs)
    <3>1. nd \in [Nodes -> PNodes]
      BY <2>5 DEF ChildWritten
    <3> QED
      BY <1>3, <3>1, Written
  <2> HIDE DEF t1
  <2>7. /\ t1 \in Tries /\ t1.head = t.head /\ t1.node = nd /\ nd \in [Nodes -> PNodes]
        /\ Ledger(t1.free, t1.pages, T) /\ t1.nprefs = t.nprefs
    BY <1>3, <2>5, <2>6 DEF TrieWritten, ChildWritten
  <2>8. /\ \A m \in T : Keeps(t.node, nd, m) /\ nd[m].parent = t.node[m].parent
        /\ \A m \in T : \A b \in {0, 1} :
              nd[m].child[b] = IF m = q /\ b = b0 THEN Null ELSE t.node[m].child[b]
    BY <1>3, <2>5 DEF ChildWritten, Keeps
  <2>9. Shape(t1.head, t1.node, T, a)
    <3>1. b0 = Bit(a[n], t.node[t.node[n].parent].len)
      BY DEF b0
    <3> QED
      BY <1>1, <2>1, <2>7, <2>8, <3>1, LeafCut
  <2>10. CASE ~t.node[q].glue
    <3>1. v = t1
      BY <1>5, <2>3, <2>4, <2>10 DEF LeafRemoved, u
    <3>2. Forked(t1.node, T)
      BY <1>1, <2>7, <2>8, <2>10 DEF Forked, Keeps
    <3>3. Plains(t1, T) = Plains(t, S) \ {n}
      BY <2>7, <2>8 DEF Plains, Keeps
    <3>4. Sound(t1, T, a)
      BY <1>1, <2>7, <2>9, <3>2 DEF Sound
    <3> QED
      BY <2>7, <3>1, <3>3, <3>4 DEF Shrunk
  <2>11. CASE t.node[q].glue
    <3> DEFINE b1 == 1 - b0
               c == t.node[q].child[b1]
               r == t.node[q].parent
               w == Spliced(t1, q, c, r)
    <3>1. b1 \in {0, 1} /\ c # Null
      BY <1>1, <2>2, <2>11 DEF Forked
    <3>2. v = w
      BY <1>5, <2>3, <2>4, <2>11 DEF LeafRemoved, u, Spliced
    <3>3. q \in T /\ t1.node[q].parent = r /\ t1.node[q].child[b1] = c
          /\ \A b \in {0, 1} : b # b1 => t1.node[q].child[b] = Null
      <4>1. q \in T /\ b1 # b0 /\ \A b \in {0, 1} : b # b1 => b = b0
        BY <2>2
      <4> QED
        BY <2>7, <2>8, <3>1, <4>1
    <3> HIDE DEF b1, c, r, w, q
    <3>4. NodeLeft(t1, T, a, w, q)
      BY <1>1, <2>7, <2>9, <3>1, <3>3, SplicedIs DEF w
    <3> DEFINE U == T \ {q}
    <3>5. w \in Tries /\ Shape(w.head, w.node, U, a) /\ Ledger(w.free, w.pages, U) /\ w.nprefs = t.nprefs
      BY <2>7, <3>4 DEF NodeLeft
    <3>6. \A m \in U : /\ Keeps(t.node, w.node, m)
                       /\ \A b \in {0, 1} : t.node[m].child[b] # Null => w.node[m].child[b] # Null
      BY <2>7, <2>8, <3>4 DEF NodeLeft, Keeps
    <3>7. Forked(w.node, U)
      BY <1>1, <3>6 DEF Forked, Keeps
    <3>8. Plains(w, U) = Plains(t, S) \ {n}
      BY <2>11, <3>6 DEF Plains, Keeps
    <3>9. Sound(w, U, a)
      BY <1>1, <3>5, <3>7 DEF Sound
    <3> QED
      BY <3>2, <3>5, <3>8, <3>9 DEF Shrunk
  <2> QED
    BY <2>10, <2>11
<1> QED
  BY <1>4, <1>5

-----------------------------------------------------------------------------
(* The calls, and what they do to the set of prefixes *)

\* In a sound trie the tree hangs together, and every prefix is found.
LEMMA SoundIs ==
    ASSUME NEW S, NEW a, Sound(trie, S, a)
    PROVE  TreeIsSound /\ StoredIsFound
<1>1. /\ trie \in Tries /\ S \subseteq Nodes /\ Shape(trie.head, trie.node, S, a)
      /\ Forked(trie.node, S) /\ Ledger(trie.free, trie.pages, S)
      /\ InTree(trie) = S
  BY TreeIsInTree DEF Sound
<1>2. WellShaped
  <2> SUFFICES ASSUME NEW n \in S
               PROVE  /\ trie.node[n].parent = Null <=> n = trie.head
                      /\ trie.node[n].glue => \A b \in {0, 1} : trie.node[n].child[b] # Null
                      /\ ~trie.node[n].glue => Len(trie.node[n].addr) = trie.node[n].len
                      /\ \A b \in {0, 1} : trie.node[n].child[b] # Null =>
                            /\ trie.node[trie.node[n].child[b]].parent = n
                            /\ trie.node[trie.node[n].child[b]].len > trie.node[n].len
    BY <1>1 DEF WellShaped
  <2>1. trie.node[n].parent = Null <=> n = trie.head
    BY <1>1, HeadIs
  <2>2. trie.node[n].glue => \A b \in {0, 1} : trie.node[n].child[b] # Null
    BY <1>1 DEF Forked
  <2>3. ~trie.node[n].glue => Len(trie.node[n].addr) = trie.node[n].len
    BY <1>1 DEF Shape, Named
  <2>4. ASSUME NEW b \in {0, 1}, trie.node[n].child[b] # Null
        PROVE  /\ trie.node[trie.node[n].child[b]].parent = n
               /\ trie.node[trie.node[n].child[b]].len > trie.node[n].len
    BY <1>1, <2>4, ChildIs
  <2> QED
    BY <2>1, <2>2, <2>3, <2>4
<1>3. FreeIsNotInTree
  <2>1. DOMAIN trie.free = 1..Len(trie.free)
    BY <1>1, TrieIs, LenProperties
  <2> QED
    BY <1>1, <2>1 DEF FreeIsNotInTree, Ledger
<1>4. StoredIsFound
  <2> SUFFICES ASSUME NEW n \in S, ~trie.node[n].glue
               PROVE  SearchExact(trie, trie.node[n].addr) = n
    BY <1>1 DEF StoredIsFound
  <2>1. n \in Plains(trie, S) /\ trie.node[n].addr = a[n] /\ a[n] \in Strings
    BY <1>1 DEF Plains, Shape, Named
  <2> QED
    BY <1>1, <2>1, SearchExactIs
<1> QED
  BY <1>2, <1>3, <1>4 DEF TreeIsSound

\* Prefixes that two tries have in the same nodes are found in the same nodes.
LEMMA FoundAgain ==
    ASSUME NEW t, NEW S, NEW a, Sound(t, S, a), NEW t2, NEW S2, NEW a2, Sound(t2, S2, a2),
           \A m \in Plains(t, S) \cap Plains(t2, S2) : a2[m] = a[m],
           NEW q \in Strings, NEW m \in Plains(t, S) \cap Plains(t2, S2), a[m] = q
    PROVE  SearchExact(t2, q) = SearchExact(t, q)
<1>1. SearchExact(t, q) = m
  BY SearchExactIs DEF Sound
<1>2. SearchExact(t2, q) = m
  BY SearchExactIs DEF Sound
<1> QED
  BY <1>1, <1>2

\* What a call does to a trie: to the set of prefixes, and to the nodes of those
\* that stay.
Becomes(t, t2, set) ==
    /\ \E S2, a2 : Sound(t2, S2, a2)
    /\ Stored(t2) = set
    /\ \A q \in Stored(t) \cap Stored(t2) : SearchExact(t2, q) = SearchExact(t, q)

\* A trie that has grown by a prefix stores it besides the others.
LEMMA GrownIs ==
    ASSUME NEW t, NEW S, NEW a, Sound(t, S, a), NEW t2, NEW p, NEW S2, NEW a2,
           Grown(t, S, a, t2, S2, a2, p)
    PROVE  Becomes(t, t2, Stored(t) \cup {p}) /\ t2.nprefs = (t.nprefs + 1) % CountMod
<1>1. Sound(t2, S2, a2) /\ \A m \in Plains(t, S) : a2[m] = a[m]
  BY DEF Grown
<1>2. PICK x \in Nodes \ S : Plains(t2, S2) = Plains(t, S) \cup {x} /\ a2[x] = p
  BY DEF Grown
<1>3. /\ Stored(t) = {a[n] : n \in Plains(t, S)}
      /\ Stored(t2) = {a2[n] : n \in Plains(t2, S2)}
      /\ Stored(t) \subseteq Prefixes
  <2>1. Shape(t.head, t.node, S, a) /\ Shape(t2.head, t2.node, S2, a2)
    BY <1>1 DEF Sound
  <2>2. Stored(t) = {a[n] : n \in Plains(t, S)} /\ Stored(t) \subseteq Prefixes
    BY <2>1, StoredIs
  <2>3. Stored(t2) = {a2[n] : n \in Plains(t2, S2)}
    BY <2>1, StoredIs
  <2> QED
    BY <2>2, <2>3
<1>4. Stored(t2) = Stored(t) \cup {p}
  BY <1>1, <1>2, <1>3
<1>5. ASSUME NEW q \in Stored(t) PROVE SearchExact(t2, q) = SearchExact(t, q)
  <2>1. PICK m \in Plains(t, S) : a[m] = q
    BY <1>3
  <2>2. q \in Strings /\ m \in Plains(t, S) \cap Plains(t2, S2)
    BY <1>2, <1>3, PrefixIs
  <2> QED
    BY <1>1, <2>1, <2>2, FoundAgain
<1>6. t2.nprefs = (t.nprefs + 1) % CountMod
  BY DEF Grown
<1> QED
  BY <1>1, <1>4, <1>5, <1>6 DEF Becomes

\* A trie that has lost a plain node stores all prefixes but its own.
LEMMA ShrunkIs ==
    ASSUME NEW t, NEW S, NEW a, Sound(t, S, a), NEW t2, NEW S2, NEW n \in Plains(t, S),
           Shrunk(t, S, a, t2, S2, n)
    PROVE  Becomes(t, t2, Stored(t) \ {a[n]})
<1>1. Sound(t2, S2, a) /\ Plains(t2, S2) = Plains(t, S) \ {n}
  BY DEF Shrunk
<1>2. /\ Stored(t) = {a[m] : m \in Plains(t, S)}
      /\ Stored(t2) = {a[m] : m \in Plains(t2, S2)}
      /\ Stored(t) \subseteq Prefixes
  BY <1>1, StoredIs DEF Sound
<1>3. \A m \in Plains(t, S) : a[m] = a[n] => m = n
  BY BitsTellApart DEF Sound, Plains
<1>4. Stored(t2) = Stored(t) \ {a[n]}
  BY <1>1, <1>2, <1>3
<1>5. ASSUME NEW q \in Stored(t2) PROVE SearchExact(t2, q) = SearchExact(t, q)
  <2>1. PICK m \in Plains(t2, S2) : a[m] = q
    BY <1>2
  <2>2. q \in Strings /\ m \in Plains(t, S) \cap Plains(t2, S2)
    BY <1>1, <1>2, <1>4, PrefixIs
  <2> QED
    BY <1>1, <2>1, <2>2, FoundAgain
<1> QED
  BY <1>1, <1>4, <1>5 DEF Becomes

\* A trie whose tree is as it was stores the same prefixes.
LEMMA StaysIs ==
    ASSUME NEW t, NEW S, NEW a, Sound(t, S, a), NEW t2, Stays(t, S, a, t2)
    PROVE  Becomes(t, t2, Stored(t))
<1>1. Sound(t2, S, a) /\ Plains(t2, S) = Plains(t, S)
  BY DEF Stays
<1>2. /\ Stored(t) = {a[m] : m \in Plains(t, S)}
      /\ Stored(t2) = {a[m] : m \in Plains(t2, S)}
      /\ Stored(t) \subseteq Prefixes
  BY <1>1, StoredIs DEF Sound
<1>3. Stored(t2) = Stored(t)
  BY <1>1, <1>2
<1>4. ASSUME NEW q \in Stored(t) PROVE SearchExact(t2, q) = SearchExact(t, q)
  <2>1. PICK m \in Plains(t, S) : a[m] = q
    BY <1>2
  <2>2. q \in Strings /\ m \in Plains(t, S) \cap Plains(t2, S)
    BY <1>1, <1>2, PrefixIs
  <2> QED
    BY <1>1, <2>1, <2>2, FoundAgain
<1> QED
  BY <1>1, <1>3, <1>4 DEF Becomes

\* The count is not looked at.
LEMMA Counted ==
    ASSUME NEW t, NEW S, NEW a, Sound(t, S, a), NEW k \in 0..(CountMod - 1)
    PROVE  Stays(t, S, a, [t EXCEPT !.nprefs = k])
<1> DEFINE u == [t EXCEPT !.nprefs = k]
<1>1. u \in Tries /\ u.head = t.head /\ u.node = t.node /\ u.free = t.free /\ u.pages = t.pages
  BY DEF Sound, Tries
<1> HIDE DEF u
<1>2. Stays(t, S, a, u)
  BY <1>1 DEF Stays, Sound, Plains
<1> QED
  BY <1>2 DEF u

Answers == {"none", "inserted", "present", "nomem", "removed", "absent"}

\* The step of the set of prefixes that an insertion is.
Inserts(t, t2, r, p) ==
    \/ /\ p \notin Stored(t) /\ Becomes(t, t2, Stored(t) \cup {p}) /\ r = "inserted"
       /\ t2.nprefs = (t.nprefs + 1) % CountMod
    \/ /\ p \in Stored(t) /\ Becomes(t, t2, Stored(t)) /\ r = "present"
       /\ t2.nprefs = (t.nprefs + 1) % CountMod
    \/ /\ Becomes(t, t2, Stored(t)) /\ r = "nomem"
       /\ t2.nprefs \in {t.nprefs, (t.nprefs + 1) % CountMod}

Removes(t, t2, r, p) ==
    \/ /\ p \in Stored(t) /\ Becomes(t, t2, Stored(t) \ {p}) /\ r = "removed"
       /\ t2.nprefs = (t.nprefs - 1) % CountMod
    \/ p \notin Stored(t) /\ Becomes(t, t2, Stored(t)) /\ r = "absent"

\* Inserting into an empty trie is the step of the set.
LEMMA InsertsFirst ==
    ASSUME NEW S, NEW a, Sound(trie, S, a), NEW p \in Prefixes, InsertFirst(p)
    PROVE  Inserts(trie, trie', ret', p)
<1>1. CASE HasFree(trie)
  <2>1. trie' = [Taken(trie, Plain(p)) EXCEPT !.head = FreeNode(trie), !.nprefs = (@ + 1) % CountMod]
        /\ ret' = "inserted" /\ trie.head = Null
    BY <1>1 DEF InsertFirst, Result
  <2>2. PICK S2, a2 : Grown(trie, S, a, trie', S2, a2, p)
    BY <1>1, <2>1, FirstIs
  <2>3. p \notin Stored(trie)
    <3>1. S = {}
      BY <2>1 DEF Sound, Shape
    <3>2. InTree(trie) = S
      BY TreeIsInTree DEF Sound
    <3> QED
      BY <3>1, <3>2 DEF Stored
  <2> QED
    BY <2>1, <2>2, <2>3, GrownIs DEF Inserts
<1>2. CASE ~HasFree(trie)
  <2>1. trie' = trie /\ ret' = "nomem"
    BY <1>2 DEF InsertFirst, Result
  <2>2. Stays(trie, S, a, trie)
    BY DEF Stays
  <2> QED
    BY <2>1, <2>2, StaysIs DEF Inserts
<1> QED
  BY <1>1, <1>2

\* An insertion near d and n.
InsertAt(p, d, n) ==
    CASE d = Len(p) /\ trie.node[n].len = Len(p) ->
            Result(IF trie.node[n].glue THEN trie
                   ELSE [trie EXCEPT !.nprefs = (@ + 1) % CountMod], "present")
      [] d # Len(p) \/ trie.node[n].len # Len(p) ->
            IF ~HasFree(trie) THEN Result(trie, "nomem")
            ELSE IF trie.node[n].len = d THEN Result(Below(trie, n, p), "inserted")
            ELSE IF HasFree(Taken(trie, Unused))
              THEN Result(Beside(trie, n, p, d), "inserted")
              ELSE Result(Beside(trie, n, p, d), "nomem")

\* Inserting a prefix without subnets is the step of the set, whether it is there already,
\* hangs from a node, parts from one, or memory runs out on the way.
LEMMA InsertsNear ==
    ASSUME NEW S, NEW a, Sound(trie, S, a), NEW p \in Prefixes, InsertNear(p),
           StrictSubnets(trie, p) = {}
    PROVE  Inserts(trie, trie', ret', p)
<1> DEFINE r == Reached(trie, p)
           d == DifferBit(trie, r, p)
           n == Climbed(trie, r, d)
<1>1. trie.head # Null /\ InsertAt(p, d, n)
  BY DEF InsertNear, InsertAt
<1>2. Shape(trie.head, trie.node, S, a) /\ Forked(trie.node, S) /\ trie \in Tries /\ p \in Strings
  BY PrefixIs DEF Sound
<1>3. d \in Nat
  <2>1. r \in Plains(trie, S)
    BY <1>1, <1>2, ReachedIs
  <2> HIDE DEF r
  <2> QED
    BY <1>2, <2>1, DifferBitIs
<1>4. /\ d = Len(p) /\ trie.node[n].len = Len(p) => IsThere(trie, S, a, p, n)
      /\ d # Len(p) \/ trie.node[n].len # Len(p) =>
            IF trie.node[n].len = d THEN HangsFrom(trie, S, a, p, d, n)
                                    ELSE PartsFrom(trie, S, a, p, d, n)
  BY <1>1, <1>2, PlaceIs
<1> HIDE DEF r, d, n
<1>5. CASE d = Len(p) /\ trie.node[n].len = Len(p)
  <2>1. n \in Plains(trie, S) /\ a[n] = p
    BY <1>4, <1>5 DEF IsThere
  <2> DEFINE k == (trie.nprefs + 1) % CountMod
  <2>2. trie' = [trie EXCEPT !.nprefs = k] /\ ret' = "present"
    BY <1>1, <1>5, <2>1 DEF InsertAt, Result, Plains
  <2>3. k \in 0..(CountMod - 1)
    BY <1>2, TrieIs, CountIs
  <2>4. trie'.nprefs = (trie.nprefs + 1) % CountMod
    BY <1>2, <2>2 DEF Tries
  <2> HIDE DEF k
  <2>5. Stays(trie, S, a, trie')
    BY <2>2, <2>3, Counted
  <2>6. p \in Stored(trie)
    BY <1>2, <2>1, StoredIs
  <2> QED
    BY <2>2, <2>4, <2>5, <2>6, StaysIs DEF Inserts
<1>6. CASE ~ (d = Len(p) /\ trie.node[n].len = Len(p)) /\ ~HasFree(trie)
  <2>1. trie' = trie /\ ret' = "nomem"
    BY <1>1, <1>6 DEF InsertAt, Result
  <2>2. Stays(trie, S, a, trie)
    BY DEF Stays
  <2> QED
    BY <2>1, <2>2, StaysIs DEF Inserts
<1>7. CASE ~ (d = Len(p) /\ trie.node[n].len = Len(p)) /\ HasFree(trie) /\ trie.node[n].len = d
  <2>1. trie' = Below(trie, n, p) /\ ret' = "inserted"
    BY <1>1, <1>7 DEF InsertAt, Result
  <2>2. HangsFrom(trie, S, a, p, d, n)
    BY <1>4, <1>7
  <2>3. PICK S2, a2 : Grown(trie, S, a, trie', S2, a2, p)
    BY <1>7, <2>1, <2>2, BelowIs
  <2>4. p \notin Stored(trie)
    BY <2>2 DEF HangsFrom
  <2> QED
    BY <2>1, <2>3, <2>4, GrownIs DEF Inserts
<1>8. CASE /\ ~ (d = Len(p) /\ trie.node[n].len = Len(p)) /\ HasFree(trie) /\ trie.node[n].len # d
           /\ HasFree(Taken(trie, Unused))
  <2>1. trie' = Beside(trie, n, p, d) /\ ret' = "inserted"
    BY <1>1, <1>8 DEF InsertAt, Result
  <2>2. PartsFrom(trie, S, a, p, d, n)
    BY <1>4, <1>8
  <2>3. PICK S2, a2 : Grown(trie, S, a, trie', S2, a2, p)
    BY <1>3, <1>8, <2>1, <2>2, BesideIs
  <2>4. p \notin Stored(trie)
    BY <2>2 DEF PartsFrom
  <2> QED
    BY <2>1, <2>3, <2>4, GrownIs DEF Inserts
<1>9. CASE /\ ~ (d = Len(p) /\ trie.node[n].len = Len(p)) /\ HasFree(trie) /\ trie.node[n].len # d
           /\ ~HasFree(Taken(trie, Unused))
  <2>1. trie' = Beside(trie, n, p, d) /\ ret' = "nomem"
    BY <1>1, <1>9 DEF InsertAt, Result
  <2>2. Stays(trie, S, a, trie')
    BY <1>9, <2>1, LostIs
  <2>3. trie'.nprefs = (trie.nprefs + 1) % CountMod
    BY <1>9, <2>1, LostIs
  <2> QED
    BY <2>1, <2>2, <2>3, StaysIs DEF Inserts
<1> QED
  BY <1>5, <1>6, <1>7, <1>8, <1>9

\* Of a plain node whose prefix has no subnets on one side, that side is empty.
LEMMA NothingBelow ==
    ASSUME NEW t, NEW S, NEW a, Sound(t, S, a), NEW n \in Plains(t, S), NEW b \in {0, 1},
           \A q \in StrictSubnets(t, a[n]) : q[Len(a[n]) + 1] = b
    PROVE  t.node[n].child[1 - b] = Null
<1> DEFINE c == t.node[n].child[1 - b]
           k == Len(a[n])
<1> SUFFICES ASSUME c # Null PROVE FALSE
  OBVIOUS
<1>1. /\ Shape(t.head, t.node, S, a) /\ Forked(t.node, S) /\ n \in S /\ S \subseteq Nodes
      /\ t.node \in [Nodes -> PNodes]
  BY TrieIs DEF Sound, Plains
<1>2. 1 - b \in {0, 1} /\ 1 - b # b
  OBVIOUS
<1>3. /\ c \in S /\ t.node[c].len \in Nat /\ t.node[n].len \in Nat /\ t.node[n].len < t.node[c].len
      /\ Agree(a[c], a[n], t.node[n].len) /\ Bit(a[c], t.node[n].len) = 1 - b
  BY <1>1, <1>2, ChildIs
<1> HIDE DEF c
<1>4. PICK m \in Plains(t, S) : t.node[c].len <= t.node[m].len /\ Agree(a[m], a[c], t.node[c].len)
  BY <1>1, <1>3, PlainBelow
<1>5. /\ a[m] \in Strings /\ Len(a[m]) = t.node[m].len /\ a[n] \in Strings /\ k = t.node[n].len
      /\ m \in Nodes
  BY <1>1 DEF Plains, Shape, Named
<1>6. t.node[m].len \in Nat
  BY <1>1, <1>5, NodeIs
<1>7. k \in Nat /\ k < Len(a[m]) /\ Len(a[m]) \in Nat
  BY <1>3, <1>4, <1>5, <1>6
<1>8. Agree(a[m], a[n], k)
  BY <1>3, <1>4, <1>5, Agreement
<1>9. Bit(a[m], k) = 1 - b
  <2>1. Bit(a[m], k) = Bit(a[c], k)
    BY <1>3, <1>4, <1>5, Agreement
  <2> QED
    BY <1>3, <1>5, <2>1
<1> HIDE DEF k
<1>10. Covers(a[n], a[m])
  <2>1. \A i \in 1..k : i - 1 \in 0..(k - 1) /\ i - 1 < k /\ i - 1 < Len(a[m]) /\ (i - 1) + 1 = i
    BY <1>7
  <2>2. \A i \in 1..k : Bit(a[m], i - 1) = Bit(a[n], i - 1)
    BY <1>8, <2>1 DEF Agree
  <2>3. \A i \in 1..k : a[n][i] = a[m][i]
    BY <2>1, <2>2 DEF Bit, k
  <2> QED
    BY <1>7, <2>3 DEF Covers, k
<1>11. a[m] \in Stored(t)
  BY <1>1, StoredIs
<1>12. a[m] # a[n]
  BY <1>7 DEF k
<1>13. a[m] \in StrictSubnets(t, a[n])
  BY <1>10, <1>11, <1>12 DEF StrictSubnets
<1>14. a[m][k + 1] = 1 - b
  BY <1>7, <1>9 DEF Bit
<1> QED
  BY <1>2, <1>13, <1>14 DEF k

\* Removing a prefix without subnets on both sides is the step of the set.
LEMMA TakesOut ==
    ASSUME ~RemovesForks, NEW S, NEW a, Sound(trie, S, a), NEW p \in Prefixes, patremoven(p)
    PROVE  Removes(trie, trie', ret', p)
<1> DEFINE k == (trie.nprefs - 1) % CountMod
           t == [trie EXCEPT !.nprefs = k]
           n == SearchExact(trie, p)
<1>1. /\ Shape(trie.head, trie.node, S, a) /\ trie \in Tries /\ p \in Strings /\ S \subseteq Nodes
  BY PrefixIs DEF Sound
<1>2. k \in 0..(CountMod - 1)
  BY <1>1, TrieIs, CountIs
<1>3. IF n = Null THEN Result(t, "absent") ELSE ret' = "removed" /\ trie' \in NodeRemoved(t, n)
  <2>1. t = [trie EXCEPT !.nprefs = (@ - 1) % CountMod]
    OBVIOUS
  <2> HIDE DEF t
  <2> QED
    BY <2>1 DEF patremoven
<1>4. t.node = trie.node /\ t.head = trie.head /\ t.nprefs = k
  BY <1>1 DEF Tries
<1> HIDE DEF k
<1>5. Stays(trie, S, a, t)
  BY <1>2, Counted
<1> HIDE DEF t
<1>6. Sound(t, S, a) /\ Plains(t, S) = Plains(trie, S)
  BY <1>5 DEF Stays
<1>7. InTree(trie) = S /\ InTree(t) = S
  BY <1>1, <1>6, TreeIsInTree DEF Sound
<1>8. Stored(t) = Stored(trie)
  BY <1>4, <1>7 DEF Stored
<1>9. /\ \A m \in Plains(trie, S) : a[m] = p => n = m
      /\ n # Null => n \in Plains(trie, S) /\ a[n] = p
  BY <1>1, SearchExactIs
<1>10. p \in Stored(trie) <=> \E m \in Plains(trie, S) : a[m] = p
  BY <1>1, StoredIs
<1>11. \A m \in Plains(trie, S) : m # Null
  BY <1>1, NodesAre DEF Plains
<1> HIDE DEF n
<1>12. CASE n = Null
  <2>1. trie' = t /\ ret' = "absent"
    BY <1>3, <1>12 DEF Result
  <2>2. p \notin Stored(trie)
    BY <1>9, <1>10, <1>11, <1>12
  <2> QED
    BY <1>5, <2>1, <2>2, StaysIs DEF Removes
<1>13. CASE n # Null
  <2>1. n \in Plains(t, S) /\ a[n] = p /\ p \in Stored(trie) /\ ret' = "removed"
        /\ trie' \in NodeRemoved(t, n)
    BY <1>3, <1>6, <1>9, <1>10, <1>13
  <2>2. PICK b \in {0, 1} : \A q \in StrictSubnets(trie, p) : q[Len(p) + 1] = b
    BY <2>1 DEF patremoven, MayRemove
  <2>3. StrictSubnets(t, p) = StrictSubnets(trie, p)
    BY <1>8 DEF StrictSubnets
  <2>4. t.node[n].child[1 - b] = Null
    <3>1. \A q \in StrictSubnets(t, a[n]) : q[Len(a[n]) + 1] = b
      BY <2>1, <2>2, <2>3
    <3> QED
      BY <1>6, <2>1, <3>1, NothingBelow
  <2>5. \E S2 : Shrunk(t, S, a, trie', S2, n)
    <3> DEFINE sons == {e \in {0, 1} : t.node[n].child[e] # Null}
    <3>1. NodeRemoved(t, n) = CASE sons = {}             -> {LeafRemoved(t, n)}
                                [] sons = {0, 1}         -> ForkRemoved(t, n)
                                [] Cardinality(sons) = 1 -> {ChainRemoved(t, n)}
      BY DEF NodeRemoved
    <3>2. 1 - b \in {0, 1} /\ 1 - b # b /\ \A e \in {0, 1} : e = b \/ e = 1 - b
      OBVIOUS
    <3>3. CASE t.node[n].child[b] = Null
      <4>1. \A e \in {0, 1} : t.node[n].child[e] = Null
        BY <2>4, <3>2, <3>3
      <4>2. sons = {}
        BY <4>1
      <4>2a. {} # {0, 1} /\ Cardinality({}) = 0
        BY FS_EmptySet
      <4>3. NodeRemoved(t, n) = {LeafRemoved(t, n)}
        <5> HIDE DEF sons
        <5> QED
          BY <3>1, <4>2, <4>2a
      <4>4. trie' = LeafRemoved(t, n)
        BY <2>1, <4>3
      <4> QED
        BY <1>6, <2>1, <4>1, <4>4, LeafIs
    <3>4. CASE t.node[n].child[b] # Null
      <4>1. sons = {b}
        BY <2>4, <3>2, <3>4
      <4>2. sons # {} /\ sons # {0, 1} /\ Cardinality(sons) = 1
        <5>1. {b} # {} /\ {b} # {0, 1}
          BY <3>2
        <5>2. Cardinality({b}) = 1
          BY FS_Singleton
        <5> HIDE DEF sons
        <5> QED
          BY <4>1, <5>1, <5>2
      <4>3. NodeRemoved(t, n) = {ChainRemoved(t, n)}
        <5> HIDE DEF sons
        <5> QED
          BY <3>1, <4>2
      <4>4. trie' = ChainRemoved(t, n)
        BY <2>1, <4>3
      <4>5. Shrunk(t, S, a, trie', S \ {n}, n)
        BY <1>6, <2>1, <2>4, <3>4, <4>4, ChainIs
      <4> QED
        BY <4>5
    <3> QED
      BY <3>3, <3>4
  <2>6. Becomes(t, trie', Stored(t) \ {p})
    BY <1>6, <2>1, <2>5, ShrunkIs
  <2>7. Becomes(trie, t, Stored(trie))
    BY <1>5, StaysIs
  <2>8. Becomes(trie, trie', Stored(trie) \ {p})
    BY <1>8, <2>6, <2>7 DEF Becomes
  <2>9. trie'.nprefs = (trie.nprefs - 1) % CountMod
    BY <1>4, <2>5 DEF Shrunk, k
  <2> QED
    BY <2>1, <2>8, <2>9 DEF Removes
<1> QED
  BY <1>12, <1>13

-----------------------------------------------------------------------------
(* The plain nodes on the way of a descent *)

\* The nodes of P, from the shortest on.
Listed(t, P, s) ==
    /\ s \in Seq(Nodes)
    /\ {s[i] : i \in 1..Len(s)} = P
    /\ \A i, j \in 1..Len(s) : i < j => t.node[s[i]].len < t.node[s[j]].len

\* A longer node comes last.
LEMMA ListedOn ==
    ASSUME NEW t, NEW P, NEW s, Listed(t, P, s), NEW n \in Nodes,
           \A m \in P : t.node[m].len < t.node[n].len
    PROVE  Listed(t, P \cup {n}, Append(s, n))
<1> DEFINE u == Append(s, n)
           k == Len(s)
<1>1. s \in Seq(Nodes) /\ k \in Nat
  BY LenProperties DEF Listed
<1>2. u \in Seq(Nodes) /\ Len(u) = k + 1 /\ (\A i \in 1..k : u[i] = s[i]) /\ u[k + 1] = n
  BY <1>1, AppendProperties
<1> HIDE DEF u
<1>3. \A i \in 1..k : s[i] \in P
  BY DEF Listed
<1>4. \A i \in 1..(k + 1) : i \in 1..k \/ i = k + 1
  BY <1>1
<1>5. {u[i] : i \in 1..Len(u)} = P \cup {n}
  <2>1. \A x \in P : \E i \in 1..(k + 1) : u[i] = x
    <3>1. \A x \in P : \E i \in 1..k : s[i] = x
      BY DEF Listed
    <3>2. \A i \in 1..k : i \in 1..(k + 1)
      BY <1>1
    <3> QED
      BY <1>2, <3>1, <3>2
  <2>2. k + 1 \in 1..(k + 1)
    BY <1>1
  <2>3. \A i \in 1..(k + 1) : u[i] \in P \cup {n}
    BY <1>2, <1>3, <1>4
  <2> QED
    BY <1>2, <2>1, <2>2, <2>3
<1>6. ASSUME NEW i \in 1..Len(u), NEW j \in 1..Len(u), i < j
      PROVE  t.node[u[i]].len < t.node[u[j]].len
  <2>1. i \in 1..k /\ (j \in 1..k \/ j = k + 1)
    BY <1>1, <1>2, <1>6
  <2>2. CASE j \in 1..k
    BY <1>2, <1>6, <2>1, <2>2 DEF Listed
  <2>3. CASE j = k + 1
    BY <1>2, <1>3, <2>1, <2>3
  <2> QED
    BY <2>1, <2>2, <2>3
<1> QED
  BY <1>2, <1>5, <1>6 DEF Listed, u

\* A descent takes a way through the tree, and lists the plain nodes it goes on from.
LEMMA PathIs ==
    ASSUME NEW t, NEW S, NEW a, Shape(t.head, t.node, S, a), NEW p \in Strings, NEW G \in SUBSET Nodes
    PROVE  \E V : /\ Way(t, S, p, G, V, Descent(t, p, G).at)
                  /\ Listed(t, {v \in V \cap G : ~t.node[v].glue}, Descent(t, p, G).plain)
<1>0. N \in Nat /\ 0 \in 0..N /\ N \in 0..N
  BY NodesAre
<1>1. t.node \in [Nodes -> PNodes] /\ t.head \in Nodes \cup {Null} /\ Null \notin G /\ S \in SUBSET Nodes
  BY NodesAre DEF Shape
<1>2. PICK f : Passed(t, p, G, f) /\ Descent(t, p, G) = f[N]
  BY <1>1, DescentIs
<1>3. /\ \A i \in 0..N : f[i].at \in S \cup {Null}
      /\ \A i \in 0..N - 1 : f[i].at \in G => f[i + 1] = Onward(t, p, f[i])
      /\ \A i \in 0..N - 1 : f[i].at \notin G => f[i + 1] = f[i]
      /\ \A i \in 0..N : f[i].at \notin G => f[N] = f[i]
      /\ f[N].at \notin G
  <2>1. Passed(t, p, G, f)
    BY <1>2
  <2> QED
    BY <2>1, StepsAre, Zenon
<1> DEFINE V == {f[i].at : i \in 0..N} \ {Null}
           Q(i) == {n \in G : \E j \in 0..N : j < i /\ f[j].at = n}
           P(i) == {n \in Q(i) : ~t.node[n].glue}
           Ahead(i) == f[i].at # Null => \A n \in Q(i) : t.node[n].len < t.node[f[i].at].len
           H == {i \in 0..N : Listed(t, P(i), f[i].plain) /\ Ahead(i)}
<1>4. 0 \in H
  <2>1. f[0].plain = <<>>
    BY <1>2 DEF Passed
  <2>2. P(0) = {} /\ Q(0) = {}
    BY <1>0
  <2>3. Listed(t, {}, <<>>)
    BY EmptySeq DEF Listed
  <2> HIDE DEF P, Q
  <2> QED
    BY <1>0, <2>1, <2>2, <2>3
<1>5. ASSUME NEW i \in 0..N - 1, i \in H PROVE i + 1 \in H
  <2>1. i + 1 \in 0..N /\ i \in 0..N /\ \A j \in 0..N : j < i + 1 <=> j < i \/ j = i
    BY <1>0
  <2>2. Listed(t, P(i), f[i].plain) /\ Ahead(i)
    BY <1>5
  <2> DEFINE m == f[i].at
  <2>3. CASE m \notin G
    <3>1. f[i + 1] = f[i]
      BY <1>3, <2>3
    <3>2. Q(i + 1) = Q(i)
      BY <2>1, <2>3
    <3> HIDE DEF Q
    <3> QED
      BY <2>1, <2>2, <3>1, <3>2
  <2>4. CASE m \in G
    <3> DEFINE n == Toward(t, m, p)
    <3>1. f[i + 1] = Onward(t, p, f[i])
      BY <1>3, <2>4
    <3>2. f[i + 1].at = n /\ f[i + 1].plain = IF t.node[m].glue THEN f[i].plain ELSE Append(f[i].plain, m)
      BY <3>1 DEF Onward
    <3>3. Q(i + 1) = Q(i) \cup {m}
      BY <2>1, <2>4
    <3>4. m # Null /\ m \in S /\ m \in Nodes
      BY <1>1, <1>3, <2>1, <2>4
    <3> HIDE DEF Q, m, n
    <3>5. P(i + 1) = IF t.node[m].glue THEN P(i) ELSE P(i) \cup {m}
      BY <3>3
    <3>6. \A x \in Q(i) : t.node[x].len < t.node[m].len
      BY <2>2, <3>4 DEF m
    <3>7. Listed(t, P(i + 1), f[i + 1].plain)
      <4>1. CASE t.node[m].glue
        BY <2>2, <3>2, <3>5, <4>1
      <4>2. CASE ~t.node[m].glue
        <5>1. \A x \in P(i) : t.node[x].len < t.node[m].len
          BY <3>6
        <5>2. Listed(t, P(i) \cup {m}, Append(f[i].plain, m))
          <6> HIDE DEF P
          <6> QED
            BY <2>2, <3>4, <5>1, ListedOn
        <5>3. P(i + 1) = P(i) \cup {m} /\ f[i + 1].plain = Append(f[i].plain, m)
          BY <3>2, <3>5, <4>2
        <5> HIDE DEF P
        <5> QED
          BY <5>2, <5>3
      <4> QED
        BY <4>1, <4>2
    <3>8. Ahead(i + 1)
      <4> SUFFICES ASSUME n # Null, NEW x \in Q(i) \cup {m} PROVE t.node[x].len < t.node[n].len
        BY <3>2, <3>3
      <4>1. Bit(p, t.node[m].len) \in {0, 1} /\ n = t.node[m].child[Bit(p, t.node[m].len)]
        BY <1>1, <3>4, TowardIs DEF Toward, n
      <4>2. t.node[m].len < t.node[n].len /\ t.node[m].len \in Nat /\ t.node[n].len \in Nat
        BY <3>4, <4>1, ChildIs
      <4>3. CASE x \in Q(i)
        <5>1. t.node[x].len \in Nat /\ t.node[x].len < t.node[m].len
          <6>1. x \in Nodes
            BY <4>3 DEF Q
          <6> QED
            BY <1>1, <3>6, <4>3, <6>1, NodeIs
        <5> QED
          BY <4>2, <5>1
      <4>4. CASE x = m
        BY <4>2, <4>4
      <4> QED
        BY <4>3, <4>4
    <3> HIDE DEF P, Ahead
    <3> QED
      BY <2>1, <3>7, <3>8
  <2> QED
    BY <2>3, <2>4
<1> HIDE DEF H
<1>6. N \in H
  <2>1. \A i \in 0..N : i \in H
    BY <1>0, <1>4, <1>5, UpTo
  <2> QED
    BY <1>0, <2>1
<1>7. P(N) = {v \in V \cap G : ~t.node[v].glue}
  <2>1. \A j \in 0..N : j < N \/ j = N
    BY <1>0
  <2>2. \A n \in G : n \in Q(N) <=> n \in V
    BY <1>1, <1>3, <2>1
  <2> HIDE DEF V
  <2>3. \A n \in Q(N) : n \in G
    OBVIOUS
  <2> HIDE DEF Q
  <2> QED
    BY <2>2, <2>3
<1>8. Way(t, S, p, G, V, f[N].at)
  <2> HIDE DEF V
  <2> QED
    BY <1>2, WayIs DEF V
<1> HIDE DEF P, V
<1>9. Listed(t, P(N), f[N].plain)
  BY <1>6 DEF H
<1> QED
  BY <1>2, <1>7, <1>8, <1>9

-----------------------------------------------------------------------------
(* What the searches find *)

\* A prefix covers another that begins with it.
LEMMA CoversIs ==
    ASSUME NEW x \in Strings, NEW y \in Strings
    PROVE  /\ Covers(x, y) <=> Len(x) <= Len(y) /\ Agree(x, y, Len(x))
           /\ Covers(x, y) /\ Len(x) = Len(y) => x = y
           /\ Covers(x, x)
<1>1. Len(x) \in Nat /\ Len(y) \in Nat
  BY BitIs
<1>2. ASSUME Len(x) <= Len(y)
      PROVE  (\A i \in 1..Len(x) : x[i] = y[i]) <=> Agree(x, y, Len(x))
  <2>1. ASSUME NEW i \in 1..Len(x)
        PROVE  i - 1 \in 0..(Len(x) - 1) /\ Bit(x, i - 1) = x[i] /\ Bit(y, i - 1) = y[i]
    BY <1>1, <1>2 DEF Bit
  <2>2. ASSUME NEW i \in 0..(Len(x) - 1)
        PROVE  i + 1 \in 1..Len(x) /\ Bit(x, i) = x[i + 1] /\ Bit(y, i) = y[i + 1]
    BY <1>1, <1>2 DEF Bit
  <2> QED
    BY <2>1, <2>2 DEF Agree
<1>3. Covers(x, y) <=> Len(x) <= Len(y) /\ Agree(x, y, Len(x))
  BY <1>2 DEF Covers
<1>4. Covers(x, x)
  BY <1>1 DEF Covers
<1> QED
  BY <1>3, <1>4, SameString

\* The nodes of the prefixes above p, p included.
Up(t, S, a, p) == {n \in Plains(t, S) : Covers(a[n], p)}

\* A plain node's bits, and what the comparisons with them say.
LEMMA PlainIs ==
    ASSUME NEW t, NEW S, NEW a, Shape(t.head, t.node, S, a), NEW n \in Plains(t, S), NEW p \in Strings
    PROVE  /\ n \in S /\ n \in Nodes /\ n # Null /\ ~t.node[n].glue
           /\ a[n] \in Strings /\ Len(a[n]) = t.node[n].len /\ t.node[n].addr = a[n] /\ a[n] \in Prefixes
           /\ t.node[n].len \in Nat /\ Len(p) \in Nat
           /\ IsAbove(t, n, p) <=> Agree(a[n], p, t.node[n].len)
           /\ IsBelow(t, n, p) <=> Agree(a[n], p, Len(p))
           /\ Covers(a[n], p) <=> t.node[n].len <= Len(p) /\ Agree(a[n], p, t.node[n].len)
           /\ Covers(p, a[n]) <=> Len(p) <= t.node[n].len /\ Agree(a[n], p, Len(p))
           /\ Covers(a[n], p) /\ t.node[n].len = Len(p) => a[n] = p
           /\ Covers(a[n], a[n])
<1>1. n \in S /\ n \in Nodes /\ n # Null /\ ~t.node[n].glue
  BY NodesAre DEF Plains, Shape
<1>2. /\ a[n] \in Strings /\ Len(a[n]) = t.node[n].len /\ t.node[n].addr = a[n] /\ a[n] \in Prefixes
  BY <1>1 DEF Shape, Named
<1>3. t.node[n].len \in Nat /\ Len(p) \in Nat
  BY <1>1, NodeIs, BitIs DEF Shape
<1>4. /\ IsAbove(t, n, p) <=> Agree(a[n], p, t.node[n].len)
      /\ IsBelow(t, n, p) <=> Agree(a[n], p, Len(p))
  BY <1>2 DEF IsAbove, IsBelow, Match, Agree
<1>5. /\ Covers(a[n], p) <=> t.node[n].len <= Len(p) /\ Agree(a[n], p, t.node[n].len)
      /\ Covers(a[n], p) /\ t.node[n].len = Len(p) => a[n] = p
      /\ Covers(a[n], a[n])
  BY <1>2, CoversIs
<1>6. Covers(p, a[n]) <=> Len(p) <= t.node[n].len /\ Agree(a[n], p, Len(p))
  <2>1. Covers(p, a[n]) <=> Len(p) <= Len(a[n]) /\ Agree(p, a[n], Len(p))
    BY <1>2, CoversIs
  <2> QED
    BY <1>2, <2>1, Agreement
<1> QED
  BY <1>1, <1>2, <1>3, <1>4, <1>5, <1>6

\* The descent for the supernets lists the nodes above p, and ends at that of p if
\* there is one.
LEMMA AboveIs ==
    ASSUME NEW t, NEW S, NEW a, Shape(t.head, t.node, S, a), NEW p \in Strings
    PROVE  /\ Listed(t, {n \in Up(t, S, a, p) : a[n] # p}, Above(t, p).plain)
           /\ \A n \in Plains(t, S) : a[n] = p => Above(t, p).at = n
           /\ Above(t, p).at \in S \cup {Null}
           /\ LET e == Above(t, p).at
              IN  e # Null /\ ~t.node[e].glue /\ t.node[e].len <= Len(p) /\ IsBelow(t, e, p) => a[e] = p
<1> DEFINE G == {n \in Shorter(t, p) : t.node[n].glue \/ IsAbove(t, n, p)}
           e == Above(t, p).at
           s == Above(t, p).plain
<1>1. G \in SUBSET Nodes
  BY DEF Shorter
<1>2. Above(t, p) = Descent(t, p, G)
  BY DEF Above
<1>3. PICK V : Way(t, S, p, G, V, e) /\ Listed(t, {v \in V \cap G : ~t.node[v].glue}, s)
  <2> DEFINE d == Descent(t, p, G)
  <2>1. \E V : /\ Way(t, S, p, G, V, d.at)
               /\ Listed(t, {v \in V \cap G : ~t.node[v].glue}, d.plain)
    <3> HIDE DEF G
    <3> QED
      BY <1>1, PathIs
  <2> HIDE DEF d, G
  <2> QED
    BY <1>2, <2>1 DEF d
<1>4. /\ V \subseteq S /\ S \subseteq Nodes /\ e \in V \cup {Null}
      /\ \A v \in V : v \notin G => v = e
      /\ e \notin G
  BY <1>3 DEF Way, Shape
<1>5. \A v \in V : v \in Shorter(t, p) <=> t.node[v].len < Len(p)
  BY <1>4 DEF Shorter
<1>6. \A n \in Plains(t, S) :
        /\ n \in S /\ n \in Nodes /\ n # Null /\ ~t.node[n].glue
        /\ a[n] \in Strings /\ Len(a[n]) = t.node[n].len
        /\ t.node[n].len \in Nat /\ Len(p) \in Nat
        /\ IsAbove(t, n, p) <=> Agree(a[n], p, t.node[n].len)
        /\ IsBelow(t, n, p) <=> Agree(a[n], p, Len(p))
        /\ Covers(a[n], p) <=> t.node[n].len <= Len(p) /\ Agree(a[n], p, t.node[n].len)
        /\ Covers(a[n], p) /\ t.node[n].len = Len(p) => a[n] = p
        /\ Covers(a[n], a[n])
  BY PlainIs
<1>7. \A v \in V : ~t.node[v].glue => v \in Plains(t, S)
  BY <1>4 DEF Plains
<1>8. ASSUME NEW k \in Nat, k <= Len(p) PROVE GoesOn(t, a, p, G, V, k)
  <2> SUFFICES ASSUME NEW v \in V, t.node[v].len < k, Agree(a[v], p, t.node[v].len) PROVE v \in G
    BY DEF GoesOn
  <2>1. t.node[v].len \in Nat
    BY <1>4, NodeIs DEF Shape
  <2>2. v \in Shorter(t, p)
    BY <1>5, <1>8, <2>1, BitIs
  <2>3. ~t.node[v].glue => IsAbove(t, v, p)
    BY <1>6, <1>7
  <2> QED
    BY <2>2, <2>3
<1>9. ASSUME NEW n \in Up(t, S, a, p) PROVE n \in V
  <2>1. n \in S /\ t.node[n].len \in Nat /\ t.node[n].len <= Len(p) /\ Agree(a[n], p, t.node[n].len)
    BY <1>6 DEF Up
  <2>2. GoesOn(t, a, p, G, V, t.node[n].len)
    BY <1>8, <2>1
  <2>3. Way(t, S, p, G, V, e)
    BY <1>3
  <2> HIDE DEF G, e
  <2> QED
    BY <1>1, <2>1, <2>2, <2>3, OnTheWay
<1>10. \A v \in V : ~t.node[v].glue =>
          (v \in G <=> v \in Up(t, S, a, p) /\ a[v] # p)
  <2> SUFFICES ASSUME NEW v \in V, ~t.node[v].glue PROVE v \in G <=> v \in Up(t, S, a, p) /\ a[v] # p
    OBVIOUS
  <2>1. v \in Plains(t, S)
    BY <1>7
  <2>2. v \in G <=> t.node[v].len < Len(p) /\ Agree(a[v], p, t.node[v].len)
    BY <1>5, <1>6, <2>1
  <2>3. v \in Up(t, S, a, p) <=> t.node[v].len <= Len(p) /\ Agree(a[v], p, t.node[v].len)
    BY <1>6, <2>1 DEF Up
  <2>4. a[v] = p => t.node[v].len = Len(p)
    BY <1>6, <2>1
  <2>5. t.node[v].len = Len(p) /\ Agree(a[v], p, t.node[v].len) => a[v] = p
    BY <1>6, <2>1
  <2>6. t.node[v].len \in Nat /\ Len(p) \in Nat
    BY <1>6, <2>1
  <2> HIDE DEF G
  <2> QED
    BY <2>2, <2>3, <2>4, <2>5, <2>6
<1>11. {v \in V \cap G : ~t.node[v].glue} = {n \in Up(t, S, a, p) : a[n] # p}
  <2>1. \A n \in Up(t, S, a, p) : ~t.node[n].glue
    BY DEF Up, Plains
  <2> HIDE DEF G
  <2> QED
    BY <1>9, <1>10, <2>1
<1>12. ASSUME NEW n \in Plains(t, S), a[n] = p PROVE e = n
  <2>1. n \in Up(t, S, a, p) /\ ~t.node[n].glue
    BY <1>6, <1>12 DEF Up
  <2>2. n \in V /\ n \notin G
    BY <1>9, <1>10, <1>12, <2>1
  <2> QED
    BY <1>4, <2>2
<1>13. ASSUME e # Null, ~t.node[e].glue, t.node[e].len <= Len(p), IsBelow(t, e, p) PROVE a[e] = p
  <2>1. e \in V
    BY <1>4, <1>13
  <2> HIDE DEF e
  <2>2. e \in Plains(t, S)
    BY <1>7, <1>13, <2>1
  <2>3. t.node[e].len \in Nat /\ Len(p) \in Nat /\ Agree(a[e], p, Len(p))
    BY <1>6, <1>13, <2>2
  <2>4. Agree(a[e], p, t.node[e].len)
    BY <1>13, <2>3 DEF Agree
  <2>5. e \in Up(t, S, a, p)
    BY <1>6, <1>13, <2>2, <2>4 DEF Up
  <2> HIDE DEF G
  <2> QED
    BY <1>4, <1>10, <1>13, <2>1, <2>5
<1>14. e \in S \cup {Null}
  BY <1>4
<1> HIDE DEF G
<1> QED
  BY <1>3, <1>11, <1>12, <1>13, <1>14

\* The supernets are all listed, p the last of them.
LEMMA SupernetsAre ==
    ASSUME NEW t, NEW S, NEW a, Shape(t.head, t.node, S, a), NEW p \in Strings
    PROVE  Listed(t, Up(t, S, a, p), GetSupernets(t, p))
<1> DEFINE e == Above(t, p).at
           s == Above(t, p).plain
           P == {n \in Up(t, S, a, p) : a[n] # p}
           self == e # Null /\ ~t.node[e].glue /\ t.node[e].len <= Len(p) /\ IsBelow(t, e, p)
<1>1. /\ Listed(t, P, s) /\ e \in S \cup {Null}
      /\ \A n \in Plains(t, S) : a[n] = p => e = n
      /\ self => a[e] = p
  BY AboveIs
<1>2. GetSupernets(t, p) = s \o (IF self THEN <<e>> ELSE <<>>)
  BY DEF GetSupernets
<1>3. s \in Seq(Nodes) /\ S \subseteq Nodes
  BY <1>1 DEF Listed, Shape
<1> HIDE DEF s
<1>4. CASE self
  <2>1. e \in Plains(t, S) /\ a[e] = p /\ e \in Nodes
    BY <1>1, <1>3, <1>4 DEF Plains
  <2> HIDE DEF e
  <2>2. \A n \in Plains(t, S) : /\ Len(a[n]) = t.node[n].len /\ t.node[n].len \in Nat /\ Len(p) \in Nat
                                /\ Covers(a[n], a[n])
                                /\ Covers(a[n], p) => t.node[n].len <= Len(p)
                                /\ Covers(a[n], p) /\ t.node[n].len = Len(p) => a[n] = p
    BY PlainIs
  <2>3. \A m \in P : t.node[m].len < t.node[e].len
    BY <2>1, <2>2 DEF Up
  <2>4. Up(t, S, a, p) = P \cup {e}
    <3>1. \A n \in Up(t, S, a, p) : n \in P \/ n = e
      BY <1>1 DEF Up, e
    <3>2. e \in Up(t, S, a, p)
      BY <2>1, <2>2 DEF Up
    <3> QED
      BY <3>1, <3>2
  <2>5. GetSupernets(t, p) = Append(s, e)
    BY <1>2, <1>3, <1>4, <2>1, AppendIsConcat
  <2> HIDE DEF P, self
  <2> QED
    BY <1>1, <2>1, <2>3, <2>4, <2>5, ListedOn
<1>5. CASE ~self
  <2>1. \A n \in Plains(t, S) : a[n] # p
    <3> SUFFICES ASSUME NEW n \in Plains(t, S), a[n] = p PROVE FALSE
      OBVIOUS
    <3>1. e = n
      BY <1>1
    <3>2. /\ n # Null /\ ~t.node[n].glue /\ Len(a[n]) = t.node[n].len /\ t.node[n].len \in Nat
          /\ IsBelow(t, n, p) <=> Agree(a[n], p, Len(p))
      BY PlainIs
    <3> HIDE DEF e
    <3> QED
      BY <1>5, <3>1, <3>2, Agreement
  <2>2. P = Up(t, S, a, p)
    BY <2>1 DEF Up
  <2>3. GetSupernets(t, p) = s
    <3>1. GetSupernets(t, p) = s \o <<>>
      BY <1>2, <1>5
    <3> QED
      BY <1>3, <3>1, ConcatEmptySeq
  <2> QED
    BY <1>1, <2>2, <2>3
<1> QED
  BY <1>4, <1>5

\* A list of plain nodes is a list of their prefixes.
LEMMA ListIs ==
    ASSUME NEW S, NEW a, Shape(trie.head, trie.node, S, a),
           NEW P \in SUBSET Plains(trie, S), NEW s, Listed(trie, P, s)
    PROVE  /\ IsListOf(s, {a[n] : n \in P})
           /\ \A i, j \in DOMAIN s : i < j => trie.node[s[i]].len < trie.node[s[j]].len
<1> DEFINE k == Len(s)
           f == Addrs(s)
           Q == {a[n] : n \in P}
<1>1. s \in Seq(Nodes) /\ k \in Nat /\ DOMAIN s = 1..k
  BY LenProperties DEF Listed
<1>2. /\ {s[i] : i \in 1..k} = P
      /\ \A i, j \in 1..k : i < j => trie.node[s[i]].len < trie.node[s[j]].len
  BY DEF Listed
<1>3. s # Undefined
  <2> SUFFICES ASSUME s = <<Unset>> PROVE FALSE
    BY DEF Undefined
  <2>1. s[1] = Unset /\ 1 \in 1..k
    BY <1>1
  <2>2. Unset \in Nodes
    BY <1>1, <2>1, ElementOfSeq
  <2> QED
    BY <2>2, NodesAre DEF Unset
<1>4. f = [i \in 1..k |-> trie.node[s[i]].addr]
  BY <1>1 DEF Addrs
<1>5. \A n \in P : trie.node[n].addr = a[n] /\ Len(a[n]) = trie.node[n].len /\ trie.node[n].len \in Nat
  <2>1. \A n \in Plains(trie, S) :
           trie.node[n].addr = a[n] /\ Len(a[n]) = trie.node[n].len /\ trie.node[n].len \in Nat
    <3>1. <<>> \in Strings
      BY EmptySeq DEF Strings
    <3> QED
      BY <3>1, PlainIs
  <2> QED
    BY <2>1
<1>6. \A i \in 1..k : s[i] \in P /\ f[i] = a[s[i]]
  BY <1>2, <1>4, <1>5
<1> HIDE DEF f, k
<1>7. \A x \in Q : \E i \in 1..k : f[i] = x
  <2>1. \A n \in P : \E i \in 1..k : s[i] = n
    BY <1>2
  <2> QED
    BY <1>6, <2>1
<1>8. f \in [1..k -> Q]
  BY <1>4, <1>6
<1>9. \A i, j \in 1..k : f[i] = f[j] => i = j
  <2> SUFFICES ASSUME NEW i \in 1..k, NEW j \in 1..k, f[i] = f[j], i # j PROVE FALSE
    OBVIOUS
  <2>1. trie.node[s[i]].len = trie.node[s[j]].len /\ trie.node[s[i]].len \in Nat
    BY <1>5, <1>6
  <2>2. i < j \/ j < i
    BY <1>1
  <2> QED
    BY <1>2, <2>1, <2>2
<1> HIDE DEF Q
<1>10. ExistsBijection(1..k, Q)
  <2>1. f \in Bijection(1..k, Q)
    BY <1>7, <1>8, <1>9 DEF Bijection, Injection, Surjection, IsInjective
  <2> QED
    BY <2>1 DEF ExistsBijection
<1>11. Cardinality(Q) = k
  BY <1>1, <1>10, FS_CountingElements
<1>12. {f[i] : i \in 1..k} = Q
  BY <1>7, <1>8
<1>13. IsListOf(s, Q)
  BY <1>1, <1>3, <1>11, <1>12 DEF IsListOf, k, f
<1> QED
  BY <1>1, <1>2, <1>13 DEF Q

\* The best match is the longest prefix above p, other than p.
LEMMA BestIs ==
    ASSUME NEW t, NEW S, NEW a, Shape(t.head, t.node, S, a), NEW p \in Strings,
           NEW above, above = {a[n] : n \in Up(t, S, a, p)} \ {p}
    PROVE  /\ above = {} => SearchBest(t, p) = Null
           /\ above # {} => /\ SearchBest(t, p) # Null
                            /\ t.node[SearchBest(t, p)].addr = Longest(above)
<1> DEFINE s == Above(t, p).plain
           P == {n \in Up(t, S, a, p) : a[n] # p}
           k == Len(s)
           m == s[k]
<1>1. Listed(t, P, s)
  BY AboveIs
<1>2. above = {a[n] : n \in P}
  OBVIOUS
<1>3. SearchBest(t, p) = IF s = <<>> THEN Null ELSE m
  BY DEF SearchBest
<1>4. s \in Seq(Nodes) /\ k \in Nat
  BY <1>1, LenProperties DEF Listed
<1>5. /\ {s[i] : i \in 1..k} = P
      /\ \A i, j \in 1..k : i < j => t.node[s[i]].len < t.node[s[j]].len
  BY <1>1 DEF Listed
<1> HIDE DEF P, s
<1>6. CASE s = <<>>
  <2>1. k = 0
    BY <1>6, EmptySeq
  <2>2. P = {}
    BY <1>5, <2>1
  <2> QED
    BY <1>2, <1>3, <1>6, <2>2
<1>7. CASE s # <<>>
  <2>1. k \in 1..k
    BY <1>4, <1>7, EmptySeq
  <2>2. m \in P
    BY <1>5, <2>1
  <2>3. \A n \in P : /\ n \in Plains(t, S) /\ Covers(a[n], p) /\ t.node[n].addr = a[n] /\ n # Null
                     /\ Len(a[n]) = t.node[n].len /\ t.node[n].len \in Nat
                     /\ a[n] \in Strings
                     /\ Agree(a[n], p, t.node[n].len)
    BY PlainIs DEF P, Up
  <2>4. ASSUME NEW n \in P, n # m PROVE t.node[n].len < t.node[m].len
    <3>1. PICK i \in 1..k : s[i] = n
      BY <1>5
    <3>2. i < k
      BY <1>4, <2>4, <3>1
    <3> QED
      BY <1>5, <2>1, <3>1, <3>2
  <2> HIDE DEF m, k
  <2>5. \A q \in above : Len(q) <= Len(a[m]) /\ (Len(q) = Len(a[m]) => q = a[m])
    <3>1. \A n \in P : Len(a[n]) <= Len(a[m]) /\ (Len(a[n]) = Len(a[m]) => a[n] = a[m])
      BY <2>2, <2>3, <2>4
    <3> QED
      BY <1>2, <3>1
  <2>6. a[m] \in above /\ \A q \in above : Len(q) \in Nat
    BY <1>2, <2>2, <2>3
  <2>7. Longest(above) = a[m]
    <3> DEFINE x == Longest(above)
    <3>1. x \in above /\ \A q \in above : Len(q) <= Len(x)
      BY <2>5, <2>6 DEF Longest
    <3> HIDE DEF x
    <3>2. Len(x) = Len(a[m])
      BY <2>5, <2>6, <3>1
    <3> QED
      BY <2>5, <3>1, <3>2 DEF x
  <2> QED
    BY <1>3, <1>7, <2>2, <2>3, <2>6, <2>7
<1> QED
  BY <1>6, <1>7

\* There is a prefix above p if the first plain node on the way to it says so.
LEMMA SubnetIs ==
    ASSUME NEW t, NEW S, NEW a, Shape(t.head, t.node, S, a), NEW p \in Strings
    PROVE  IsSubnetOf(t, p) <=> Up(t, S, a, p) # {}
<1> DEFINE G == {m \in Shorter(t, p) : t.node[m].glue}
           n == Descent(t, p, G).at
<1>1. IsSubnetOf(t, p) <=> /\ n # Null /\ ~t.node[n].glue /\ t.node[n].len <= Len(p)
                           /\ IF n \in Shorter(t, p) THEN IsAbove(t, n, p) ELSE IsBelow(t, n, p)
  BY DEF IsSubnetOf
<1>2. G \in SUBSET Nodes
  BY DEF Shorter
<1>3. PICK V : Way(t, S, p, G, V, n)
  <2> HIDE DEF G
  <2> QED
    BY <1>2, DescentWay
<1>4. V \subseteq S /\ S \subseteq Nodes /\ n \in V \cup {Null} /\ \A v \in V : v \notin G => v = n
  BY <1>3 DEF Way, Shape
<1>5. \A v \in Plains(t, S) :
        /\ v \in S /\ v # Null /\ ~t.node[v].glue /\ t.node[v].len \in Nat /\ Len(p) \in Nat
        /\ IsAbove(t, v, p) <=> Agree(a[v], p, t.node[v].len)
        /\ IsBelow(t, v, p) <=> Agree(a[v], p, Len(p))
        /\ Covers(a[v], p) <=> t.node[v].len <= Len(p) /\ Agree(a[v], p, t.node[v].len)
  BY PlainIs
<1>6. \A v \in S : v \in Shorter(t, p) <=> t.node[v].len < Len(p)
  BY <1>4 DEF Shorter
<1>7. ASSUME IsSubnetOf(t, p) PROVE Up(t, S, a, p) # {}
  <2>1. n \in Plains(t, S)
    BY <1>1, <1>4, <1>7 DEF Plains
  <2> HIDE DEF n
  <2>2. Covers(a[n], p)
    <3>1. t.node[n].len <= Len(p)
      BY <1>1, <1>7
    <3>2. CASE t.node[n].len < Len(p)
      BY <1>1, <1>5, <1>6, <1>7, <2>1, <3>1, <3>2
    <3>3. CASE t.node[n].len = Len(p)
      BY <1>1, <1>5, <1>6, <1>7, <2>1, <3>1, <3>3
    <3> QED
      BY <1>5, <2>1, <3>1, <3>2, <3>3
  <2> QED
    BY <2>1, <2>2 DEF Up
<1>8. ASSUME Up(t, S, a, p) # {} PROVE IsSubnetOf(t, p)
  <2> DEFINE L == {t.node[v].len : v \in Up(t, S, a, p)}
  <2>1. L \in SUBSET Nat /\ L # {}
    BY <1>5, <1>8 DEF Up
  <2>2. Min(L) \in L /\ \A x \in L : Min(L) <= x
    <3> HIDE DEF L
    <3> QED
      BY <2>1, MinIsLeast
  <2>3. PICK w \in Up(t, S, a, p) : t.node[w].len = Min(L)
    BY <2>2
  <2>4. \A v \in Up(t, S, a, p) : t.node[w].len <= t.node[v].len
    BY <2>2, <2>3
  <2>5. /\ w \in Plains(t, S) /\ w \in S /\ t.node[w].len \in Nat /\ t.node[w].len <= Len(p)
        /\ Agree(a[w], p, t.node[w].len) /\ ~t.node[w].glue /\ w # Null /\ Len(p) \in Nat
    BY <1>5, <2>3 DEF Up
  <2> HIDE DEF L
  <2>6. GoesOn(t, a, p, G, V, t.node[w].len)
    <3> SUFFICES ASSUME NEW v \in V, t.node[v].len < t.node[w].len, Agree(a[v], p, t.node[v].len)
                 PROVE v \in G
      BY DEF GoesOn
    <3>1. v \in S /\ t.node[v].len \in Nat
      BY <1>4, NodeIs DEF Shape
    <3>2. v \in Shorter(t, p)
      BY <1>6, <2>5, <3>1
    <3>3. t.node[v].glue
      <4> SUFFICES ASSUME ~t.node[v].glue PROVE FALSE
        OBVIOUS
      <4>1. v \in Plains(t, S)
        BY <3>1 DEF Plains
      <4>2. v \in Up(t, S, a, p)
        BY <1>5, <2>5, <3>1, <4>1 DEF Up
      <4> QED
        BY <2>4, <2>5, <3>1, <4>2
    <3> QED
      BY <3>2, <3>3
  <2>7. w \notin G
    BY <2>5
  <2>8. w \in V
    <3> HIDE DEF G, n
    <3> QED
      BY <1>2, <1>3, <2>5, <2>6, OnTheWay
  <2>9. w = n
    BY <1>4, <2>7, <2>8
  <2>10. t.node[w].len = Len(p) => IsBelow(t, w, p)
    BY <1>5, <2>5
  <2> HIDE DEF n
  <2> QED
    BY <1>1, <1>5, <1>6, <2>5, <2>9, <2>10
<1> QED
  BY <1>7, <1>8

\* The states of a walk over the nodes S.
Marks(S) == [at   : S \cup {Null},
             pos  : Nat,
             slot : [0..MaxBitLen -> Nodes \cup {Unset}],
             out  : Seq(Nodes)]

\* One step of the walk for a subnet of p, and the walk as the recursion it is.
Looks(t, p, w) ==
    IF ~t.node[w.at].glue
      THEN [w EXCEPT !.at = Null, !.out = IF IsBelow(t, w.at, p) THEN <<w.at>> ELSE <<>>]
      ELSE IF HasChild(t, w.at) THEN Into(t, w) ELSE MisPopped(w)

LooksOn(t, p, f) ==
    f = [i \in 0..(3 * Cardinality(Nodes)) |->
            IF i = 0 THEN Walk(Start(t, p))
            ELSE LET w == f[i - 1]
                 IN  IF Ended(w) THEN w ELSE Looks(t, p, w)]

\* The walk ends at a plain node, and goes to the left child of glue: it never pops.
Looked(t, p, w, v) ==
    /\ t.node[w.at].glue => v.at = t.node[w.at].child[0] /\ v.at # Null /\ v.out = w.out
    /\ ~t.node[w.at].glue => v.at = Null /\ v.out = IF IsBelow(t, w.at, p) THEN <<w.at>> ELSE <<>>

\* A step of the walk for a subnet.
LEMMA LooksIs ==
    ASSUME NEW t, NEW S, NEW a, Shape(t.head, t.node, S, a), Forked(t.node, S), NEW p,
           NEW w \in Marks(S), w.at # Null
    PROVE  Looks(t, p, w) \in Marks(S) /\ Looked(t, p, w, Looks(t, p, w))
<1> DEFINE left == t.node[w.at].child[0]
           right == t.node[w.at].child[1]
<1>1. /\ w.at \in S /\ w.pos \in Nat /\ w.slot \in [0..MaxBitLen -> Nodes \cup {Unset}]
      /\ w.out \in Seq(Nodes) /\ w.at \in Nodes
      /\ w = [at |-> w.at, pos |-> w.pos, slot |-> w.slot, out |-> w.out]
  BY DEF Marks, Shape
<1>2. CASE t.node[w.at].glue
  <2>1. left # Null /\ right # Null
    BY <1>1, <1>2 DEF Forked
  <2>2. left \in S /\ right \in Nodes
    BY <1>1, <2>1, ChildIs
  <2> HIDE DEF left, right
  <2> DEFINE v == [w EXCEPT !.at = left, !.pos = @ + 1, !.slot[w.pos] = right]
  <2>3. Looks(t, p, w) = v
    <3>1. HasChild(t, w.at)
      BY <2>1 DEF HasChild, left
    <3>2. Into(t, w) = v
      BY <2>1 DEF Into, left, right
    <3> HIDE DEF v
    <3> QED
      BY <1>2, <3>1, <3>2 DEF Looks
  <2>4. v \in Marks(S) /\ v.at = left /\ v.out = w.out
    <3> DEFINE s == [w.slot EXCEPT ![w.pos] = right]
    <3>1. s \in [0..MaxBitLen -> Nodes \cup {Unset}]
      BY <1>1, <2>2
    <3>2. v = [w EXCEPT !.at = left, !.pos = @ + 1, !.slot = s]
      OBVIOUS
    <3>3. w.pos + 1 \in Nat
      BY <1>1
    <3> HIDE DEF s, v
    <3> QED
      BY <1>1, <2>2, <3>1, <3>2, <3>3 DEF Marks
  <2> HIDE DEF v
  <2> QED
    BY <1>2, <2>1, <2>3, <2>4 DEF Looked, left
<1>3. CASE ~t.node[w.at].glue
  <2> DEFINE o == IF IsBelow(t, w.at, p) THEN <<w.at>> ELSE <<>>
             v == [w EXCEPT !.at = Null, !.out = o]
  <2>1. Looks(t, p, w) = v
    BY <1>3 DEF Looks
  <2>2. o \in Seq(Nodes)
    BY <1>1
  <2> HIDE DEF o
  <2>3. v \in Marks(S) /\ v.at = Null /\ v.out = o
    BY <1>1, <2>2 DEF Marks
  <2> HIDE DEF v
  <2> QED
    BY <1>3, <2>1, <2>3 DEF Looked, o
<1> QED
  BY <1>2, <1>3

\* The walk for a subnet: its start, its steps, and its answer.
LEMMA WalkIs ==
    ASSUME NEW t, NEW S, NEW a, Shape(t.head, t.node, S, a), Forked(t.node, S), NEW p \in Strings,
           Start(t, p) \in S \cup {Null}
    PROVE  \E f : /\ IsSupernetOf(t, p) <=> f[3 * N].out # <<>>
                  /\ f[0].at = Start(t, p) /\ f[0].out = <<>>
                  /\ \A i \in 0..(3 * N) : f[i] \in Marks(S)
                  /\ \A i \in 0..(3 * N) - 1 : f[i].at = Null => f[i + 1] = f[i]
                  /\ \A i \in 0..(3 * N) - 1 : f[i].at # Null => Looked(t, p, f[i], f[i + 1])
<1> DEFINE k == 3 * N
           x0 == Walk(Start(t, p))
           X == Marks(S)
           step == [w \in X |-> IF w.at = Null THEN w ELSE Looks(t, p, w)]
<1>0. k \in Nat
  BY NodesAre
<1>1. x0 \in X /\ x0.at = Start(t, p) /\ x0.out = <<>>
  BY EmptySeq DEF Walk, Marks, Unset
<1>2. \A w \in X : w.at # Null => Looks(t, p, w) \in X /\ Looked(t, p, w, Looks(t, p, w))
  BY LooksIs
<1>3. \A w \in X : Ended(w) <=> w.at = Null
  BY NodesAre DEF Ended, Marks, Shape, Unset, Null
<1>4. step \in [X -> X]
  BY <1>2
<1>5. \A w \in X : step[w] = IF Ended(w) THEN w ELSE Looks(t, p, w)
  BY <1>3
<1> HIDE DEF step, X, x0, k
<1>6. PICK f : Runs(f, k, X, x0, step)
  BY <1>0, <1>1, <1>4, Iterates, Zenon
<1>7. f \in [0..k -> X] /\ f = [i \in 0..k |-> IF i = 0 THEN x0 ELSE step[f[i - 1]]]
  BY <1>6 DEF Runs
<1>8. \A i \in 0..k : i # 0 => f[i - 1] \in X
  <2>1. \A i \in 0..k : i # 0 => i - 1 \in 0..k
    BY <1>0
  <2> QED
    BY <1>7, <2>1
<1>9. \A i \in 0..k : i # 0 =>
         step[f[i - 1]] = IF Ended(f[i - 1]) THEN f[i - 1] ELSE Looks(t, p, f[i - 1])
  BY <1>5, <1>8
<1>10. f = [i \in 0..k |-> IF i = 0 THEN x0
                           ELSE IF Ended(f[i - 1]) THEN f[i - 1] ELSE Looks(t, p, f[i - 1])]
  BY <1>7, <1>9
<1>11. LooksOn(t, p, f)
  BY <1>10 DEF LooksOn, k, N, x0
<1> DEFINE g == CHOOSE g : LooksOn(t, p, g)
<1>12. LooksOn(t, p, g)
  BY <1>11
<1>13. IsSupernetOf(t, p) <=> g[k].out # <<>>
  BY Zenon DEF IsSupernetOf, Walked, LooksOn, Looks, k, N
<1> HIDE DEF g
<1>14. g = [i \in 0..k |-> IF i = 0 THEN x0
                           ELSE IF Ended(g[i - 1]) THEN g[i - 1] ELSE Looks(t, p, g[i - 1])]
  BY <1>12 DEF LooksOn, k, N, x0
<1>15. \A i \in 0..k : g[i] = IF i = 0 THEN x0
                              ELSE IF Ended(g[i - 1]) THEN g[i - 1] ELSE Looks(t, p, g[i - 1])
  BY <1>14, Zenon
<1>16. \A i \in 0..k - 1 : g[i + 1] = IF Ended(g[i]) THEN g[i] ELSE Looks(t, p, g[i])
  <2>1. \A i \in 0..k - 1 : i + 1 \in 0..k /\ i + 1 # 0 /\ (i + 1) - 1 = i
    BY <1>0
  <2> QED
    BY <1>15, <2>1
<1>17. g[0] = x0 /\ 0 \in 0..k
  BY <1>0, <1>15
<1>18. \A i \in 0..k : g[i] \in X
  <2> DEFINE H == {i \in 0..k : g[i] \in X}
  <2>1. 0 \in H
    BY <1>1, <1>17
  <2>2. ASSUME NEW i \in 0..k - 1, i \in H PROVE i + 1 \in H
    <3>1. i + 1 \in 0..k
      BY <1>0
    <3> QED
      BY <1>2, <1>3, <1>16, <2>2, <3>1
  <2> HIDE DEF H
  <2>3. \A i \in 0..k : i \in H
    BY <2>1, <2>2, <1>0, UpTo
  <2> QED
    BY <2>3 DEF H
<1>19. \A i \in 0..k - 1 : g[i] \in X
  BY <1>0, <1>18
<1>20. \A i \in 0..k - 1 : g[i].at = Null => g[i + 1] = g[i]
  BY <1>3, <1>16, <1>19
<1>21. \A i \in 0..k - 1 : g[i].at # Null => Looked(t, p, g[i], g[i + 1])
  BY <1>2, <1>3, <1>16, <1>19
<1> QED
  BY <1>1, <1>13, <1>17, <1>18, <1>20, <1>21 DEF X, k

\* The walks start at the topmost node below p, if there is one.
LEMMA StartIs ==
    ASSUME NEW t, NEW S, NEW a, Shape(t.head, t.node, S, a), NEW p \in Strings
    PROVE  /\ Start(t, p) \in S \cup {Null}
           /\ Start(t, p) # Null => Len(p) <= t.node[Start(t, p)].len
           /\ \A n \in S : Len(p) <= t.node[n].len /\ Agree(a[n], p, Len(p)) =>
                 Start(t, p) # Null /\ Agree(a[Start(t, p)], p, Len(p))
<1> DEFINE G == Shorter(t, p)
           e == Start(t, p)
           B == {n \in S : Len(p) <= t.node[n].len /\ Agree(a[n], p, Len(p))}
           L == {t.node[n].len : n \in B}
<1>1. G \in SUBSET Nodes
  BY DEF Shorter
<1>2. PICK V : Way(t, S, p, G, V, e)
  <2>1. e = Descent(t, p, G).at
    BY DEF Start
  <2> HIDE DEF G, e
  <2> QED
    BY <1>1, <2>1, DescentWay
<1>3. /\ V \subseteq S /\ S \subseteq Nodes /\ t.node \in [Nodes -> PNodes] /\ e \in V \cup {Null} /\ e \notin G
      /\ t.head # Null => t.head \in V
      /\ \A v \in V : v \notin G => v = e
      /\ \A v \in V : v \in G => Toward(t, v, p) \in V \cup {Null}
  BY <1>2 DEF Way, Shape
<1>4. \A n \in S : t.node[n].len \in Nat /\ (n \in G <=> t.node[n].len < Len(p)) /\ n # Null
  BY <1>3, NodeIs, NodesAre DEF Shorter
<1>5. Len(p) \in Nat
  BY BitIs
<1> HIDE DEF G, e
<1>6. e # Null => Len(p) <= t.node[e].len
  BY <1>3, <1>4, <1>5
<1>7. ASSUME B # {} PROVE e \in B
  <2>1. L \in SUBSET Nat /\ L # {}
    BY <1>4, <1>7
  <2> HIDE DEF L
  <2>2. Min(L) \in L /\ \A x \in L : Min(L) <= x
    BY <2>1, MinIsLeast
  <2>3. PICK w \in B : t.node[w].len = Min(L)
    BY <2>2 DEF L
  <2>4. \A n \in B : t.node[w].len <= t.node[n].len
    BY <2>2, <2>3 DEF L
  <2>5. w \in S /\ Len(p) <= t.node[w].len /\ Agree(a[w], p, Len(p)) /\ w \notin G
    BY <1>4, <1>5, <2>3
  <2>6. CASE w = t.head
    BY <1>3, <1>4, <2>3, <2>5, <2>6
  <2>7. CASE w # t.head
    <3> DEFINE q == t.node[w].parent
               k == t.node[q].len
    <3>1. /\ q \in S /\ k \in Nat /\ k < t.node[w].len
          /\ t.node[q].child[Bit(a[w], k)] = w /\ Agree(a[w], a[q], k)
      BY <2>5, <2>7, ParentIs
    <3> HIDE DEF q, k
    <3>2. t.node[q].len = k
      BY DEF k
    <3>3. k < Len(p)
      <4> SUFFICES ASSUME Len(p) <= k PROVE FALSE
        BY <1>5, <3>1
      <4>1. Agree(p, a[w], Len(p)) /\ Agree(a[q], a[w], k)
        BY <2>5, <3>1, Agreement
      <4>2. Agree(a[q], p, Len(p))
        BY <1>5, <2>5, <3>1, <4>1, Agreement
      <4>3. q \in B
        BY <3>1, <3>2, <4>2
      <4> QED
        BY <1>4, <2>4, <2>5, <3>1, <3>2, <4>3
    <3>4. Agree(a[q], p, k)
      <4>1. Agree(p, a[w], Len(p)) /\ k <= Len(p)
        BY <1>5, <2>5, <3>1, <3>3, Agreement
      <4>2. Agree(p, a[q], k)
        BY <1>5, <3>1, <4>1, Agreement
      <4> QED
        BY <4>2, Agreement
    <3>5. GoesOn(t, a, p, G, V, k)
      <4>1. \A v \in V : t.node[v].len < k => v \in G
        BY <1>3, <1>4, <1>5, <3>1, <3>3
      <4> QED
        BY <4>1 DEF GoesOn
    <3>6. q \in V
      BY <1>1, <1>2, <3>1, <3>2, <3>4, <3>5, OnTheWay
    <3>7. q \in G
      BY <1>4, <3>1, <3>2, <3>3
    <3>8. Toward(t, q, p) = w
      <4>1. Bit(a[w], k) = Bit(p, k)
        BY <1>5, <2>5, <3>1, <3>3, Agreement
      <4> QED
        BY <3>1, <3>2, <4>1 DEF Toward
    <3>9. w \in V
      BY <1>3, <1>4, <2>5, <3>6, <3>7, <3>8
    <3> QED
      BY <1>3, <2>3, <2>5, <3>9
  <2> QED
    BY <2>6, <2>7
<1>8. \A n \in S : Len(p) <= t.node[n].len /\ Agree(a[n], p, Len(p)) => e # Null /\ Agree(a[e], p, Len(p))
  <2>1. e \in B => e # Null /\ Agree(a[e], p, Len(p))
    BY <1>4
  <2> QED
    BY <1>7, <2>1
<1>9. e \in S \cup {Null}
  BY <1>3
<1> QED
  BY <1>6, <1>8, <1>9 DEF e

\* There is a prefix below p if the leftmost plain node below the start says so.
LEMMA SupernetIs ==
    ASSUME NEW t, NEW S, NEW a, Shape(t.head, t.node, S, a), Forked(t.node, S), NEW p \in Strings
    PROVE  IsSupernetOf(t, p) <=> \E n \in Plains(t, S) : Covers(p, a[n])
<1> DEFINE e == Start(t, p)
           yes == e # Null /\ Agree(a[e], p, Len(p))
           k == 3 * N
<1>1. /\ e \in S \cup {Null}
      /\ e # Null => Len(p) <= t.node[e].len
      /\ \A n \in S : Len(p) <= t.node[n].len /\ Agree(a[n], p, Len(p)) => yes
  BY StartIs
<1>2. PICK f : /\ IsSupernetOf(t, p) <=> f[k].out # <<>>
               /\ f[0].at = e /\ f[0].out = <<>>
               /\ \A i \in 0..k : f[i] \in Marks(S)
               /\ \A i \in 0..k - 1 : f[i].at = Null => f[i + 1] = f[i]
               /\ \A i \in 0..k - 1 : f[i].at # Null => Looked(t, p, f[i], f[i + 1])
  BY <1>1, WalkIs
<1>3. k \in Nat /\ N \in Nat /\ N <= k /\ 0 \in 0..k /\ k \in 0..k /\ \A i \in 0..k - 1 : i + 1 \in 0..k
  BY NodesAre
<1>4. S \in SUBSET Nodes /\ Null \notin S /\ t.node \in [Nodes -> PNodes] /\ Len(p) \in Nat
  BY NodesAre, BitIs DEF Shape
<1>5. \A n \in S : t.node[n].len \in Nat
  BY <1>4, NodeIs
<1>6. \A i \in 0..k : f[i].at \in S \cup {Null}
  BY <1>2 DEF Marks
<1> HIDE DEF k
<1> DEFINE Under(n) == t.node[e].len <= t.node[n].len /\ Agree(a[n], a[e], t.node[e].len)
           OnGlue(i) == f[i].out = <<>> /\ e # Null /\ Under(f[i].at)
           Done(i) == f[i].out # <<>> <=> yes
           H == {i \in 0..k : IF f[i].at = Null THEN Done(i) ELSE OnGlue(i)}
<1>7. 0 \in H
  <2>1. e # Null => Under(e)
    BY <1>1, <1>5, Agreement
  <2> QED
    BY <1>2, <1>3, <2>1
<1>8. ASSUME NEW i \in 0..k - 1, i \in H PROVE i + 1 \in H
  <2>0. i \in 0..k /\ i + 1 \in 0..k
    BY <1>3
  <2>1. CASE f[i].at = Null
    <3>1. f[i + 1] = f[i]
      BY <1>2, <2>1
    <3> QED
      BY <1>8, <2>0, <3>1
  <2>2. CASE f[i].at # Null
    <3> DEFINE n == f[i].at
               c == f[i + 1].at
    <3>1. n \in S /\ f[i].out = <<>> /\ e # Null /\ e \in S /\ Under(n)
      BY <1>1, <1>6, <1>8, <2>0, <2>2
    <3>2. Looked(t, p, f[i], f[i + 1])
      BY <1>2, <2>2
    <3>3. CASE t.node[n].glue
      <4>1. c = t.node[n].child[0] /\ c # Null /\ f[i + 1].out = <<>>
        BY <3>1, <3>2, <3>3 DEF Looked
      <4> HIDE DEF n, c, e
      <4>2. c \in S /\ t.node[n].len < t.node[c].len /\ Agree(a[c], a[n], t.node[n].len)
        BY <3>1, <4>1, ChildIs
      <4>3. Agree(a[c], a[e], t.node[e].len)
        BY <1>5, <3>1, <4>2, Agreement
      <4>4. t.node[e].len <= t.node[c].len
        BY <1>5, <3>1, <4>2
      <4> QED
        BY <2>0, <3>1, <4>1, <4>3, <4>4 DEF c
    <3>4. CASE ~t.node[n].glue
      <4>1. c = Null /\ f[i + 1].out = IF IsBelow(t, n, p) THEN <<n>> ELSE <<>>
        BY <3>2, <3>4 DEF Looked
      <4>2. n \in Plains(t, S)
        BY <3>1, <3>4 DEF Plains
      <4> HIDE DEF n, e
      <4>3. IsBelow(t, n, p) <=> Agree(a[n], p, Len(p))
        BY <4>2, PlainIs
      <4>4. Agree(a[n], p, Len(p)) <=> Agree(a[e], p, Len(p))
        <5>1. Agree(a[e], a[n], t.node[e].len) /\ Len(p) <= t.node[e].len
          BY <1>1, <3>1, Agreement DEF e
        <5> QED
          BY <1>4, <1>5, <3>1, <5>1, Agreement
      <4>5. <<n>> # <<>>
        OBVIOUS
      <4>6. f[i + 1].out # <<>> <=> yes
        BY <3>1, <4>1, <4>3, <4>4, <4>5 DEF e
      <4> QED
        BY <2>0, <4>1, <4>6 DEF e
    <3> QED
      BY <3>3, <3>4
  <2> QED
    BY <2>1, <2>2
<1>9. \A i \in 0..k : i \in H
  <2> HIDE DEF H
  <2> QED
    BY <1>3, <1>7, <1>8, UpTo
<1>10. f[k].at = Null
  <2>1. PICK D \in [S -> 0..(N - 1)] : \A m, n \in S : t.node[m].len < t.node[n].len => D[m] < D[n]
    BY <1>4, Depths
  <2> DEFINE K == {i \in 0..k : f[i].at # Null => i <= D[f[i].at]}
  <2>2. 0 \in K
    BY <1>3, <1>6, <2>1
  <2>3. ASSUME NEW i \in 0..k - 1, i \in K PROVE i + 1 \in K
    <3>0. i \in 0..k /\ i + 1 \in 0..k /\ i \in Nat
      BY <1>3
    <3> SUFFICES ASSUME f[i + 1].at # Null PROVE i + 1 <= D[f[i + 1].at]
      BY <3>0
    <3> DEFINE n == f[i].at
               c == f[i + 1].at
    <3>1. n # Null
      BY <1>2
    <3>2. n \in S /\ c \in S
      BY <1>6, <3>0, <3>1
    <3>3. Looked(t, p, f[i], f[i + 1]) /\ c # Null
      BY <1>2, <3>1
    <3>4. c = t.node[n].child[0]
      BY <3>3 DEF Looked
    <3>5. i <= D[n]
      BY <2>3, <3>1
    <3> HIDE DEF n, c
    <3>6. t.node[n].len < t.node[c].len
      BY <1>4, <3>2, <3>4, ChildIs
    <3>7. D[n] < D[c] /\ D[n] \in Int /\ D[c] \in Int
      BY <1>3, <2>1, <3>2, <3>6
    <3> QED
      BY <3>0, <3>5, <3>7 DEF c
  <2>4. \A i \in 0..k : i \in K
    <3> HIDE DEF K
    <3> QED
      BY <1>3, <2>2, <2>3, UpTo
  <2>5. k \in K /\ f[k].at \in S \cup {Null}
    BY <1>3, <1>6, <2>4
  <2>6. \A n \in S : D[n] \in 0..(N - 1) /\ ~ (k <= D[n])
    BY <1>3, <2>1
  <2> QED
    BY <2>5, <2>6
<1>11. IsSupernetOf(t, p) <=> yes
  BY <1>2, <1>3, <1>9, <1>10
<1>12. \A n \in Plains(t, S) : n \in S /\ (Covers(p, a[n]) <=> Len(p) <= t.node[n].len /\ Agree(a[n], p, Len(p)))
  BY PlainIs
<1>13. ASSUME yes PROVE \E n \in Plains(t, S) : Covers(p, a[n])
  <2>1. e \in S /\ Len(p) <= t.node[e].len
    BY <1>1, <1>13
  <2>2. Agree(a[e], p, Len(p))
    BY <1>13
  <2> HIDE DEF e
  <2>3. PICK m \in Plains(t, S) : t.node[e].len <= t.node[m].len /\ Agree(a[m], a[e], t.node[e].len)
    BY <2>1, PlainBelow
  <2>4. Agree(a[m], p, Len(p))
    BY <1>4, <1>5, <2>1, <2>2, <2>3, Agreement
  <2>5. Len(p) <= t.node[m].len
    BY <1>4, <1>5, <1>12, <2>1, <2>3
  <2> QED
    BY <1>12, <2>4, <2>5
<1>14. (\E n \in Plains(t, S) : Covers(p, a[n])) => yes
  BY <1>1, <1>12
<1> QED
  BY <1>11, <1>13, <1>14

\* The members of the set stored.
LEMMA StoredAre ==
    ASSUME NEW t, NEW S, NEW a, Shape(t.head, t.node, S, a)
    PROVE  \A x : x \in Stored(t) <=> \E n \in Plains(t, S) : a[n] = x
  BY StoredIs

\* What a sound trie is asked, it answers as the set of its prefixes would.
LEMMA AnswersAre ==
    ASSUME NEW S, NEW a, Sound(trie, S, a)
    PROVE  SearchesAreRight
<1> DEFINE all == Stored(trie)
<1>1. Shape(trie.head, trie.node, S, a) /\ Forked(trie.node, S)
  BY DEF Sound
<1>2. StoredIsFound
  BY SoundIs
<1>3. all = {a[n] : n \in Plains(trie, S)}
  BY <1>1, StoredAre
<1> HIDE DEF all
<1>4. ASSUME NEW p \in Prefixes
      PROVE  LET above == Supernets(all, p)
                 s     == GetSupernets(trie, p)
                 best  == SearchBest(trie, p)
             IN  /\ SearchExact(trie, p) # Null <=> p \in all
                 /\ IF above \ {p} = {} THEN best = Null
                    ELSE best # Null /\ trie.node[best].addr = Longest(above \ {p})
                 /\ IsListOf(s, above)
                 /\ \A i, j \in DOMAIN s : i < j => trie.node[s[i]].len < trie.node[s[j]].len
                 /\ IsSubnetOf(trie, p) <=> above # {}
                 /\ IsSupernetOf(trie, p) <=> SubnetsOf(all, p) # {}
  <2> DEFINE above == Supernets(all, p)
             s     == GetSupernets(trie, p)
             best  == SearchBest(trie, p)
             U     == Up(trie, S, a, p)
  <2>1. p \in Strings
    BY PrefixIs
  <2>2. above = {a[n] : n \in U}
    BY <1>3 DEF Supernets, Up
  <2>3. SearchExact(trie, p) # Null <=> p \in all
    <3>1. \A n \in Plains(trie, S) : n # Null
      BY <1>1, NodesAre DEF Plains, Shape
    <3> QED
      BY <1>1, <1>3, <2>1, <3>1, SearchExactIs
  <2>4. IF above \ {p} = {} THEN best = Null
        ELSE best # Null /\ trie.node[best].addr = Longest(above \ {p})
    <3> HIDE DEF above
    <3>1. above \ {p} = {a[n] : n \in Up(trie, S, a, p)} \ {p}
      BY <2>2
    <3> QED
      BY <1>1, <2>1, <3>1, BestIs
  <2>5. U \in SUBSET Plains(trie, S) /\ Listed(trie, U, s)
    BY <1>1, <2>1, SupernetsAre DEF Up
  <2>6. /\ IsListOf(s, {a[n] : n \in U})
        /\ \A i, j \in DOMAIN s : i < j => trie.node[s[i]].len < trie.node[s[j]].len
    <3> HIDE DEF s, U
    <3> QED
      BY <1>1, <2>5, ListIs
  <2>7. IsSubnetOf(trie, p) <=> above # {}
    <3>1. IsSubnetOf(trie, p) <=> U # {}
      BY <1>1, <2>1, SubnetIs
    <3> QED
      BY <2>2, <3>1
  <2>8. IsSupernetOf(trie, p) <=> SubnetsOf(all, p) # {}
    <3>1. IsSupernetOf(trie, p) <=> \E n \in Plains(trie, S) : Covers(p, a[n])
      BY <1>1, <2>1, SupernetIs
    <3> QED
      BY <1>3, <3>1 DEF SubnetsOf
  <2> HIDE DEF above, s, best, U
  <2> QED
    BY <2>2, <2>3, <2>4, <2>6, <2>7, <2>8 DEF above, s, best
<1> QED
  BY <1>2, <1>4 DEF SearchesAreRight, all

-----------------------------------------------------------------------------
(* The iterator *)

Kids(t, n) == {t.node[n].child[b] : b \in {0, 1}} \ {Null}

IsKid(t, S, n, c) ==
    /\ c \in S /\ c # n /\ c # t.head /\ c # Null
    /\ t.node[c].parent = n /\ t.node[c].len \in Nat /\ t.node[n].len < t.node[c].len

\* The children of a node are those of the tree whose parent it is.
LEMMA KidsAre ==
    ASSUME NEW t, NEW S, NEW a, Shape(t.head, t.node, S, a), NEW n \in S
    PROVE  \A c \in Kids(t, n) : IsKid(t, S, n, c)
<1> SUFFICES ASSUME NEW c \in Kids(t, n) PROVE IsKid(t, S, n, c)
  OBVIOUS
<1>1. PICK b \in {0, 1} : c = t.node[n].child[b] /\ t.node[n].child[b] # Null
  BY DEF Kids
<1>2. /\ c \in S /\ c # n /\ c # t.head /\ c # Null
      /\ t.node[c].parent = n /\ t.node[c].len \in Nat /\ t.node[n].len < t.node[c].len
  BY <1>1, ChildIs
<1> QED
  BY <1>2 DEF IsKid

\* The walk has been at the nodes M, and T are the next ones of their branches.
Frontier(t, S, M, T) ==
    /\ M \subseteq S /\ T \subseteq S /\ M \cap T = {}
    /\ t.head # Null => t.head \in M \cup T
    /\ \A n \in M : Kids(t, n) \subseteq M \cup T
    /\ \A n \in M \cup T : n # t.head => t.node[n].parent \in M

\* It goes from a node to its children, where it has not been.
LEMMA FrontierOn ==
    ASSUME NEW t, NEW S, NEW a, Shape(t.head, t.node, S, a),
           NEW M, NEW T, Frontier(t, S, M, T), NEW n \in T
    PROVE  /\ Kids(t, n) \cap (M \cup T) = {}
           /\ Frontier(t, S, M \cup {n}, (T \ {n}) \cup Kids(t, n))
<1>1. /\ M \subseteq S /\ T \subseteq S /\ M \cap T = {}
      /\ t.head # Null => t.head \in M \cup T
      /\ \A m \in M : Kids(t, m) \subseteq M \cup T
      /\ \A m \in M \cup T : m # t.head => t.node[m].parent \in M
  BY DEF Frontier
<1>2. \A c \in Kids(t, n) : c \in S /\ c # n /\ c # t.head /\ t.node[c].parent = n
  <2>1. n \in S
    BY <1>1
  <2>2. \A c \in Kids(t, n) : IsKid(t, S, n, c)
    BY <2>1, KidsAre, Zenon
  <2> QED
    BY <2>2 DEF IsKid
<1>3. Kids(t, n) \cap (M \cup T) = {}
  BY <1>1, <1>2
<1> DEFINE K == Kids(t, n)
           M2 == M \cup {n}
           T2 == (T \ {n}) \cup K
<1>4. M2 \cup T2 = (M \cup T) \cup K
  OBVIOUS
<1>5. \A m \in M2 : Kids(t, m) \subseteq M2 \cup T2
  BY <1>1, <1>4
<1>6. \A m \in M2 \cup T2 : m # t.head => t.node[m].parent \in M2
  BY <1>1, <1>2, <1>4
<1>7. M2 \subseteq S /\ T2 \subseteq S /\ M2 \cap T2 = {}
  BY <1>1, <1>2, <1>3
<1> QED
  BY <1>1, <1>3, <1>4, <1>5, <1>6, <1>7 DEF Frontier

\* The nodes still to visit: the one the walk is at, and those on its stack.
Todo(w) == ({w.at} \cup {w.slot[i] : i \in 0..(w.pos - 1)}) \ {Null}

\* The stack holds nodes of the tree, each once, and no more of them than the node
\* the walk is at has bits.
Stacked(t, S, w) ==
    /\ w \in Marks(S)
    /\ IF w.at = Null THEN w.pos = 0 ELSE w.pos <= t.node[w.at].len
    /\ \A i \in 0..(w.pos - 1) : /\ w.slot[i] \in S /\ w.slot[i] # w.at
                                 /\ i < t.node[w.slot[i]].len
    /\ \A i, j \in 0..(w.pos - 1) : w.slot[i] = w.slot[j] => i = j

\* The list with the node visited, if it is plain.
Noted(t, w) == IF t.node[w.at].glue THEN w.out ELSE Append(w.out, w.at)

\* One step of the iterator, and its walk as the recursion it is.
Visits(t, w) ==
    LET v == IF t.node[w.at].glue THEN w ELSE [w EXCEPT !.out = Append(@, w.at)]
    IN  IF HasChild(t, w.at) THEN Into(t, v) ELSE Popped(v)

VisitsOn(t, f) ==
    f = [i \in 0..(3 * Cardinality(Nodes)) |->
            IF i = 0 THEN Walk(t.head)
            ELSE LET w == f[i - 1]
                 IN  IF Ended(w) THEN w ELSE Visits(t, w)]

\* What a step may lead to: down to one child, to the left of two, back up, or to the end.
Goes(t, w, v) ==
    LET left == t.node[w.at].child[0]
        right == t.node[w.at].child[1]
    IN  \/ /\ left # Null /\ right # Null
           /\ v.at = left /\ v.pos = w.pos + 1 /\ v.slot = [w.slot EXCEPT ![w.pos] = right]
        \/ /\ left # Null /\ right = Null
           /\ v.at = left /\ v.pos = w.pos /\ v.slot = w.slot
        \/ /\ left = Null /\ right # Null
           /\ v.at = right /\ v.pos = w.pos /\ v.slot = w.slot
        \/ /\ left = Null /\ right = Null /\ w.pos = 0
           /\ v.at = Null /\ v.pos = 0 /\ v.slot = w.slot
        \/ /\ left = Null /\ right = Null /\ w.pos # 0
           /\ v.at = w.slot[w.pos - 1] /\ v.pos = w.pos - 1 /\ v.slot = w.slot

LEMMA GoesOne ==
    ASSUME NEW t, NEW S, NEW w \in Marks(S), w.at # Null
    PROVE  LET v == Visits(t, w)
           IN  /\ v = [at |-> v.at, pos |-> v.pos, slot |-> v.slot, out |-> v.out]
               /\ v.out = Noted(t, w) /\ Goes(t, w, v)
<1> DEFINE left == t.node[w.at].child[0]
           right == t.node[w.at].child[1]
           o == Noted(t, w)
           u == [at |-> w.at, pos |-> w.pos, slot |-> w.slot, out |-> o]
           v == Visits(t, w)
<1>1. w = [at |-> w.at, pos |-> w.pos, slot |-> w.slot, out |-> w.out]
  BY DEF Marks
<1>2. u = IF t.node[w.at].glue THEN w ELSE [w EXCEPT !.out = Append(@, w.at)]
  BY <1>1 DEF Noted
<1>3. v = IF HasChild(t, w.at) THEN Into(t, u) ELSE Popped(u)
  <2> HIDE DEF u
  <2> QED
    BY <1>2 DEF Visits
<1>4. HasChild(t, w.at) <=> left # Null \/ right # Null
  BY DEF HasChild
<1> HIDE DEF v, o
<1>5. CASE left # Null /\ right # Null
  <2> DEFINE s == [w.slot EXCEPT ![w.pos] = right]
  <2>1. Into(t, u) = [at |-> left, pos |-> w.pos + 1, slot |-> s, out |-> o]
    BY <1>5 DEF Into
  <2> HIDE DEF s
  <2>2. v = [at |-> left, pos |-> w.pos + 1, slot |-> s, out |-> o]
    BY <1>3, <1>4, <1>5, <2>1
  <2> QED
    BY <1>5, <2>2 DEF Goes, s, o, v
<1>6. CASE left # Null /\ right = Null
  <2>1. Into(t, u) = [at |-> left, pos |-> w.pos, slot |-> w.slot, out |-> o]
    BY <1>6 DEF Into
  <2>2. v = [at |-> left, pos |-> w.pos, slot |-> w.slot, out |-> o]
    BY <1>3, <1>4, <1>6, <2>1
  <2> QED
    BY <1>6, <2>2 DEF Goes, o, v
<1>7. CASE left = Null /\ right # Null
  <2>1. Into(t, u) = [at |-> right, pos |-> w.pos, slot |-> w.slot, out |-> o]
    BY <1>7 DEF Into
  <2>2. v = [at |-> right, pos |-> w.pos, slot |-> w.slot, out |-> o]
    BY <1>3, <1>4, <1>7, <2>1
  <2> QED
    BY <1>7, <2>2 DEF Goes, o, v
<1>8. CASE left = Null /\ right = Null /\ w.pos = 0
  <2>1. v = [at |-> Null, pos |-> 0, slot |-> w.slot, out |-> o]
    BY <1>3, <1>4, <1>8 DEF Popped
  <2> QED
    BY <1>8, <2>1 DEF Goes, o, v
<1>9. CASE left = Null /\ right = Null /\ w.pos # 0
  <2>1. v = [at |-> w.slot[w.pos - 1], pos |-> w.pos - 1, slot |-> w.slot, out |-> o]
    BY <1>3, <1>4, <1>9 DEF Popped
  <2> QED
    BY <1>9, <2>1 DEF Goes, o, v
<1> QED
  BY <1>5, <1>6, <1>7, <1>8, <1>9

\* A walk at a node of the tree, with a stack in order.
OnStack(t, S, v, at, pos, slot) ==
    /\ v.at = at /\ v.pos = pos /\ v.slot = slot
    /\ at \in S /\ pos \in Nat /\ slot \in [0..MaxBitLen -> Nodes \cup {Unset}]
    /\ pos <= t.node[at].len
    /\ \A i \in 0..pos - 1 : slot[i] \in S /\ slot[i] # at /\ i < t.node[slot[i]].len
    /\ \A i, j \in 0..pos - 1 : slot[i] = slot[j] => i = j

IsMark(v) ==
    v.out \in Seq(Nodes) /\ v = [at |-> v.at, pos |-> v.pos, slot |-> v.slot, out |-> v.out]

Slots(slot, pos) == {slot[i] : i \in 0..pos - 1}

HasTodo(t, S, v, T) == Stacked(t, S, v) /\ Todo(v) = T

LEMMA StackedIs ==
    ASSUME NEW t, NEW S, Null \notin S, NEW v, IsMark(v),
           NEW at, NEW pos, NEW slot, OnStack(t, S, v, at, pos, slot)
    PROVE  HasTodo(t, S, v, {at} \cup Slots(slot, pos))
<1>1. v \in Marks(S)
  BY DEF Marks, OnStack, IsMark
<1>2. at # Null
  BY DEF OnStack
<1>3. Stacked(t, S, v)
  BY <1>1, <1>2 DEF Stacked, OnStack
<1>4. Null \notin Slots(slot, pos)
  BY DEF OnStack, Slots
<1>5. Todo(v) = {at} \cup Slots(slot, pos)
  BY <1>2, <1>4 DEF Todo, OnStack, Slots
<1> QED
  BY <1>3, <1>5 DEF HasTodo

\* A step keeps the stack in order, and leaves the children of the node to visit.
LEMMA VisitsIs ==
    ASSUME NEW t, NEW S, NEW a, Shape(t.head, t.node, S, a), NEW w, Stacked(t, S, w),
           w.at # Null, Kids(t, w.at) \cap Todo(w) = {}
    PROVE  LET v == Visits(t, w)
           IN  /\ Stacked(t, S, v) /\ v.out = Noted(t, w)
               /\ Todo(v) = (Todo(w) \ {w.at}) \cup Kids(t, w.at)
<1> DEFINE v == Visits(t, w)
           n == w.at
           k == w.pos
           s == w.slot
           left == t.node[n].child[0]
           right == t.node[n].child[1]
<1>1. /\ w \in Marks(S) /\ k \in Nat /\ s \in [0..MaxBitLen -> Nodes \cup {Unset}]
      /\ n \in S /\ w.out \in Seq(Nodes) /\ S \subseteq Nodes /\ n \in Nodes /\ Null \notin S
      /\ t.node \in [Nodes -> PNodes] /\ n # Null
  BY NodesAre DEF Stacked, Marks, Shape
<1>2. /\ k <= t.node[n].len
      /\ \A i \in 0..k - 1 : s[i] \in S /\ s[i] # n /\ i < t.node[s[i]].len
      /\ \A i, j \in 0..k - 1 : s[i] = s[j] => i = j
  BY <1>1 DEF Stacked
<1>3. /\ v = [at |-> v.at, pos |-> v.pos, slot |-> v.slot, out |-> v.out]
      /\ v.out = Noted(t, w) /\ Goes(t, w, v)
  BY <1>1, GoesOne
<1>4. Noted(t, w) \in Seq(Nodes)
  BY <1>1, AppendProperties DEF Noted
<1>5. t.node[n].len \in Nat
  BY <1>1, NodeIs
<1>0. \A c \in Kids(t, n) : IsKid(t, S, n, c)
  BY <1>1, KidsAre, Zenon
<1>6. \A c \in Kids(t, n) : /\ c \in S /\ c # n /\ c # Null
                            /\ t.node[c].len \in Nat /\ t.node[n].len < t.node[c].len
                            /\ \A i \in 0..k - 1 : s[i] # c
  <2>1. \A c \in Kids(t, n) : /\ c \in S /\ c # n /\ c # Null
                              /\ t.node[c].len \in Nat /\ t.node[n].len < t.node[c].len
    BY <1>0 DEF IsKid
  <2>2. \A i \in 0..k - 1 : s[i] \in Todo(w)
    BY <1>1, <1>2 DEF Todo
  <2> QED
    BY <2>1, <2>2
<1>7. Kids(t, n) = {left, right} \ {Null}
  BY DEF Kids
<1>8. left # Null /\ right # Null => left # right
  <2> SUFFICES ASSUME left # Null, right # Null, left = right PROVE FALSE
    OBVIOUS
  <2>1. Bit(a[left], t.node[n].len) = 0 /\ Bit(a[right], t.node[n].len) = 1
    BY <1>1, ChildIs
  <2> QED
    BY <2>1
<1> DEFINE R == Slots(s, k)
<1>9. Todo(w) \ {n} = R
  BY <1>1, <1>2 DEF Todo, Slots
<1>10. MaxBitLen \in Nat /\ \A m \in S : t.node[m].len <= MaxBitLen
  BY TrieAssumption DEF Shape, Named
<1>11. IsMark(v) /\ Null \notin S
  BY <1>1, <1>3, <1>4 DEF IsMark
<1> DEFINE Done == Stacked(t, S, v) /\ Todo(v) = R \cup Kids(t, n)
<1> SUFFICES Done
  BY <1>3, <1>9
<1> HIDE DEF v, n, k, s, left, right
<1>12. CASE left # Null /\ right # Null
  <2> DEFINE g == [s EXCEPT ![k] = right]
  <2>1. v.at = left /\ v.pos = k + 1 /\ v.slot = g
    BY <1>3, <1>12 DEF Goes, left, right, k, s, n
  <2>2. left \in Kids(t, n) /\ right \in Kids(t, n) /\ left # right
    BY <1>7, <1>8, <1>12
  <2>3. k \in 0..MaxBitLen /\ k <= t.node[n].len
    <3>1. t.node[n].len <= MaxBitLen
      BY <1>1, <1>10
    <3> QED
      BY <1>1, <1>2, <1>5, <1>10, <3>1
  <2>4. \A i \in 0..k - 1 : i \in 0..MaxBitLen /\ i # k
    BY <1>1, <1>10, <2>3
  <2>5. /\ g \in [0..MaxBitLen -> Nodes \cup {Unset}] /\ g[k] = right
        /\ \A i \in 0..k - 1 : g[i] = s[i]
    BY <1>1, <1>6, <2>2, <2>3, <2>4
  <2> HIDE DEF g
  <2>6. \A i \in 0..k : i \in 0..k - 1 \/ i = k
    BY <1>1
  <2>7. (k + 1) - 1 = k /\ k + 1 \in Nat /\ k \in 0..k /\ \A i \in 0..k - 1 : i \in 0..k
    BY <1>1
  <2>8. k + 1 <= t.node[left].len
    BY <1>1, <1>5, <1>6, <2>2, <2>3
  <2>9. \A i \in 0..k : g[i] \in S /\ g[i] # left /\ i < t.node[g[i]].len
    <3>1. \A i \in 0..k - 1 : g[i] \in S /\ g[i] # left /\ i < t.node[g[i]].len
      BY <1>2, <1>6, <2>2, <2>5
    <3>2. g[k] \in S /\ g[k] # left /\ k < t.node[g[k]].len
      BY <1>1, <1>5, <1>6, <2>2, <2>3, <2>5
    <3> QED
      BY <2>6, <3>1, <3>2
  <2>10. \A i, j \in 0..k : g[i] = g[j] => i = j
    <3>1. \A i \in 0..k - 1 : g[i] # right
      BY <1>6, <2>2, <2>5
    <3>2. \A i, j \in 0..k - 1 : g[i] = g[j] => i = j
      BY <1>2, <2>5
    <3> QED
      BY <2>5, <2>6, <3>1, <3>2
  <2>11. OnStack(t, S, v, left, k + 1, g)
    BY <1>1, <1>6, <2>1, <2>2, <2>5, <2>7, <2>8, <2>9, <2>10 DEF OnStack
  <2> DEFINE Q == Slots(g, k + 1)
  <2>12. Q = R \cup {right}
    BY <2>5, <2>6, <2>7 DEF Slots
  <2>13. Kids(t, n) = {left, right}
    BY <1>7, <1>12
  <2> HIDE DEF Q, R
  <2>14. HasTodo(t, S, v, {left} \cup Q)
    BY <1>11, <2>11, StackedIs, Zenon DEF Q
  <2> QED
    BY <2>12, <2>13, <2>14 DEF HasTodo
<1>13. ASSUME NEW c \in Kids(t, n), v.at = c, v.pos = k, v.slot = s, Kids(t, n) = {c} PROVE Done
  <2>1. c \in S /\ k <= t.node[c].len
    BY <1>1, <1>2, <1>5, <1>6
  <2>2. \A i \in 0..k - 1 : s[i] \in S /\ s[i] # c /\ i < t.node[s[i]].len
    BY <1>2, <1>6
  <2>3. OnStack(t, S, v, c, k, s)
    BY <1>1, <1>2, <1>13, <2>1, <2>2 DEF OnStack
  <2> HIDE DEF R
  <2>4. HasTodo(t, S, v, {c} \cup R)
    BY <1>11, <2>3, StackedIs, Zenon DEF R
  <2> QED
    BY <1>13, <2>4 DEF HasTodo
<1>14. CASE left # Null /\ right = Null
  <2>1. v.at = left /\ v.pos = k /\ v.slot = s
    BY <1>3, <1>14 DEF Goes, left, right, k, s, n
  <2>2. left \in Kids(t, n) /\ Kids(t, n) = {left}
    BY <1>7, <1>14
  <2> HIDE DEF Done
  <2> QED
    BY <1>13, <2>1, <2>2
<1>15. CASE left = Null /\ right # Null
  <2>1. v.at = right /\ v.pos = k /\ v.slot = s
    BY <1>3, <1>15 DEF Goes, left, right, k, s, n
  <2>2. right \in Kids(t, n) /\ Kids(t, n) = {right}
    BY <1>7, <1>15
  <2> HIDE DEF Done
  <2> QED
    BY <1>13, <2>1, <2>2
<1>16. CASE left = Null /\ right = Null /\ k = 0
  <2>1. v.at = Null /\ v.pos = 0 /\ v.slot = s
    BY <1>3, <1>16 DEF Goes, left, right, k, s, n
  <2>2. v \in Marks(S)
    BY <1>1, <1>3, <1>4, <2>1 DEF Marks
  <2>3. 0..(0 - 1) = {}
    OBVIOUS
  <2>4. Stacked(t, S, v)
    BY <2>1, <2>2, <2>3 DEF Stacked
  <2>5. Todo(v) = {}
    BY <2>1, <2>3 DEF Todo
  <2>6. Kids(t, n) = {}
    BY <1>7, <1>16
  <2>7. R = {}
    <3>1. 0..k - 1 = {}
      BY <1>16
    <3> QED
      BY <3>1 DEF Slots
  <2> HIDE DEF R
  <2> QED
    BY <2>4, <2>5, <2>6, <2>7
<1>17. CASE left = Null /\ right = Null /\ k # 0
  <2> DEFINE m == s[k - 1]
  <2>1. v.at = m /\ v.pos = k - 1 /\ v.slot = s
    BY <1>3, <1>17 DEF Goes, left, right, k, s, n
  <2>2. k - 1 \in 0..k - 1 /\ k - 1 \in Nat
    BY <1>1, <1>17
  <2>3. m \in S /\ k - 1 < t.node[m].len /\ t.node[m].len \in Nat
    BY <1>1, <1>2, <2>2, NodeIs
  <2>4. \A i \in 0..(k - 1) - 1 : i \in 0..k - 1 /\ i # k - 1
    BY <1>1, <1>17
  <2>5. \A i \in 0..(k - 1) - 1 : s[i] \in S /\ s[i] # m /\ i < t.node[s[i]].len
    BY <1>2, <2>2, <2>4
  <2>6. \A i, j \in 0..(k - 1) - 1 : s[i] = s[j] => i = j
    BY <1>2, <2>4
  <2>7. k - 1 <= t.node[m].len
    BY <2>2, <2>3
  <2> HIDE DEF m
  <2>8. OnStack(t, S, v, m, k - 1, s)
    BY <1>1, <2>1, <2>2, <2>3, <2>5, <2>6, <2>7 DEF OnStack
  <2> DEFINE Q == Slots(s, k - 1)
  <2>9. {m} \cup Q = R
    <3>1. \A i \in 0..k - 1 : i \in 0..(k - 1) - 1 \/ i = k - 1
      BY <1>1
    <3> QED
      BY <2>2, <2>4, <3>1 DEF m, Slots
  <2>10. Kids(t, n) = {}
    BY <1>7, <1>17
  <2> HIDE DEF Q, R
  <2>11. HasTodo(t, S, v, {m} \cup Q)
    BY <1>11, <2>8, StackedIs, Zenon DEF Q
  <2> QED
    BY <2>9, <2>10, <2>11 DEF HasTodo
<1> HIDE DEF Done
<1> QED
  BY <1>12, <1>14, <1>15, <1>16, <1>17

\* A list of the nodes P, each once.
OnceEach(s, P) ==
    /\ s \in Seq(Nodes)
    /\ {s[i] : i \in 1..Len(s)} = P
    /\ \A i, j \in 1..Len(s) : s[i] = s[j] => i = j

\* It stays one when another node comes last.
LEMMA OnceMore ==
    ASSUME NEW s, NEW P, OnceEach(s, P), NEW n \in Nodes, n \notin P
    PROVE  OnceEach(Append(s, n), P \cup {n})
<1> DEFINE u == Append(s, n)
           k == Len(s)
<1>1. s \in Seq(Nodes) /\ k \in Nat
  BY LenProperties DEF OnceEach
<1>2. u \in Seq(Nodes) /\ Len(u) = k + 1 /\ (\A i \in 1..k : u[i] = s[i]) /\ u[k + 1] = n
  BY <1>1, AppendProperties
<1> HIDE DEF u
<1>3. (\A i \in 1..k : s[i] \in P) /\ \A x \in P : \E i \in 1..k : s[i] = x
  BY DEF OnceEach
<1>4. /\ \A i \in 1..(k + 1) : i \in 1..k \/ i = k + 1
      /\ k + 1 \in 1..(k + 1) /\ \A i \in 1..k : i \in 1..(k + 1)
  BY <1>1
<1>5. {u[i] : i \in 1..Len(u)} = P \cup {n}
  <2>1. \A x \in P \cup {n} : \E i \in 1..(k + 1) : u[i] = x
    BY <1>2, <1>3, <1>4
  <2>2. \A i \in 1..(k + 1) : u[i] \in P \cup {n}
    BY <1>2, <1>3, <1>4
  <2> QED
    BY <1>2, <2>1, <2>2
<1>6. ASSUME NEW i \in 1..Len(u), NEW j \in 1..Len(u), u[i] = u[j] PROVE i = j
  <2>1. (i \in 1..k \/ i = k + 1) /\ (j \in 1..k \/ j = k + 1)
    BY <1>2, <1>4
  <2>2. \A h \in 1..k : u[h] # n
    BY <1>2, <1>3
  <2>3. CASE i \in 1..k /\ j \in 1..k
    BY <1>2, <1>6, <2>3 DEF OnceEach
  <2> QED
    BY <1>2, <1>6, <2>1, <2>2, <2>3
<1> QED
  BY <1>2, <1>5, <1>6 DEF OnceEach, u

\* The iterator has visited M: it has listed the plain nodes of M, and has the rest
\* of the tree before it.
Walking(t, S, w, M) ==
    Stacked(t, S, w) /\ Frontier(t, S, M, Todo(w)) /\ OnceEach(w.out, Plains(t, M))

\* Every step visits a node more.
LEMMA WalkingOn ==
    ASSUME NEW t, NEW S, NEW a, Shape(t.head, t.node, S, a), NEW w, NEW M,
           Walking(t, S, w, M), w.at # Null
    PROVE  Walking(t, S, Visits(t, w), M \cup {w.at}) /\ w.at \in S /\ w.at \notin M
<1> DEFINE n == w.at
           v == Visits(t, w)
           T == Todo(w)
<1>1. Stacked(t, S, w) /\ Frontier(t, S, M, T) /\ OnceEach(w.out, Plains(t, M))
  BY DEF Walking
<1>2. n \in T
  BY DEF Todo
<1>3. n \in S /\ n \in Nodes /\ n \notin M
  BY <1>1, <1>2 DEF Frontier, Shape
<1> HIDE DEF T
<1>4. /\ Kids(t, n) \cap (M \cup T) = {}
      /\ Frontier(t, S, M \cup {n}, (T \ {n}) \cup Kids(t, n))
  BY <1>1, <1>2, FrontierOn
<1>5. Kids(t, n) \cap Todo(w) = {}
  BY <1>4 DEF T
<1>6. Stacked(t, S, v) /\ v.out = Noted(t, w) /\ Todo(v) = (T \ {n}) \cup Kids(t, n)
  BY <1>1, <1>5, VisitsIs DEF T
<1> HIDE DEF v
<1>7. OnceEach(v.out, Plains(t, M \cup {n}))
  <2>1. CASE t.node[n].glue
    <3>1. Plains(t, M \cup {n}) = Plains(t, M)
      BY <2>1 DEF Plains
    <3> QED
      BY <1>1, <1>6, <2>1, <3>1 DEF Noted
  <2>2. CASE ~t.node[n].glue
    <3>1. Plains(t, M \cup {n}) = Plains(t, M) \cup {n} /\ n \notin Plains(t, M)
      BY <1>3, <2>2 DEF Plains
    <3>2. v.out = Append(w.out, n)
      BY <1>6, <2>2 DEF Noted
    <3> HIDE DEF n
    <3>3. OnceEach(Append(w.out, n), Plains(t, M) \cup {n})
      BY <1>1, <1>3, <3>1, OnceMore
    <3> QED
      BY <3>1, <3>2, <3>3
  <2> QED
    BY <2>1, <2>2
<1>8. Frontier(t, S, M \cup {n}, Todo(v))
  BY <1>4, <1>6
<1> QED
  BY <1>3, <1>6, <1>7, <1>8 DEF Walking, v

\* At the end it has been everywhere.
LEMMA WalkingEnds ==
    ASSUME NEW t, NEW S, NEW a, Shape(t.head, t.node, S, a), NEW w, NEW M,
           Walking(t, S, w, M), w.at = Null
    PROVE  M = S
<1>1. Stacked(t, S, w) /\ Frontier(t, S, M, Todo(w))
  BY DEF Walking
<1>2. Todo(w) = {}
  <2>1. w.pos = 0 /\ 0..(0 - 1) = {}
    BY <1>1 DEF Stacked
  <2> QED
    BY <2>1 DEF Todo
<1>3. /\ M \subseteq S
      /\ t.head # Null => t.head \in M
      /\ \A n \in M : Kids(t, n) \subseteq M
  BY <1>1, <1>2 DEF Frontier
<1>4. S \subseteq Nodes /\ t.node \in [Nodes -> PNodes] /\ (t.head = Null => S = {})
  BY DEF Shape
<1> SUFFICES ASSUME S \ M # {} PROVE FALSE
  BY <1>3
<1> DEFINE L == {t.node[n].len : n \in S \ M}
<1>5. \A n \in S : t.node[n].len \in Nat
  BY <1>4, NodeIs
<1>6. L \in SUBSET Nat /\ L # {}
  BY <1>5
<1> HIDE DEF L
<1>7. Min(L) \in L /\ \A x \in L : Min(L) <= x
  BY <1>6, MinIsLeast
<1>8. PICK n \in S \ M : t.node[n].len = Min(L)
  BY <1>7 DEF L
<1>9. \A m \in S \ M : t.node[n].len <= t.node[m].len
  BY <1>7, <1>8 DEF L
<1>10. n # t.head
  <2>1. n \in S /\ n \notin M
    OBVIOUS
  <2>2. t.head # Null
    BY <1>4, <2>1
  <2> QED
    BY <1>3, <2>1, <2>2
<1> DEFINE q == t.node[n].parent
           b == Bit(a[n], t.node[q].len)
<1>11. q \in S /\ q # Null /\ t.node[q].len < t.node[n].len /\ b \in {0, 1} /\ t.node[q].child[b] = n
  BY <1>10, ParentIs
<1>12. n # Null
  BY <1>4, NodesAre
<1> HIDE DEF q, b
<1>13. n \in Kids(t, q)
  BY <1>11, <1>12 DEF Kids
<1>14. q \in M
  BY <1>5, <1>9, <1>11
<1> QED
  BY <1>3, <1>13, <1>14

\* The iterator lists the plain nodes of the tree, each once.
LEMMA IteratedIs ==
    ASSUME NEW t, NEW S, NEW a, Shape(t.head, t.node, S, a)
    PROVE  OnceEach(Iterated(t), Plains(t, S))
<1> DEFINE k == 3 * N
           x0 == Walk(t.head)
           X == {w \in Marks(S) : \E M \in SUBSET S : Walking(t, S, w, M)}
           step == [w \in X |-> IF w.at = Null THEN w ELSE Visits(t, w)]
<1>0. k \in Nat /\ N \in Nat /\ N <= k
  BY NodesAre
<1>1. x0 \in Marks(S) /\ Walking(t, S, x0, {})
  <2>1. x0.at = t.head /\ x0.pos = 0 /\ x0.out = <<>> /\ 0..(0 - 1) = {}
    BY DEF Walk
  <2>2. /\ t.head \in S \cup {Null} /\ (t.head = Null => S = {})
        /\ S \subseteq Nodes /\ t.node \in [Nodes -> PNodes]
    BY DEF Shape
  <2>3. x0 \in Marks(S)
    BY <2>2, EmptySeq DEF Walk, Marks, Unset
  <2>4. \A n \in S : t.node[n].len \in Nat
    BY <2>2, NodeIs
  <2> HIDE DEF x0
  <2>5. Stacked(t, S, x0)
    BY <2>1, <2>2, <2>3, <2>4 DEF Stacked
  <2>6. Todo(x0) = {t.head} \ {Null}
    BY <2>1 DEF Todo
  <2>7. Frontier(t, S, {}, Todo(x0))
    BY <2>2, <2>6 DEF Frontier
  <2>8. OnceEach(x0.out, Plains(t, {}))
    <3>1. Len(<<>>) = 0 /\ 1..0 = {} /\ <<>> \in Seq(Nodes)
      BY EmptySeq
    <3>2. Plains(t, {}) = {}
      BY DEF Plains
    <3>3. {x0.out[i] : i \in 1..Len(x0.out)} = {}
      BY <2>1, <3>1
    <3> QED
      BY <2>1, <3>1, <3>2, <3>3 DEF OnceEach
  <2> QED
    BY <2>3, <2>5, <2>7, <2>8 DEF Walking
<1>2. ASSUME NEW w, NEW M, Walking(t, S, w, M), w.at # Null
      PROVE  Walking(t, S, Visits(t, w), M \cup {w.at}) /\ w.at \in S /\ w.at \notin M
  BY <1>2, WalkingOn
<1>3. \A w \in X : w.at # Null => Visits(t, w) \in X
  <2> SUFFICES ASSUME NEW w \in X, w.at # Null PROVE Visits(t, w) \in X
    OBVIOUS
  <2>1. PICK M \in SUBSET S : Walking(t, S, w, M)
    OBVIOUS
  <2>2. Walking(t, S, Visits(t, w), M \cup {w.at}) /\ w.at \in S
    BY <1>2, <2>1
  <2>3. M \cup {w.at} \in SUBSET S
    BY <2>2
  <2>4. Visits(t, w) \in Marks(S)
    BY <2>2 DEF Walking, Stacked
  <2> QED
    BY <2>2, <2>3, <2>4
<1>4. \A w \in X : Ended(w) <=> w.at = Null
  BY NodesAre DEF Ended, Marks, Shape, Unset, Null
<1>5. x0 \in X
  BY <1>1
<1>6. step \in [X -> X]
  BY <1>3
<1>7. \A w \in X : step[w] = IF Ended(w) THEN w ELSE Visits(t, w)
  BY <1>4
<1> HIDE DEF step, X, x0, k
<1>8. PICK f : Runs(f, k, X, x0, step)
  BY <1>0, <1>5, <1>6, Iterates, Zenon
<1>9. f \in [0..k -> X] /\ f = [i \in 0..k |-> IF i = 0 THEN x0 ELSE step[f[i - 1]]]
  BY <1>8 DEF Runs
<1>10. \A i \in 0..k : i # 0 => f[i - 1] \in X
  <2>1. \A i \in 0..k : i # 0 => i - 1 \in 0..k
    BY <1>0
  <2> QED
    BY <1>9, <2>1
<1>11. \A i \in 0..k : i # 0 =>
         step[f[i - 1]] = IF Ended(f[i - 1]) THEN f[i - 1] ELSE Visits(t, f[i - 1])
  BY <1>7, <1>10
<1>12. f = [i \in 0..k |-> IF i = 0 THEN x0
                           ELSE IF Ended(f[i - 1]) THEN f[i - 1] ELSE Visits(t, f[i - 1])]
  BY <1>9, <1>11
<1>13. VisitsOn(t, f)
  BY <1>12 DEF VisitsOn, k, N, x0
<1> DEFINE g == CHOOSE g : VisitsOn(t, g)
<1>14. VisitsOn(t, g)
  BY <1>13
<1>15. Iterated(t) = g[k].out
  BY Zenon DEF Iterated, Walked, VisitsOn, Visits, k, N
<1> HIDE DEF g
<1>16. g = [i \in 0..k |-> IF i = 0 THEN x0
                           ELSE IF Ended(g[i - 1]) THEN g[i - 1] ELSE Visits(t, g[i - 1])]
  BY <1>14 DEF VisitsOn, k, N, x0
<1>17. \A i \in 0..k : g[i] = IF i = 0 THEN x0
                              ELSE IF Ended(g[i - 1]) THEN g[i - 1] ELSE Visits(t, g[i - 1])
  BY <1>16, Zenon
<1>18. \A i \in 0..k - 1 : g[i + 1] = IF Ended(g[i]) THEN g[i] ELSE Visits(t, g[i])
  <2>1. \A i \in 0..k - 1 : i + 1 \in 0..k /\ i + 1 # 0 /\ (i + 1) - 1 = i
    BY <1>0
  <2> QED
    BY <1>17, <2>1
<1>19. g[0] = x0 /\ 0 \in 0..k /\ k \in 0..k
  BY <1>0, <1>17
<1> DEFINE At(i, M) == Walking(t, S, g[i], M) /\ (g[i].at # Null => Cardinality(M) = i)
           H == {i \in 0..k : \E M \in SUBSET S : At(i, M)}
<1>20. S \in SUBSET Nodes
  BY DEF Shape
<1>21. ASSUME NEW M \in SUBSET S
       PROVE  IsFiniteSet(M) /\ Cardinality(M) \in Nat /\ Cardinality(M) <= N
  BY <1>20, NodesAre, FS_Subset, FS_CardinalityType DEF N
<1>22. 0 \in H
  <2>1. Cardinality({}) = 0 /\ {} \in SUBSET S
    BY FS_EmptySet
  <2> QED
    BY <1>1, <1>19, <2>1
<1>23. ASSUME NEW i \in 0..k - 1, i \in H PROVE i + 1 \in H
  <2>0. i \in 0..k /\ i + 1 \in 0..k
    BY <1>0
  <2>1. PICK M \in SUBSET S : At(i, M)
    BY <1>23
  <2>2. g[i] \in X /\ (Ended(g[i]) <=> g[i].at = Null)
    BY <1>4, <2>1 DEF X, Walking, Stacked
  <2>3. CASE g[i].at = Null
    <3>1. g[i + 1] = g[i]
      BY <1>18, <2>2, <2>3
    <3>2. At(i + 1, M)
      BY <2>1, <2>3, <3>1
    <3> HIDE DEF At
    <3> QED
      BY <2>0, <3>2
  <2>4. CASE g[i].at # Null
    <3> DEFINE M2 == M \cup {g[i].at}
    <3>1. g[i + 1] = Visits(t, g[i])
      BY <1>18, <2>2, <2>4
    <3>2. Walking(t, S, g[i + 1], M2) /\ g[i].at \in S /\ g[i].at \notin M
      BY <1>2, <2>1, <2>4, <3>1
    <3>3. Cardinality(M2) = i + 1
      <4>1. Cardinality(M) = i /\ IsFiniteSet(M)
        BY <1>21, <2>1, <2>4
      <4> QED
        BY <3>2, <4>1, FS_AddElement
    <3>4. M2 \in SUBSET S
      BY <3>2
    <3>5. At(i + 1, M2)
      BY <3>2, <3>3
    <3> HIDE DEF At, M2
    <3> QED
      BY <2>0, <3>4, <3>5
  <2> QED
    BY <2>3, <2>4
<1>24. k \in H
  <2> HIDE DEF H
  <2>1. \A i \in 0..k : i \in H
    BY <1>0, <1>22, <1>23, UpTo
  <2> QED
    BY <1>19, <2>1
<1>25. PICK M \in SUBSET S : At(k, M)
  BY <1>24
<1>26. g[k].at = Null
  <2> SUFFICES ASSUME g[k].at # Null PROVE FALSE
    OBVIOUS
  <2>1. g[k].at \in S /\ g[k].at \notin M /\ Cardinality(M) = k
    BY <1>2, <1>25
  <2>2. Cardinality(M \cup {g[k].at}) = k + 1
    BY <1>21, <2>1, FS_AddElement
  <2>3. Cardinality(M \cup {g[k].at}) <= N
    BY <1>21, <2>1
  <2> QED
    BY <1>0, <2>2, <2>3
<1>27. M = S
  BY <1>25, <1>26, WalkingEnds
<1> QED
  BY <1>15, <1>25, <1>27 DEF Walking

\* A list of plain nodes, each once, is a list of their prefixes.
LEMMA OnceIs ==
    ASSUME NEW S, NEW a, Shape(trie.head, trie.node, S, a), NEW s, OnceEach(s, Plains(trie, S))
    PROVE  IsListOf(s, Stored(trie))
<1> DEFINE k == Len(s)
           f == Addrs(s)
           Q == Stored(trie)
           P == Plains(trie, S)
<1>1. s \in Seq(Nodes) /\ k \in Nat /\ DOMAIN s = 1..k
  BY LenProperties DEF OnceEach
<1>2. /\ \A i \in 1..k : s[i] \in P
      /\ \A n \in P : \E i \in 1..k : s[i] = n
      /\ \A i, j \in 1..k : s[i] = s[j] => i = j
  BY DEF OnceEach
<1>3. s # Undefined
  <2> SUFFICES ASSUME s = <<Unset>> PROVE FALSE
    BY DEF Undefined
  <2>1. s[1] = Unset /\ 1 \in 1..k
    BY <1>1
  <2>2. Unset \in Nodes
    BY <1>1, <2>1, ElementOfSeq
  <2> QED
    BY <2>2, NodesAre DEF Unset
<1>4. f = [i \in 1..k |-> trie.node[s[i]].addr]
  BY <1>1 DEF Addrs
<1>5. \A n \in P : n \in S /\ trie.node[n].addr = a[n]
  BY DEF Plains, Shape, Named
<1>6. \A m, n \in P : a[m] = a[n] => m = n
  BY <1>5, BitsTellApart
<1>7. \A x : x \in Q <=> \E n \in P : a[n] = x
  BY StoredAre
<1> HIDE DEF P, Q, k
<1>8. \A i \in 1..k : f[i] = a[s[i]]
  BY <1>2, <1>4, <1>5
<1> HIDE DEF f
<1>9. \A x \in Q : \E i \in 1..k : f[i] = x
  BY <1>2, <1>7, <1>8
<1>10. f \in [1..k -> Q]
  <2>1. \A i \in 1..k : f[i] \in Q
    BY <1>2, <1>7, <1>8
  <2>2. f = [i \in 1..k |-> f[i]]
    BY <1>4
  <2> QED
    BY <2>1, <2>2
<1>11. \A i, j \in 1..k : f[i] = f[j] => i = j
  BY <1>2, <1>6, <1>8
<1>12. ExistsBijection(1..k, Q)
  <2>1. f \in Bijection(1..k, Q)
    BY <1>9, <1>10, <1>11 DEF Bijection, Injection, Surjection, IsInjective
  <2> QED
    BY <2>1 DEF ExistsBijection
<1>13. Cardinality(Q) = k
  BY <1>1, <1>12, FS_CountingElements
<1>14. {f[i] : i \in 1..k} = Q
  BY <1>9, <1>10
<1> QED
  BY <1>1, <1>3, <1>13, <1>14 DEF IsListOf, k, f, Q

\* The iterator returns every prefix once.
LEMMA IteratesAll ==
    ASSUME NEW S, NEW a, Sound(trie, S, a)
    PROVE  IteratorIsRight
<1>1. OnceEach(Iterated(trie), Plains(trie, S))
  BY IteratedIs DEF Sound
<1> QED
  BY <1>1, OnceIs DEF IteratorIsRight, Sound

-----------------------------------------------------------------------------
(* The invariant *)

\* The free list of a cleared trie: the nodes of its pages, page after page.
AllFree(k) == [i \in 1..(k * PageSize) |->
                  PageNodes((i - 1) \div PageSize)[((i - 1) % PageSize) + 1]]

\* It has every node of every page once.
LEMMA AllFreeIs ==
    ASSUME NEW k \in Nat, k <= MaxPages
    PROVE  AllFree(k) \in Seq(Nodes) /\ Ledger(AllFree(k), k, {})
<1> DEFINE P == PageSize
           q(i) == (i - 1) \div P
           r(i) == (i - 1) % P
           f == AllFree(k)
           z == k * P
<1>1. P \in Nat \ {0} /\ MaxPages \in Nat
  BY TrieAssumption
<1>2. z \in Nat
  BY <1>1, Times
<1>3. \A i \in 1..z : f[i] = PageNodes(q(i))[r(i) + 1]
  BY DEF AllFree
<1> HIDE DEF f, P, z
<1>4. ASSUME NEW i \in 1..z
      PROVE  /\ q(i) \in Nat /\ r(i) \in 0..(P - 1) /\ i - 1 = q(i) * P + r(i) /\ q(i) < k
             /\ f[i] = q(i) * P + (P - (r(i) + 1)) + 1
             /\ f[i] \in Nodes /\ f[i] <= z
  <2>1. i - 1 \in Nat /\ i - 1 < z
    BY <1>2
  <2>2. i - 1 = P * q(i) + r(i) /\ r(i) \in 0..(P - 1) /\ q(i) \in Nat
    BY <1>1, <2>1, Divided
  <2> DEFINE x == q(i)
             y == r(i)
  <2>2a. f[i] = PageNodes(x)[y + 1]
    BY <1>3
  <2>2b. i - 1 = P * x + y /\ y \in 0..(P - 1) /\ x \in Nat
    BY <2>2
  <2> HIDE DEF q, r, x, y
  <2>3. P * x = x * P /\ x * P \in Nat
    BY <1>1, <2>2b, Times
  <2>4. i - 1 = x * P + y
    BY <2>2b, <2>3
  <2>5. x < k
    <3> SUFFICES ASSUME k <= x PROVE FALSE
      BY <2>2b
    <3>1. z <= x * P
      BY <1>1, <2>2b, Times DEF z
    <3> QED
      BY <1>1, <1>2, <2>1, <2>2b, <2>3, <2>4, <3>1
  <2>6. (x + 1) * P <= z
    <3>1. x + 1 <= k /\ x + 1 \in Nat
      BY <2>2b, <2>5
    <3> QED
      BY <1>1, <3>1, Times DEF z
  <2>7. /\ PageNodes(x) \in Seq(Nodes) /\ Len(PageNodes(x)) = P
        /\ \A j \in 1..P : PageNodes(x)[j] <= (x + 1) * P /\ PageNodes(x)[j] = x * P + (P - j) + 1
    <3>1. x < MaxPages
      BY <1>1, <2>2b, <2>5
    <3> QED
      BY <2>2b, <3>1, PageIs DEF P
  <2>8. y + 1 \in 1..P
    BY <1>1, <2>2b
  <2>9. f[i] = x * P + (P - (y + 1)) + 1 /\ f[i] <= (x + 1) * P
    BY <2>2a, <2>7, <2>8
  <2>10. f[i] \in Nodes
    BY <2>2a, <2>7, <2>8, ElementOfSeq
  <2>11. (x + 1) * P \in Nat /\ f[i] \in Nat
    <3>1. x + 1 \in Nat
      BY <2>2b
    <3> QED
      BY <1>1, <2>10, <3>1, Times, NodesAre
  <2>12. f[i] <= z
    BY <1>2, <2>6, <2>9, <2>11
  <2> QED
    BY <2>2b, <2>4, <2>5, <2>9, <2>10, <2>12 DEF x, y
<1>5. f = [i \in 1..z |-> f[i]]
  BY DEF f, AllFree, z, P
<1> HIDE DEF q, r
<1>6. f \in [1..z -> Nodes]
  BY <1>4, <1>5
<1>7. f \in Seq(Nodes) /\ Len(f) = z
  <2>1. f \in Seq(Nodes)
    BY <1>2, <1>6, SeqDef
  <2> QED
    BY <1>2, <1>6, <2>1, LenProperties
<1>8. ASSUME NEW i \in 1..z, NEW j \in 1..z, f[i] = f[j] PROVE i = j
  <2> DEFINE x == q(i)
             v == q(j)
             y == r(i)
             w == r(j)
  <2>1. /\ x \in Nat /\ y \in 0..(P - 1) /\ i - 1 = x * P + y /\ f[i] = x * P + (P - (y + 1)) + 1
        /\ v \in Nat /\ w \in 0..(P - 1) /\ j - 1 = v * P + w /\ f[j] = v * P + (P - (w + 1)) + 1
    BY <1>4
  <2> HIDE DEF x, v, y, w
  <2>2. x * P \in Nat /\ v * P \in Nat
    BY <1>1, <2>1, Times
  <2>3. P - (y + 1) \in 0..(P - 1) /\ P - (w + 1) \in 0..(P - 1)
    BY <1>1, <2>1
  <2>4. x * P + (P - (y + 1)) = v * P + (P - (w + 1))
    <3> DEFINE g == x * P
               h == v * P
    <3>1. g + (P - (y + 1)) + 1 = h + (P - (w + 1)) + 1
      BY <1>8, <2>1
    <3>2. g \in Nat /\ h \in Nat
      BY <2>2
    <3> HIDE DEF g, h
    <3>3. g + (P - (y + 1)) = h + (P - (w + 1))
      BY <1>1, <2>3, <3>1, <3>2
    <3> QED
      BY <3>3 DEF g, h
  <2>5. x = v /\ P - (y + 1) = P - (w + 1)
    BY <1>1, <2>1, <2>3, <2>4, SameQuotient
  <2>6. y = w
    BY <1>1, <2>1, <2>5
  <2> QED
    BY <2>1, <2>2, <2>5, <2>6
<1>9. Ledger(f, k, {})
  BY <1>4, <1>7, <1>8 DEF Ledger, z, P
<1> QED
  BY <1>7, <1>9 DEF f

\* A trie without nodes is sound.
LEMMA BareIs ==
    ASSUME NEW t \in Tries, t.head = Null, Ledger(t.free, t.pages, {})
    PROVE  /\ \A a : Sound(t, {}, a)
           /\ Stored(t) = {}
<1>1. \A a : Shape(t.head, t.node, {}, a) /\ Forked(t.node, {})
  BY TrieIs DEF Shape, Forked
<1>2. \A a : Sound(t, {}, a)
  BY <1>1 DEF Sound
<1>3. Stored(t) \subseteq {}
  <2>1. InTree(t) = {}
    BY <1>1, TreeIsInTree
  <2> QED
    BY <2>1 DEF Stored
<1> QED
  BY <1>2, <1>3

\* The trie of the initial state.
LEMMA EmptyIs == Empty \in Tries /\ Empty.head = Null /\ Ledger(Empty.free, Empty.pages, {})
<1>1. 0 \in 0..MaxPages /\ 0 \in 0..(CountMod - 1)
  BY TrieAssumption
<1>2. <<>> \in Seq(Nodes) /\ Len(<<>>) = 0
  BY EmptySeq
<1>3. [n \in Nodes |-> Unused] \in [Nodes -> PNodes]
  BY UnusedIs
<1>4. Empty \in Tries
  BY <1>1, <1>2, <1>3 DEF Empty, Tries
<1>5. Ledger(<<>>, 0, {})
  BY <1>2 DEF Ledger
<1> QED
  BY <1>4, <1>5 DEF Empty

\* Clearing is the step of the set, however many pages there are.
LEMMA Clears ==
    ASSUME trie \in Tries, patclear
    PROVE  Becomes(trie, trie', {}) /\ ret' = "none" /\ trie'.nprefs = 0 /\ lapsed' = FALSE
<1> DEFINE f == AllFree(trie.pages)
<1>1. trie' = [Empty EXCEPT !.pages = trie.pages, !.free = f] /\ ret' = "none"
  BY DEF patclear, Result, AllFree
<1>1a. lapsed' = FALSE
  BY DEF patclear
<1>2. trie.pages \in Nat /\ trie.pages \in 0..MaxPages /\ trie.pages <= MaxPages
  BY TrieIs, TrieAssumption
<1>3. f \in Seq(Nodes) /\ Ledger(f, trie.pages, {})
  BY <1>2, AllFreeIs
<1> HIDE DEF f
<1>4. /\ trie' \in Tries /\ trie'.head = Null /\ trie'.free = f /\ trie'.pages = trie.pages
  <2>1. Empty \in Tries /\ Empty.head = Null
    BY EmptyIs
  <2> QED
    BY <1>1, <1>2, <1>3, <2>1 DEF Tries
<1>5. (\A a : Sound(trie', {}, a)) /\ Stored(trie') = {}
  BY <1>3, <1>4, BareIs
<1>6. trie'.nprefs = 0
  BY <1>1 DEF Empty
<1> QED
  BY <1>1, <1>1a, <1>5, <1>6 DEF Becomes

\* The nodes of the trie are a sound tree of some nodes, for some bits, and the
\* count covers the prefixes.
IInv == (\E S, a : Sound(trie, S, a)) /\ ret \in Answers /\ lapsed \in BOOLEAN /\ CountCovers

\* What the history remembers of an insertion and of a removal.
InsertLapses == lapsed' = (lapsed \/ trie'.nprefs < trie.nprefs)
RemoveLapses == IF ret' = "removed" THEN lapsed' = lapsed ELSE lapsed' = TRUE

\* The steps: each is one of the set of prefixes.
LEMMA StepIs ==
    ASSUME ~InsertsSupernets, ~RemovesForks, IInv, Next
    PROVE  \/ Becomes(trie, trie', {}) /\ ret' = "none" /\ trie'.nprefs = 0 /\ lapsed' = FALSE
           \/ \E p \in Prefixes : (Inserts(trie, trie', ret', p) /\ InsertLapses)
                                 \/ (Removes(trie, trie', ret', p) /\ RemoveLapses)
<1>1. PICK S, a : Sound(trie, S, a)
  BY DEF IInv
<1>2. CASE patclear
  BY <1>1, <1>2, Clears DEF Sound
<1>3. ASSUME NEW p \in Prefixes, patinsertn(p)
      PROVE  Inserts(trie, trie', ret', p) /\ InsertLapses
  <2>1. StrictSubnets(trie, p) = {} /\ InsertLapses
    BY <1>3 DEF patinsertn, MayInsert, InsertLapses
  <2>2. CASE InsertFirst(p)
    BY <1>1, <2>1, <2>2, InsertsFirst
  <2>3. CASE InsertNear(p)
    BY <1>1, <2>1, <2>3, InsertsNear
  <2> QED
    BY <1>3, <2>2, <2>3 DEF patinsertn
<1>4. ASSUME NEW p \in Prefixes, patremoven(p)
      PROVE  Removes(trie, trie', ret', p) /\ RemoveLapses
  <2>1. IF SearchExact(trie, p) = Null THEN ret' = "absent" /\ lapsed' = TRUE
                                       ELSE ret' = "removed" /\ lapsed' = lapsed
    BY <1>4 DEF patremoven, Result
  <2> QED
    BY <1>1, <1>4, <2>1, TakesOut DEF RemoveLapses
<1>5. patclear \/ \E p \in Prefixes : patinsertn(p) \/ patremoven(p)
  BY DEF Next
<1> QED
  BY <1>2, <1>3, <1>4, <1>5

\* There are only so many prefixes stored.
LEMMA StoredIsFinite ==
    ASSUME NEW t, NEW S, NEW a, Sound(t, S, a)
    PROVE  IsFiniteSet(Stored(t))
<1> DEFINE P == {m \in InTree(t) : ~t.node[m].glue}
<1>1. InTree(t) = S /\ S \subseteq Nodes
  BY TreeIsInTree DEF Sound
<1>2. IsFiniteSet(Nodes)
  BY NodesAre
<1>3. P \subseteq Nodes
  BY <1>1
<1>4. IsFiniteSet(P)
  BY <1>2, <1>3, FS_Subset
<1> HIDE DEF P
<1> DEFINE f == [n \in P |-> t.node[n].addr]
           Y == {t.node[n].addr : n \in P}
<1>5. f \in Surjection(P, Y)
  BY DEF Surjection
<1> HIDE DEF f, Y
<1>6. IsFiniteSet(Y)
  BY <1>4, <1>5, FS_Surjection
<1> QED
  BY <1>6 DEF Stored, P, Y

\* A step keeps the count at or above the number of prefixes.
LEMMA StillCovered ==
    ASSUME ~InsertsSupernets, ~RemovesForks, IInv, Next
    PROVE  lapsed' \in BOOLEAN /\ (~lapsed' => Cardinality(Stored(trie')) <= trie'.nprefs)
<1> DEFINE X == Stored(trie)
           Y == Stored(trie')
           k == trie.nprefs
           l == trie'.nprefs
<1>1. k \in 0..(CountMod - 1) /\ CountMod \in Nat \ {0, 1}
  BY TrieIs, TrieAssumption DEF IInv, Sound
<1>2. lapsed \in BOOLEAN /\ (~lapsed => Cardinality(X) <= k)
  BY DEF IInv, CountCovers
<1>3. IsFiniteSet(X) /\ Cardinality(X) \in Nat
  BY StoredIsFinite, FS_CardinalityType DEF IInv
<1>4. \A p : /\ Cardinality(X \cup {p}) \in Nat /\ Cardinality(X \cup {p}) <= Cardinality(X) + 1
             /\ p \in X => Cardinality(X \ {p}) = Cardinality(X) - 1
  <2> HIDE DEF X
  <2> TAKE p
  <2>1. /\ IsFiniteSet(X \cup {p})
        /\ Cardinality(X \cup {p}) = IF p \in X THEN Cardinality(X) ELSE Cardinality(X) + 1
    BY <1>3, FS_AddElement
  <2>2. Cardinality(X \ {p}) = IF p \in X THEN Cardinality(X) - 1 ELSE Cardinality(X)
    BY <1>3, FS_RemoveElement
  <2> QED
    BY <1>3, <2>1, <2>2
<1>5. /\ (k + 1) % CountMod < k \/ (k + 1) % CountMod = k + 1
      /\ k > 0 => (k - 1) % CountMod = k - 1
  <2> HIDE DEF k
  <2>1. CASE k + 1 < CountMod
    BY <1>1, <2>1
  <2>2. CASE k + 1 = CountMod
    <3>1. (k + 1) % CountMod = 0 /\ k > 0
      BY <1>1, <2>2
    <3>2. k > 0 => (k - 1) % CountMod = k - 1
      BY <1>1
    <3> QED
      BY <3>1, <3>2
  <2> QED
    BY <1>1, <2>1, <2>2
<1>6. CASE Becomes(trie, trie', {}) /\ lapsed' = FALSE /\ l = 0
  <2>1. Cardinality(Y) = 0
    BY <1>6, FS_EmptySet DEF Becomes
  <2>2. Cardinality(Y) <= l
    <3> HIDE DEF Y, l
    <3> QED
      BY <1>6, <2>1
  <2> QED
    BY <1>6, <2>2
<1>7. ASSUME NEW p \in Prefixes, Inserts(trie, trie', ret', p), InsertLapses
      PROVE  lapsed' \in BOOLEAN /\ (~lapsed' => Cardinality(Y) <= l)
  <2>1. (Y = X \cup {p} /\ l = (k + 1) % CountMod) \/ (Y = X /\ l \in {k, (k + 1) % CountMod})
    BY <1>7 DEF Inserts, Becomes
  <2>2. lapsed' = (lapsed \/ l < k)
    BY <1>7 DEF InsertLapses
  <2> HIDE DEF X, Y, k, l
  <2>3. lapsed' \in BOOLEAN
    BY <2>2
  <2>4. ASSUME ~lapsed' PROVE Cardinality(Y) <= l
    <3>1. ~lapsed /\ ~(l < k) /\ Cardinality(X) <= k
      BY <1>2, <2>2, <2>4
    <3>2. Cardinality(Y) \in Nat /\ Cardinality(Y) <= Cardinality(X) + 1
      BY <1>3, <1>4, <2>1
    <3>3. CASE l = k + 1
      BY <1>1, <1>3, <3>1, <3>2, <3>3
    <3>4. CASE Y = X /\ l = k
      BY <3>1, <3>4
    <3> QED
      BY <1>5, <2>1, <3>1, <3>3, <3>4
  <2> QED
    BY <2>3, <2>4
<1>8. ASSUME NEW p \in Prefixes, Removes(trie, trie', ret', p), RemoveLapses
      PROVE  lapsed' \in BOOLEAN /\ (~lapsed' => Cardinality(Y) <= l)
  <2>1. CASE ret' = "removed"
    <3>1. p \in X /\ Y = X \ {p} /\ l = (k - 1) % CountMod /\ lapsed' = lapsed
      BY <1>8, <2>1 DEF Removes, Becomes, RemoveLapses
    <3>2. Cardinality(X) > 0
      <4>1. X # {}
        BY <3>1
      <4> HIDE DEF X
      <4> QED
        BY <1>3, <4>1, FS_EmptySet
    <3> HIDE DEF X, Y, k, l
    <3>3. Cardinality(Y) = Cardinality(X) - 1
      BY <1>4, <3>1
    <3>4. ~lapsed => k > 0 /\ l = k - 1
      BY <1>1, <1>2, <1>3, <1>5, <3>1, <3>2
    <3>5. ~lapsed => Cardinality(Y) <= l
      BY <1>1, <1>2, <1>3, <3>3, <3>4
    <3> QED
      BY <1>2, <3>1, <3>5
  <2>2. CASE ret' # "removed"
    BY <1>8, <2>2 DEF RemoveLapses
  <2> QED
    BY <2>1, <2>2
<1> QED
  BY <1>6, <1>7, <1>8, StepIs

\* The invariant survives every step.
LEMMA StepKeeps ==
    ASSUME ~InsertsSupernets, ~RemovesForks, IInv, Next
    PROVE  IInv'
<1>1. (\E S2, a2 : Sound(trie', S2, a2)) /\ ret' \in Answers
  BY StepIs DEF Becomes, Inserts, Removes, Answers
<1>2. lapsed' \in BOOLEAN /\ CountCovers'
  BY StillCovered DEF CountCovers
<1> QED
  BY <1>1, <1>2 DEF IInv

\* The invariant holds, of a client that inserts no prefix after a subnet of it and
\* removes none with subnets on both sides.
THEOREM InvariantHolds ==
    ASSUME ~InsertsSupernets, ~RemovesForks
    PROVE  Spec => []IInv
<1>1. Init => IInv
  <2>1. ASSUME Init PROVE IInv
    <3>1. trie = Empty /\ ret = "none" /\ lapsed = FALSE
      BY <2>1 DEF Init
    <3>2. (\A a : Sound(trie, {}, a)) /\ Stored(trie) = {}
      BY <3>1, EmptyIs, BareIs
    <3>3. Cardinality(Stored(trie)) <= trie.nprefs
      BY <3>1, <3>2, FS_EmptySet DEF Empty
    <3> QED
      BY <3>1, <3>2, <3>3 DEF IInv, Answers, CountCovers
  <2> QED
    BY <2>1
<1>2. IInv /\ [Next]_vars => IInv'
  <2>1. ASSUME IInv, UNCHANGED vars PROVE IInv'
    <3>1. trie' = trie /\ ret' = ret /\ lapsed' = lapsed
      BY <2>1 DEF vars
    <3>2. (\E S, a : Sound(trie', S, a)) /\ ret' \in Answers /\ lapsed' \in BOOLEAN
      BY <2>1, <3>1 DEF IInv
    <3>3. CountCovers'
      BY <2>1, <3>1 DEF IInv, CountCovers, Stored
    <3> QED
      BY <3>2, <3>3 DEF IInv
  <2> QED
    BY <2>1, StepKeeps
<1> QED
  BY <1>1, <1>2, PTL DEF Spec

\* The trie and its nodes, its free list and its counts have their types.
THEOREM TypeCorrect ==
    ASSUME ~InsertsSupernets, ~RemovesForks
    PROVE  Spec => []TypeOK
<1>1. IInv => TypeOK
  BY DEF IInv, TypeOK, Sound, Answers
<1> QED
  BY <1>1, InvariantHolds, PTL

\* The links of the tree agree in both directions, children are longer than their
\* parents, glue has two children, and no node of the tree is free, or free twice:
\* whatever is inserted and removed, and wherever the memory runs out.
THEOREM TreeStaysSound ==
    ASSUME ~InsertsSupernets, ~RemovesForks
    PROVE  Spec => []TreeIsSound
<1>1. IInv => TreeIsSound
  BY SoundIs DEF IInv
<1> QED
  BY <1>1, InvariantHolds, PTL

\* Every prefix that is in the trie is found, in its node.
THEOREM StoredStaysFound ==
    ASSUME ~InsertsSupernets, ~RemovesForks
    PROVE  Spec => []StoredIsFound
<1>1. IInv => StoredIsFound
  BY SoundIs DEF IInv
<1> QED
  BY <1>1, InvariantHolds, PTL

\* The exact search, the best match, the list of the supernets and the questions for
\* a subnet and a supernet answer what the set of prefixes says, of every prefix.
THEOREM SearchesStayRight ==
    ASSUME ~InsertsSupernets, ~RemovesForks
    PROVE  Spec => []SearchesAreRight
<1>1. IInv => SearchesAreRight
  BY AnswersAre DEF IInv
<1> QED
  BY <1>1, InvariantHolds, PTL

\* The iterator returns every prefix of the trie once, and comes to its end.
THEOREM TheIteratorListsAll ==
    ASSUME ~InsertsSupernets, ~RemovesForks
    PROVE  Spec => []IteratorIsRight
<1>1. IInv => IteratorIsRight
  BY IteratesAll DEF IInv
<1> QED
  BY <1>1, InvariantHolds, PTL

\* A prefix that a call leaves in the trie stays in its node: the nodes that
\* clients point to do not move when others leave or glue comes and goes.
THEOREM NodesDoNotMove ==
    ASSUME ~InsertsSupernets, ~RemovesForks
    PROVE  Spec => NodesStay
<1>1. ASSUME IInv, Next
      PROVE  \A p \in Stored(trie) \cap Stored(trie') : SearchExact(trie', p) = SearchExact(trie, p)
  BY <1>1, StepIs DEF Becomes, Inserts, Removes
<1>2. IInv /\ [Next]_vars =>
         [\A p \in Stored(trie) \cap Stored(trie') : SearchExact(trie', p) = SearchExact(trie, p)]_vars
  BY <1>1
<1> QED
  BY <1>2, InvariantHolds, PTL DEF Spec, NodesStay

\* From a clear until a prefix is removed that is absent, the count is at least the
\* number of prefixes stored: repeated insertions and lost nodes only raise it.
THEOREM TheCountCovers ==
    ASSUME ~InsertsSupernets, ~RemovesForks
    PROVE  Spec => []CountCovers
<1>1. IInv => CountCovers
  BY DEF IInv
<1> QED
  BY <1>1, InvariantHolds, PTL

\* The trie is a set of prefixes.
THEOREM IsASetOfPrefixes ==
    ASSUME ~InsertsSupernets, ~RemovesForks
    PROVE  Spec => ImplementsPrefixSet
<1>1. Init => Abstract!Init
  BY EmptyIs, BareIs DEF Init, Abstract!Init
<1>2. ASSUME IInv, Next PROVE Abstract!Next
  <2>1. CASE Becomes(trie, trie', {}) /\ ret' = "none"
    <3>1. Abstract!Clear
      BY <2>1 DEF Becomes, Abstract!Clear
    <3> QED
      BY <3>1 DEF Abstract!Next
  <2>2. ASSUME NEW p \in Prefixes, Inserts(trie, trie', ret', p)
        PROVE  Abstract!Insert(p)
    BY <2>2 DEF Inserts, Becomes, Abstract!Insert
  <2>3. ASSUME NEW p \in Prefixes, Removes(trie, trie', ret', p)
        PROVE  Abstract!Remove(p)
    BY <2>3 DEF Removes, Becomes, Abstract!Remove
  <2> QED
    BY <1>2, <2>1, <2>2, <2>3, StepIs DEF Abstract!Next
<1>3. IInv /\ [Next]_vars => [Abstract!Next]_(Abstract!vars)
  <2>1. ASSUME UNCHANGED vars PROVE UNCHANGED Abstract!vars
    <3>1. trie' = trie /\ ret' = ret
      BY <2>1 DEF vars
    <3>2. Stored(trie)' = Stored(trie)
      BY <3>1 DEF Stored
    <3> QED
      BY <3>1, <3>2 DEF Abstract!vars
  <2> QED
    BY <1>2, <2>1
<1> QED
  BY <1>1, <1>3, InvariantHolds, PTL DEF Spec, ImplementsPrefixSet, Abstract!Spec
=============================================================================
