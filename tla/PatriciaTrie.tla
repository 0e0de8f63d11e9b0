---------------------------- MODULE PatriciaTrie ----------------------------
(***************************************************************************)
(* The Patricia trie of patriciatrie.c: nodes from pages with a free list, *)
(* glue nodes where two prefixes part, insertion, removal, and what the    *)
(* searches, the walks and the iterator read from it.                      *)
(*                                                                         *)
(* A prefix is the sequence of its bits; the bits of its address behind    *)
(* them are 0.  A search is an operator on the state: it changes nothing.  *)
(* A walk that reads a slot of its stack it has not written, or returns an *)
(* array without its end, has the result Undefined.                        *)
(***************************************************************************)
EXTENDS Integers, Sequences, FiniteSetsExt

CONSTANTS MaxBitLen,        \* bits of an address: 32 or 128 in the code
          Prefixes,         \* the prefixes the client uses
          PageSize,         \* nodes in a page
          MaxPages,         \* pages there is memory for
          CountMod,         \* 2^32: the count of prefixes is an unsigned int
          InsertsSupernets, \* whether the client inserts a prefix after a subnet of it
          RemovesForks,     \* whether it removes one that has subnets on both sides
          Repeats           \* whether it inserts one twice or removes one not there

Nodes == 1..(PageSize * MaxPages)
Null == 0
Unset == -1            \* a slot of a stack that was not written
Undefined == <<Unset>>

ASSUME TrieAssumption ==
    /\ MaxBitLen \in Nat \ {0} /\ PageSize \in Nat \ {0} /\ MaxPages \in Nat
    /\ CountMod \in Nat \ {0, 1}
    /\ Prefixes \subseteq UNION {[1..k -> {0, 1}] : k \in 0..MaxBitLen}
    /\ {InsertsSupernets, RemovesForks, Repeats} \subseteq BOOLEAN

-----------------------------------------------------------------------------
VARIABLES trie,   \* patricia_trie_t and its nodes
          ret,    \* what the last call returned
          lapsed  \* history: whether, since the last clear, a prefix that was
                  \* absent was removed or the count came round to 0

vars == <<trie, ret, lapsed>>

PNodes == [addr   : Seq({0, 1}),             \* prefix.bytes
           len    : 0..(MaxBitLen + 1),      \* prefix.bitlen; the last one is any larger
           glue   : BOOLEAN,
           parent : Nodes \cup {Null},
           child  : [{0, 1} -> Nodes \cup {Null}]]

Tries == [head   : Nodes \cup {Null},
          node   : [Nodes -> PNodes],
          free   : Seq(Nodes),               \* freenodes
          pages  : 0..MaxPages,
          nprefs : 0..(CountMod - 1)]

Glue(len) == [addr |-> <<>>, len |-> len, glue |-> TRUE,
              parent |-> Null, child |-> [b \in {0, 1} |-> Null]]
Plain(p) == [Glue(Len(p)) EXCEPT !.addr = p, !.glue = FALSE]

\* What a free node holds is not looked at: pnodeinit clears it.
Unused == Glue(0)

Empty == [head |-> Null, node |-> [n \in Nodes |-> Unused], free |-> <<>>,
          pages |-> 0, nprefs |-> 0]

Bit(p, i) == IF i < Len(p) THEN p[i + 1] ELSE 0

\* patcompwithmask: the first k bits agree.
Match(t, n, p, k) == \A i \in 0..(k - 1) : Bit(t.node[n].addr, i) = Bit(p, i)

Toward(t, n, p) == t.node[n].child[Bit(p, t.node[n].len)]
Side(t, n) == IF t.node[t.node[n].parent].child[1] = n THEN 1 ELSE 0

\* A descent from the head towards p that goes on at the nodes of G: the plain
\* nodes passed, and the node it ends at.
Descent(t, p, G) ==
    LET walk[i \in 0..Cardinality(Nodes)] ==
            IF i = 0 THEN [plain |-> <<>>, at |-> t.head]
            ELSE LET w == walk[i - 1]
                 IN  IF w.at \notin G THEN w
                     ELSE [plain |-> IF t.node[w.at].glue THEN w.plain ELSE Append(w.plain, w.at),
                           at    |-> Toward(t, w.at, p)]
    IN  walk[Cardinality(Nodes)]
-----------------------------------------------------------------------------
\* getfreenode: the head of the free list, after a new page if it is empty.
\* There is no node when there is no memory for a page.
PageNodes(k) == [i \in 1..PageSize |-> k * PageSize + PageSize + 1 - i]

Refilled(t) ==
    IF t.free = <<>> /\ t.pages < MaxPages
      THEN [t EXCEPT !.free = PageNodes(t.pages), !.pages = @ + 1] ELSE t

HasFree(t) == Refilled(t).free # <<>>
FreeNode(t) == Head(Refilled(t).free)

\* The first free node initialised to r.
Taken(t, r) ==
    [Refilled(t) EXCEPT !.free = Tail(@), !.node[FreeNode(t)] = r]

putfreenode(t, n) == [t EXCEPT !.free = <<n>> \o @]
Freed(t, n) == [putfreenode(t, n) EXCEPT !.node[n] = Unused]

\* The link that leads to n leads to m instead.
Relinked(t, n, m) ==
    IF t.node[n].parent = Null
      THEN [t EXCEPT !.head = m]
      ELSE [t EXCEPT !.node[t.node[n].parent].child[Side(t, n)] = m]
-----------------------------------------------------------------------------
\* Where an insertion looks for its place: the descent goes on through glue
\* whatever its length, and ends at a node without a child on the way.
Reached(t, p) ==
    Descent(t, p, {n \in Nodes : /\ t.node[n].len < Len(p) \/ t.node[n].glue
                                 /\ Toward(t, n, p) # Null}).at

\* The first bit in which p and the node differ, among those both have.
DifferBit(t, n, p) ==
    LET check == Min({t.node[n].len, Len(p)})
    IN  Min({check} \cup {i \in 0..(check - 1) : Bit(t.node[n].addr, i) # Bit(p, i)})

\* The ancestors of n up to the first that is shorter than d bits.
Climbed(t, n, d) ==
    LET up[i \in 0..Cardinality(Nodes)] ==
            IF i = 0 THEN n
            ELSE LET m == up[i - 1]
                     parent == t.node[m].parent
                 IN  IF parent # Null /\ t.node[parent].len >= d THEN parent ELSE m
    IN  up[Cardinality(Nodes)]

\* Variant of Below: the prefix is not counted.
BelowUncounted(t, n, p) ==
    LET new == FreeNode(t)
    IN  [Taken(t, [Plain(p) EXCEPT !.parent = n])
            EXCEPT !.node[n].child[Bit(p, t.node[n].len)] = new]

\* p becomes a child of n, which is a prefix of it.
Below(t, n, p) ==
    LET new == FreeNode(t)
    IN  [Taken(t, [Plain(p) EXCEPT !.parent = n])
            EXCEPT !.node[n].child[Bit(p, t.node[n].len)] = new, !.nprefs = (@ + 1) % CountMod]

\* p and n become the children of a glue node of d bits.  Without memory for
\* the glue the new node is lost.
Beside(t, n, p, d) ==
    LET new  == FreeNode(t)
        t1   == [Taken(t, Plain(p)) EXCEPT !.nprefs = (@ + 1) % CountMod]
        glue == FreeNode(t1)
        t2   == Taken(t1, [Glue(d) EXCEPT !.parent = t.node[n].parent,
                                          !.child = [b \in {0, 1} |->
                                                        IF b = Bit(p, d) THEN new ELSE n]])
    IN  IF HasFree(t1)
          THEN [Relinked(t2, n, glue) EXCEPT !.node[new].parent = glue, !.node[n].parent = glue]
          ELSE t1

Result(t, r) == trie' = t /\ ret' = r

InsertFirst(p) ==
    /\ trie.head = Null
    /\ IF HasFree(trie)
         THEN Result([Taken(trie, Plain(p)) EXCEPT !.head = FreeNode(trie),
                                                   !.nprefs = (@ + 1) % CountMod], "inserted")
         ELSE Result(trie, "nomem")

InsertNear(p) ==
    /\ trie.head # Null
    /\ \E d \in {DifferBit(trie, Reached(trie, p), p)} :
       \E n \in {Climbed(trie, Reached(trie, p), d)} :
          CASE d = Len(p) /\ trie.node[n].len = Len(p) ->
                  Result(IF trie.node[n].glue THEN trie
                         ELSE [trie EXCEPT !.nprefs = (@ + 1) % CountMod], "present")
            [] d # Len(p) \/ trie.node[n].len # Len(p) ->
                  IF ~HasFree(trie) THEN Result(trie, "nomem")
                  ELSE IF trie.node[n].len = d THEN Result(Below(trie, n, p), "inserted")
                  ELSE IF HasFree(Taken(trie, Unused))
                    THEN Result(Beside(trie, n, p, d), "inserted")
                    ELSE Result(Beside(trie, n, p, d), "nomem")

Shorter(t, p) == {n \in Nodes : t.node[n].len < Len(p)}

\* patsearchexactn.
SearchExact(t, p) ==
    LET n == Descent(t, p, Shorter(t, p)).at
    IN  IF n # Null /\ t.node[n].len = Len(p) /\ ~t.node[n].glue /\ Match(t, n, p, Len(p))
          THEN n ELSE Null

\* Variant of LeafRemoved: the glue is freed, and the link to it stays.
LeafRemovedLinked(t, n) ==
    LET parent == t.node[n].parent
        t1     == [Freed(t, n) EXCEPT !.node[parent].child[Side(t, n)] = Null]
    IN  IF parent = Null THEN [Freed(t, n) EXCEPT !.head = Null]
        ELSE IF ~t.node[parent].glue THEN t1
        ELSE putfreenode(t1, parent)

\* Variant of LeafRemoved: the glue takes its other child with it.
LeafRemovedBoth(t, n) ==
    LET parent == t.node[n].parent
        t1     == [Freed(t, n) EXCEPT !.node[parent].child[Side(t, n)] = Null]
    IN  IF parent = Null THEN [Freed(t, n) EXCEPT !.head = Null]
        ELSE IF ~t.node[parent].glue THEN t1
        ELSE Freed(Relinked(t1, parent, Null), parent)

\* A node without children leaves, and its glue with it: the glue's other child
\* takes the place of the glue.
LeafRemoved(t, n) ==
    LET parent == t.node[n].parent
        child  == t.node[parent].child[1 - Side(t, n)]
        t1     == [Freed(t, n) EXCEPT !.node[parent].child[Side(t, n)] = Null]
    IN  IF parent = Null THEN [Freed(t, n) EXCEPT !.head = Null]
        ELSE IF ~t.node[parent].glue THEN t1
        ELSE Freed([Relinked(t1, parent, child) EXCEPT !.node[child].parent = t.node[parent].parent],
                   parent)

\* Variant of ChainRemoved: the child moves into the node.
ChainRemovedCopied(t, n) ==
    LET child == t.node[n].child[IF t.node[n].child[1] # Null THEN 1 ELSE 0]
        Son(b) == t.node[child].child[b]
    IN  Freed([t EXCEPT !.node = [m \in Nodes |->
                  IF m = n THEN [t.node[child] EXCEPT !.parent = t.node[n].parent]
                  ELSE IF m # Null /\ \E b \in {0, 1} : Son(b) = m
                         THEN [t.node[m] EXCEPT !.parent = n] ELSE t.node[m]]], child)

\* A node with one child: the child takes its place.
ChainRemoved(t, n) ==
    LET child == t.node[n].child[IF t.node[n].child[1] # Null THEN 1 ELSE 0]
    IN  Freed([Relinked(t, n, child) EXCEPT !.node[child].parent = t.node[n].parent], n)

\* A node with two children goes to the free list and stays where it is, as
\* glue.  The link of the free list lies over its length and address: they are
\* 0 if it is the last free node, and bits of a pointer otherwise.
ForkRemoved(t, n) ==
    LET Over(len, addr) ==
            [putfreenode(t, n) EXCEPT !.node[n] =
                [@ EXCEPT !.glue = TRUE, !.len = len, !.addr = addr]]
    IN  IF t.free = <<>> THEN {Over(0, <<>>)}
        ELSE {Over(len, addr) : len \in 0..(MaxBitLen + 1), addr \in Prefixes}

\* The outcomes of taking out node n.
NodeRemoved(t, n) ==
    LET sons == {b \in {0, 1} : t.node[n].child[b] # Null}
    IN  CASE sons = {}            -> {LeafRemoved(t, n)}
          [] sons = {0, 1}        -> ForkRemoved(t, n)
          [] Cardinality(sons) = 1 -> {ChainRemoved(t, n)}

InTree(t) ==
    LET reach[i \in 0..Cardinality(Nodes)] ==
            IF i = 0 THEN {t.head} \ {Null}
            ELSE LET r == reach[i - 1]
                 IN  r \cup UNION {{t.node[n].child[b] : b \in {0, 1}} \ {Null} : n \in r}
    IN  reach[Cardinality(Nodes)]

Stored(t) == {t.node[n].addr : n \in {m \in InTree(t) : ~t.node[m].glue}}

Covers(p, q) == Len(p) <= Len(q) /\ \A i \in 1..Len(p) : p[i] = q[i]
StrictSubnets(t, p) == {q \in Stored(t) \ {p} : Covers(p, q)}
-----------------------------------------------------------------------------
\* What the trie is asked.  Results are sequences of nodes.
IsAbove(t, n, p) == Match(t, n, p, t.node[n].len)
IsBelow(t, n, p) == Match(t, n, p, Len(p))

\* The prefixes above p in turn, as far as the plain nodes on the way match.
Above(t, p) ==
    Descent(t, p, {n \in Shorter(t, p) : t.node[n].glue \/ IsAbove(t, n, p)})

\* Variant of SearchBest: the last plain node on the way, whether it matches or
\* not.
SearchBestAny(t, p) ==
    LET plain == Descent(t, p, Shorter(t, p)).plain
    IN  IF plain = <<>> THEN Null ELSE plain[Len(plain)]

\* patsearchbestn: never the prefix itself.
SearchBest(t, p) ==
    LET plain == Above(t, p).plain
    IN  IF plain = <<>> THEN Null ELSE plain[Len(plain)]

\* patgetsupernetsofn: the prefix itself comes last.
GetSupernets(t, p) ==
    LET w == Above(t, p)
        self == /\ w.at # Null /\ ~t.node[w.at].glue
                /\ t.node[w.at].len <= Len(p) /\ IsBelow(t, w.at, p)
    IN  w.plain \o (IF self THEN <<w.at>> ELSE <<>>)

\* patissubnetofn: the first plain node on the way decides.
IsSubnetOf(t, p) ==
    LET n == Descent(t, p, {m \in Shorter(t, p) : t.node[m].glue}).at
    IN  /\ n # Null /\ ~t.node[n].glue /\ t.node[n].len <= Len(p)
        /\ IF n \in Shorter(t, p) THEN IsAbove(t, n, p) ELSE IsBelow(t, n, p)

\* The first node towards p that is not shorter: the walks start there.
Start(t, p) == Descent(t, p, Shorter(t, p)).at

\* One step of a walk: at a node, with the right children still to visit on
\* the stack.  pos is the number of slots in use.
Walk(n) == [at |-> n, pos |-> 0, slot |-> [i \in 0..MaxBitLen |-> Unset], out |-> <<>>]

Into(t, w) ==
    LET left == t.node[w.at].child[0]
        right == t.node[w.at].child[1]
    IN  IF left # Null /\ right # Null
          THEN [w EXCEPT !.at = left, !.pos = @ + 1, !.slot[w.pos] = right]
          ELSE [w EXCEPT !.at = IF left # Null THEN left ELSE right]

HasChild(t, n) == \E b \in {0, 1} : t.node[n].child[b] # Null

\* The pop of patgetsubnetsofn, patissupernetofn and the two on related
\* prefixes, *(sp--): what the slot above the last one pushed holds.
MisPopped(w) ==
    IF w.pos = 0 THEN [w EXCEPT !.at = Null]
    ELSE [w EXCEPT !.at = w.slot[w.pos], !.pos = @ - 1]

\* The node pushed last, as *(--sp) takes it.
Popped(w) ==
    IF w.pos = 0 THEN [w EXCEPT !.at = Null]
    ELSE [w EXCEPT !.at = w.slot[w.pos - 1], !.pos = @ - 1]

Ended(w) == w.at \in {Null, Unset}

\* A walk to its end, or for as many steps as there are nodes and pops.
Walked(w0, Step(_)) ==
    LET run[i \in 0..(3 * Cardinality(Nodes))] ==
            IF i = 0 THEN w0 ELSE LET w == run[i - 1] IN IF Ended(w) THEN w ELSE Step(w)
    IN  run[3 * Cardinality(Nodes)]

\* The walk over the subnets of p: it stops at a plain node that does not match.
Subnets(t, p, w0) ==
    LET Step(w) ==
            LET v == IF t.node[w.at].glue THEN w ELSE [w EXCEPT !.out = Append(@, w.at)]
            IN  IF ~t.node[w.at].glue /\ ~IsBelow(t, w.at, p) THEN [w EXCEPT !.at = Null]
                ELSE IF HasChild(t, w.at) THEN Into(t, v) ELSE MisPopped(v)
        end == Walked(w0, Step)
    IN  IF end.at = Unset THEN Undefined ELSE end.out

\* patgetsubnetsofn.
GetSubnets(t, p) == Subnets(t, p, Walk(Start(t, p)))

\* The slots patgetsubnetsofn allots, the end of the array included.
Allotted(t, p) == Min({2 ^ (MaxBitLen - Len(p)), t.nprefs}) + 1

\* patissupernetofn: the first plain node of the walk decides.
IsSupernetOf(t, p) ==
    LET Step(w) ==
            IF ~t.node[w.at].glue
              THEN [w EXCEPT !.at = Null, !.out = IF IsBelow(t, w.at, p) THEN <<w.at>> ELSE <<>>]
              ELSE IF HasChild(t, w.at) THEN Into(t, w) ELSE MisPopped(w)
    IN  Walked(Walk(Start(t, p)), Step).out # <<>>

\* patgetrelatedofn: the result has no end when a plain node above p does not
\* match.
GetRelated(t, p) ==
    LET w == Above(t, p)
    IN  IF w.at \in Shorter(t, p) THEN Undefined
        ELSE Subnets(t, p, [Walk(w.at) EXCEPT !.out = w.plain])

\* The outcomes of patisrelatedofn: unlike patissupernetofn, the walk goes on
\* when a plain node does not match.
IsRelatedOf(t, p) ==
    LET w0 == Descent(t, p, {n \in Shorter(t, p) : t.node[n].glue \/ ~IsAbove(t, n, p)})
        Step(w) ==
            IF ~t.node[w.at].glue /\ IsBelow(t, w.at, p)
              THEN [w EXCEPT !.at = Null, !.out = <<w.at>>]
              ELSE IF HasChild(t, w.at) THEN Into(t, w) ELSE MisPopped(w)
        end == Walked(Walk(w0.at), Step)
    IN  IF w0.at \in Shorter(t, p) THEN {TRUE}
        ELSE IF end.at = Unset THEN BOOLEAN ELSE {end.out # <<>>}

\* The walk over the outermost prefixes from node n, the default route aside.
Outermost(t, n) ==
    LET Step(w) ==
            IF ~t.node[w.at].glue /\ t.node[w.at].len # 0
              THEN Popped([w EXCEPT !.out = Append(@, w.at)])
              ELSE IF HasChild(t, w.at) THEN Into(t, w) ELSE Popped(w)
    IN  Walked(Walk(n), Step).out

\* patgetfirstsubnetsofn.
GetFirstSubnets(t, p) == Outermost(t, Start(t, p))

\* patcoverage.
Coverage(t) ==
    FoldFunction(+, 0, [i \in DOMAIN Outermost(t, t.head) |->
                            2 ^ (MaxBitLen - t.node[Outermost(t, t.head)[i]].len)])

\* patiteratorinit, and patiteratornext until patiteratorend.
Iterated(t) ==
    LET Step(w) ==
            LET v == IF t.node[w.at].glue THEN w ELSE [w EXCEPT !.out = Append(@, w.at)]
            IN  IF HasChild(t, w.at) THEN Into(t, v) ELSE Popped(v)
    IN  Walked(Walk(t.head), Step).out
-----------------------------------------------------------------------------
\* What the client may do.
MayInsert(p) == /\ Repeats \/ p \notin Stored(trie)
                /\ InsertsSupernets \/ StrictSubnets(trie, p) = {}

MayRemove(p) == /\ Repeats \/ p \in Stored(trie)
                /\ RemovesForks \/ p \notin Stored(trie)
                   \/ \E b \in {0, 1} : \A q \in StrictSubnets(trie, p) : q[Len(p) + 1] = b

Init == trie = Empty /\ ret = "none" /\ lapsed = FALSE

patinsertn(p) ==
    /\ MayInsert(p)
    /\ InsertFirst(p) \/ InsertNear(p)
    /\ lapsed' = (lapsed \/ trie'.nprefs < trie.nprefs)

patremoven(p) ==
    /\ MayRemove(p)
    /\ LET n == SearchExact(trie, p)
           t == [trie EXCEPT !.nprefs = (@ - 1) % CountMod]
       IN  IF n = Null THEN Result(t, "absent") /\ lapsed' = TRUE
           ELSE ret' = "removed" /\ trie' \in NodeRemoved(t, n) /\ UNCHANGED lapsed

\* All nodes of all pages are free again, those of the oldest page first.
patclear ==
    /\ Result([Empty EXCEPT
                !.pages = trie.pages,
                !.free  = [i \in 1..(trie.pages * PageSize) |->
                              PageNodes((i - 1) \div PageSize)[((i - 1) % PageSize) + 1]]], "none")
    /\ lapsed' = FALSE

Next == patclear \/ \E p \in Prefixes : patinsertn(p) \/ patremoven(p)

Spec == Init /\ [][Next]_vars
-----------------------------------------------------------------------------
TypeOK ==
    /\ trie \in Tries
    /\ ret \in {"none", "inserted", "present", "nomem", "removed", "absent"}
    /\ lapsed \in BOOLEAN

\* A node is in the trie or free, and in the free list once: what
\* patriciatrie.h says of nodes, and what getfreenode relies on.
FreeIsNotInTree ==
    /\ InTree(trie) \cap {trie.free[i] : i \in DOMAIN trie.free} = {}
    /\ \A i, j \in DOMAIN trie.free : trie.free[i] = trie.free[j] => i = j

\* The shape that the descents and the walks rely on: links agree in both
\* directions, a child is longer than its parent, and glue has both children.
WellShaped ==
    \A n \in InTree(trie) :
        LET r == trie.node[n]
        IN  /\ r.parent = Null <=> n = trie.head
            /\ r.glue => \A b \in {0, 1} : r.child[b] # Null
            /\ ~r.glue => Len(r.addr) = r.len
            /\ \A b \in {0, 1} : r.child[b] # Null =>
                  /\ trie.node[r.child[b]].parent = n
                  /\ trie.node[r.child[b]].len > r.len

\* What every call relies on: the tree hangs together and no node of it is free
\* (patriciatrie.c:99-134, 243-475).
TreeIsSound == WellShaped /\ FreeIsNotInTree

\* Every prefix in the trie is found, where it is.
StoredIsFound ==
    \A n \in InTree(trie) :
        ~trie.node[n].glue => SearchExact(trie, trie.node[n].addr) = n

Addrs(s) == [i \in DOMAIN s |-> trie.node[s[i]].addr]
IsListOf(s, set) ==
    /\ s # Undefined
    /\ {Addrs(s)[i] : i \in DOMAIN s} = set /\ Len(s) = Cardinality(set)

Supernets(set, p) == {q \in set : Covers(q, p)}
SubnetsOf(set, p) == {q \in set : Covers(p, q)}
Related(set, p) == Supernets(set, p) \cup SubnetsOf(set, p)
Longest(set) == CHOOSE p \in set : \A q \in set : Len(q) <= Len(p)
IsChain(set) == \A p, q \in set : Covers(p, q) \/ Covers(q, p)

\* What the searches return is what the set of prefixes stored says: the prefix
\* itself, the longest one above it, all above it from the shortest on, and
\* whether there is one above or below.
SearchesAreRight ==
    LET all == Stored(trie)
    IN  /\ StoredIsFound
        /\ \A p \in Prefixes :
            LET above == Supernets(all, p)
                s     == GetSupernets(trie, p)
                best  == SearchBest(trie, p)
            IN  /\ SearchExact(trie, p) # Null <=> p \in all
                /\ IF above \ {p} = {} THEN best = Null
                   ELSE best # Null /\ trie.node[best].addr = Longest(above \ {p})
                /\ IsListOf(s, above)
                /\ \A i, j \in DOMAIN s : i < j => trie.node[s[i]].len < trie.node[s[j]].len
                /\ IsSubnetOf(trie, p) <=> above # {}
                /\ IsSupernetOf(trie, p) <=> SubnetsOf(all, p) # {}

\* The iterator returns every prefix once (patriciatrie.c:903-949).
IteratorIsRight == IsListOf(Iterated(trie), Stored(trie))

\* So it does, the coverage counts every address once, and the walks for subnets
\* and related prefixes are right as long as they meet no fork and no plain node
\* beside p; unless the count lapsed, the array allotted for the subnets holds
\* them and its end (patriciatrie.c:571-618).
WalksAreRight ==
    LET all == Stored(trie)
    IN  /\ IteratorIsRight
        /\ Coverage(trie) =
              Cardinality({a \in [1..MaxBitLen -> {0, 1}] : Supernets(all \ {<<>>}, a) # {}})
        /\ \A p \in Prefixes :
            /\ IsChain(SubnetsOf(all, p)) =>
                  /\ IsListOf(GetSubnets(trie, p), SubnetsOf(all, p))
                  /\ lapsed \/ Cardinality(SubnetsOf(all, p)) < Allotted(trie, p)
            /\ IsChain(all \cup {p}) => IsListOf(GetRelated(trie, p), Related(all, p))
            /\ IF Related(all, p) # {} THEN IsRelatedOf(trie, p) = {TRUE}
               ELSE IsChain(all) => IsRelatedOf(trie, p) = {FALSE}

\* The count is that of the prefixes stored, so that the array patgetsubnetsofn
\* allots by it holds what it finds and the end.  Does not hold for a client that
\* inserts a prefix twice or removes one that is absent, nor without memory.
CountIsRight ==
    LET all == Stored(trie)
    IN  /\ trie.nprefs = Cardinality(all)
        /\ \A p \in Prefixes :
              IsChain(SubnetsOf(all, p)) => Cardinality(SubnetsOf(all, p)) + 1 <= Allotted(trie, p)

\* The count is never below the number of prefixes stored, from a clear until a
\* prefix is removed that is absent: prefixes inserted twice and nodes lost when
\* the glue gets no memory only raise it, and no removal takes back more than its
\* insertion gave.  patgetsubnetsofn allots by it
\* (patriciatrie.c:243-330, 405-475, 571-580).
CountCovers == ~lapsed => Cardinality(Stored(trie)) <= trie.nprefs

\* A prefix stays in the node its insertion returned until it is taken out: the
\* client keeps pointers to nodes.
NodesStay ==
    [][\A p \in Stored(trie) \cap Stored(trie') :
          SearchExact(trie', p) = SearchExact(trie, p)]_vars

\* What patriciatrie.h says of patgetsubnetsofn: the subnets of the prefix.
SubnetsAreReturned ==
    \A p \in Prefixes : IsListOf(GetSubnets(trie, p), SubnetsOf(Stored(trie), p))

\* What it says of patgetrelatedofn: the prefixes related to the prefix.
RelatedAreReturned ==
    \A p \in Prefixes : IsListOf(GetRelated(trie, p), Related(Stored(trie), p))

\* What it says of patgetfirstsubnetsofn: subnets of the prefix.
FirstSubnetsAreSubnets ==
    \A p \in Prefixes : LET s == GetFirstSubnets(trie, p)
                       IN  \A i \in DOMAIN s : Covers(p, trie.node[s[i]].addr)

Abstract == INSTANCE PrefixSet WITH stored <- Stored(trie), ret <- ret

\* The trie is a set of prefixes.
ImplementsPrefixSet == Abstract!Spec
=============================================================================
