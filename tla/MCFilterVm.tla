----------------------------- MODULE MCFilterVm -----------------------------
(* Instances of FilterVm for TLC. *)
EXTENDS FilterVm, FilterCompiler

W(op) == [op |-> op, arg |-> 0]
A(op, arg) == [op |-> op, arg |-> arg]

V4(bits) == [family |-> 4, bits |-> bits]
V6(bits) == [family |-> 6, bits |-> bits]

Lists(nlri, mp, wd, path, comms) ==
    [nlri |-> nlri, allnlri |-> nlri \o mp, withdrawn |-> wd, allwithdrawn |-> wd \o mp,
     aspath |-> path, as4path |-> <<>>, realaspath |-> path, communities |-> comms]

Update(lists, attrs, bad) == [update |-> TRUE, lists |-> lists, attrs |-> attrs, bad |-> bad]

M1 == Update(Lists(<<V4(<<0>>), V4(<<1, 0>>), V4(<<1>>)>>, <<V6(<<1>>)>>, <<V4(<<1, 0>>)>>, <<1, 2, 1>>, <<7, 8>>),
             {1, 2, 8, 14, 40}, {})
M2 == Update(Lists(<<>>, <<>>, <<V4(<<0>>)>>, <<2, 1>>, <<8>>), {2, 8}, {})
M3 == Update(Lists(<<V4(<<1>>)>>, <<>>, <<>>, <<1>>, <<7>>), {1}, {"nlri", "allnlri", "communities"})
M4 == [update |-> FALSE, lists |-> Lists(<<>>, <<>>, <<>>, <<>>, <<>>), attrs |-> {}, bad |-> {}]
MCMessages == {M1, M2, M3, M4}
Updates == {M1, M2, M3}

MCK == 0 :> [addr |-> V4(<<1, 0>>)] @@ 1 :> [addr |-> V6(<<1>>)] @@ 2 :> [as |-> 1]
       @@ 3 :> [as |-> 2] @@ 4 :> [as |-> AS_ANY] @@ 5 :> [comm |-> 8] @@ 6 :> [comm |-> 7]
       @@ 7 :> [array |-> <<[as |-> 1], [as |-> 2], [as |-> 1]>>, fits |-> TRUE]
       @@ 8 :> [array |-> <<>>, fits |-> FALSE] @@ 300 :> [addr |-> V4(<<1>>)]

MCUserFns == 0 :> {M1, M3} @@ 1 :> {M1, M2}

\* vm_emit_ex.
Emit(op, i) == IF i < 256 THEN <<A(op, i)>> ELSE <<A("EXARG", i \div 256), A(op, i % 256)>>

Tries == <<[family |-> 4, set |-> {V4(<<1>>)}], [family |-> 6, set |-> {V6(<<1>>)}]>>

\* A filter expression: its code, and the messages it holds for.
E(c, P(_)) == [code |-> c, passes |-> {m \in Updates : P(m)}]
Neg(e) == [code |-> e.code \o <<W("NOT")>>, passes |-> Updates \ e.passes]
Or(e, f) == [code |-> e.code \o <<W("CPASS")>> \o f.code, passes |-> e.passes \cup f.passes]
And(e, f) == [code |-> e.code \o <<W("NOT"), W("CFAIL")>> \o f.code,
              passes |-> e.passes \cap f.passes]
Block(e) == [e EXCEPT !.code = <<W("BLK")>> \o @ \o <<W("ENDBLK")>>]

Has(a) == LET P(m) == a \in m.attrs IN E(<<A("HASATTR", a)>>, P)

\* Any address of the accessor related to the compiled tries.
Rel(op, bits, list) ==
    LET P(m) == \E a \in ToSet(m.lists[list]) :
                    \E p \in Tries[1].set \cup Tries[2].set : Related(op, p, a)
    IN  E(<<A("SETTRIE", 2), A("SETTRIE6", 3), A(op, bits + SETTLE)>>, P)

\* The same with constants stored for the time of the operation.
Dyn(op, bits, list, ks) ==
    LET P(m) == \E a \in ToSet(m.lists[list]) : \E k \in ToSet(ks) : Related(op, K[k].addr, a)
        Each(o) == FlattenSeq([i \in DOMAIN ks |-> Emit("LOADK", ks[i]) \o <<W(o)>>])
    IN  E(<<A("SETTRIE", 0), A("SETTRIE6", 1), W("CLRTRIE"), W("CLRTRIE6")>> \o Each("STORE") \o <<A(op, bits + SETTLE)>> \o Each("DISCARD"), P)

In(op, list, fn, k) ==
    LET P(m) == \E a \in ToSet(m.lists[list]) : IF op = "PFXCONTAINS" THEN a = K[k].addr ELSE AddrEq(a, K[k].addr)
    IN  E(<<W("SETTLE"), A("CALL", fn)>> \o Emit(op, k), P)

Both(fn, bits, l1, l2) ==
    LET P(m) == ToSet(m.lists[l1]) \cap ToSet(m.lists[l2]) # {}
    IN  E(<<W("SETTLE"), A("SETTRIE", 0), A("SETTRIE6", 1), W("CLRTRIE"), W("CLRTRIE6"), A("CALL", fn), A("EXACT", bits + SETTLE)>>, P)

\* The path has the pattern at its start, its end, everywhere or anywhere.
PathMeans(op, p, pat) ==
    LET At(j) == \A i \in DOMAIN pat : j + i <= Len(p) /\ pat[i] \in {p[j + i], AS_ANY}
    IN  CASE op = "ASPSTARTS" -> At(0)
          [] op = "ASPENDS" -> Len(p) >= Len(pat) /\ At(Len(p) - Len(pat))
          [] op = "ASPEXACT" -> Len(p) = Len(pat) /\ At(0)
          [] op = "ASPMATCH" -> \E j \in 0..Len(p) : At(j)
Path(op, bits, list, ks) ==
    LET P(m) == PathMeans(op, m.lists[list], [i \in DOMAIN ks |-> K[ks[i]].as])
    IN  E([i \in DOMAIN ks |-> A("LOADK", ks[i])] \o <<A(op, bits + SETTLE)>>, P)
Array(op, bits, list) ==
    LET P(m) == PathMeans(op, m.lists[list], <<1, 2, 1>>)
    IN  E(<<A("LOADK", 7), W("UNPACK"), A(op, bits + SETTLE)>>, P)

Comm(ks) ==
    LET P(m) == \A k \in ToSet(ks) : K[k].comm \in ToSet(m.lists["communities"])
    IN  E(<<W("SETTLE")>> \o [i \in DOMAIN ks |-> A("LOADK", ks[i])] \o <<W("COMMEXACT")>>, P)

\* Whether constants k and l are the same.
Cmp(op, k, l, b) == LET P(m) == b IN E(<<A("LOADK", k)>> \o Emit(op, l), P)

\* At least two announced routes have a supernet in the tries.
Twice == LET P(m) == Cardinality({a \in ToSet(m.lists["nlri"]) : Len(a.bits) >= 1 /\ a.bits[1] = 1}) >= 2
         IN  Block(E(<<W("SETTLE"), A("SETTRIE", 2), A("SUBNET", 1), W("NOT"), W("CFAIL"), A("SUBNET", 1)>>, P))
Fn(i) == LET P(m) == m \in UserFns[i] IN E(<<A("CALL", i)>>, P)

Leaves == {Has(1), Has(40), Rel("EXACT", 5, "allnlri"), Rel("SUBNET", 1, "nlri"),
           Rel("SUPERNET", 2, "withdrawn"), Rel("RELATED", 6, "allwithdrawn"),
           Dyn("EXACT", 1, "nlri", <<0, 1>>), Dyn("SUBNET", 5, "allnlri", <<300>>),
           In("PFXCONTAINS", "nlri", 22, 0), In("PFXCONTAINS", "allnlri", 24, 1), In("ADDRCONTAINS", "allwithdrawn", 20, 300),
           Both(17, 1, "withdrawn", "nlri"), Both(23, 6, "allnlri", "allwithdrawn"),
           Path("ASPMATCH", 1, "aspath", <<3, 2>>), Path("ASPSTARTS", 4, "realaspath", <<2, 4>>),
           Path("ASPENDS", 1, "aspath", <<3, 2>>), Path("ASPEXACT", 1, "aspath", <<2, 4, 2>>),
           Path("ASPMATCH", 2, "as4path", <<2>>), Array("ASPENDS", 1, "aspath"),
           Comm(<<5, 6>>), Cmp("ASCMP", 2, 3, FALSE), Cmp("ADDRCMP", 0, 300, TRUE),
           Cmp("PFXCMP", 0, 300, FALSE), Twice, Fn(0), Fn(1)}
Few == {Has(1), Has(2), Rel("EXACT", 5, "allnlri"), Path("ASPMATCH", 1, "aspath", <<3, 2>>), Comm(<<5>>)}

Exprs == Leaves \cup {Neg(e) : e \in Leaves}
         \cup {Or(e, f) : e, f \in Few} \cup {And(e, f) : e, f \in Leaves}
         \cup {Or(Block(And(e, Neg(f))), g) : e, f, g \in Few}
         \cup {And(Block(Or(e, Block(And(f, e)))), Neg(Block(Or(f, e)))) : e, f \in Few}

\* Predicted instructions at the end of the code expect the word behind it.
OpenEnd(c) == Len(c) >= 2 /\ c[Len(c)] = W("NOT") /\ c[Len(c) - 1].op \in {"HASATTR", "ENDBLK"}
Closed(c) == IF OpenEnd(c) THEN Append(c, W("NOP")) ELSE c

Known == {[code |-> Closed(e.code), tries |-> Tries, known |-> TRUE, passes |-> e.passes] :
             e \in Exprs}

\* Short programs of no particular meaning.
Words == {A("LOAD", 0), A("LOAD", 1), W("NOT"), W("CPASS"), W("CFAIL"), W("BLK"), W("ENDBLK"),
          A("HASATTR", 1), A("EXACT", 1), W("BAD")}
Soup == {[code |-> Closed(c), tries |-> <<>>, known |-> FALSE, passes |-> {}] :
            c \in UNION {[1..n -> Words] : n \in 1..3} \cup
                  {<<A("LOADK", 9)>>, <<A("LOADK", 8), W("UNPACK")>>, <<A("SETTRIE", 1)>>,
                   <<A("SETTRIE6", 2)>>, <<A("EXACT", 4)>>, <<A("CALL", 9)>>,
                   <<A("CALL", 21), A("CALL", 18), A("LOAD", 1)>>}}

\* Filters in their own language; registers 0 and 1 hold an address and a function.
T(t) == [t |-> t]
R(i) == [t |-> "REG", n |-> i]
At(a) == [t |-> "ADDR", a |-> a]
Field(l) == [t |-> "FIELD", name |-> l]
Call(i) == <<T("CALL"), R(i)>>

Chains == {<<Call(0), MCUserFns[0]>>,
           <<<<T("NOT")>> \o Call(1), Updates \ MCUserFns[1]>>,
           <<Call(0) \o <<T("OR")>> \o Call(1), MCUserFns[0] \cup MCUserFns[1]>>,
           <<Call(0) \o <<T("OR"), T("NOT")>> \o Call(1), MCUserFns[0] \cup (Updates \ MCUserFns[1])>>}
Texts == {<<Field("nlri"), T("EXACT"), T("["), At(V4(<<0>>)), R(0), At(V6(<<0>>)), R(1), T("]")>>,
          <<Field("every_withdrawn"), T("EXACT"), R(0), T("OR"), At(V4(<<0>>)), T("EXACT"), Field("nlri"), T("OR"), Field("nlri"), T("EXACT"), R(1)>>,
          <<T("(")>> \o Call(0) \o <<T("OR")>> \o Call(1) \o <<T(")"), T("AND")>> \o Call(1),
          <<T("(")>> \o Call(0) \o <<T(")"), T("AND"), T("NOT"), Field("nlri"), T("EXACT"), At(V4(<<0>>)), T("]")>>}
Wrong == {<<T("(")>> \o Call(0), <<T("OR")>>, Call(33), <<R(0), T("OR"), R(1)>>, <<R(0), T("EXACT"), T("["), R(1)>>}

ASSUME \A toks \in Wrong : ~Compiles(toks)

FromText(toks, known, passes) ==
    [code |-> Closed(compile_expr(toks).code), tries |-> CompiledTries(toks), known |-> known, passes |-> passes]
Compiled == {FromText(c[1], TRUE, c[2]) : c \in Chains} \cup {FromText(t, FALSE, {}) : t \in Texts}

MCPrograms == Known \cup Soup \cup Compiled

\* Communities or a function of the machine between two uses of an iterator.
Careless ==
    {[code |-> e.code \o <<W("NOT"), W("CFAIL"), A("LOADK", 5), W("COMMEXACT"), W("CPASS")>> \o e.code,
      tries |-> Tries, known |-> FALSE, passes |-> {}] : e \in {Rel("EXACT", 1, "nlri"), Rel("EXACT", 2, "withdrawn")}}
MCBehind == {BAD_OPCODE, W("NOT"), W("CPASS")}
=============================================================================
