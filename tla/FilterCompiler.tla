--------------------------- MODULE FilterCompiler ---------------------------
(***************************************************************************)
(* Compiling a filter, a sequence of tokens, into the code and the tries    *)
(* that FilterVm runs.  A token is its text: NOT, AND, OR, CALL, EXACT, a   *)
(* bracket; or a register n, an address a or an accessor by its name.      *)
(***************************************************************************)
EXTENDS Integers, Sequences, SequencesExt, FiniteSets

K_MAX == 32
FNS == [withdrawn |-> 17, every_withdrawn |-> 19, nlri |-> 21, every_nlri |-> 23]

Word(op, arg) == [op |-> op, arg |-> arg]

\* vm_emit_ex, for an index of at most two bytes.
EmitEx(op, i) == IF i < 256 THEN <<Word(op, i)>>
                 ELSE <<Word("EXARG", i \div 256), Word(op, i % 256)>>

\* The bits of the usage mask for register i: 1 << i is an int.
Marked(i) == CASE i < 31 -> {i}
               [] i = 31 -> {31, 32}
               [] i = 32 -> {0}

\* vm_clear_temporaries.
ClearTemporaries(mask) ==
    FlattenSeq([j \in 1..K_MAX + 1 |->
        IF j - 1 \in mask THEN <<Word("LOADK", j - 1), Word("DISCARD", j - 1)>> ELSE <<>>])

-----------------------------------------------------------------------------
Failed == [code |-> <<>>, next |-> 0]
Ok(code, next) == [code |-> code, next |-> next]

Tok(toks, i) == IF i \in DOMAIN toks THEN toks[i].t ELSE "end"

\* parse_argument: the elements of the argument at i, and where it ends.
ArgEnd(toks, i) ==
    LET close == {j \in i..Len(toks) : Tok(toks, j) = "]"}
    IN  CASE Tok(toks, i) # "[" -> i
          [] Tok(toks, i) = "[" /\ close = {} -> 0
          [] OTHER -> CHOOSE j \in close : \A k \in close : j <= k
Elements(toks, i) ==
    IF Tok(toks, i) = "[" THEN SubSeq(toks, i + 1, ArgEnd(toks, i) - 1) ELSE <<toks[i]>>
GoodArg(toks, i) ==
    /\ i \in DOMAIN toks /\ ArgEnd(toks, i) # 0
    /\ \A e \in ToSet(Elements(toks, i)) :
         e.t = "ADDR" \/ (e.t = "REG" /\ e.n <= K_MAX)
Registers(toks, i) == SelectSeq(Elements(toks, i), LAMBDA e : e.t = "REG")

\* A term on the right that is no accessor has two tries, in the order of the text.
RightArgs(toks) ==
    {i \in 2..Len(toks) : Tok(toks, i - 1) = "EXACT" /\ Tok(toks, i) # "FIELD"}
TrieAt(toks, i) == 2 + 2 * Cardinality({j \in RightArgs(toks) : j < i})

\* The addresses that are stored while compiling.
CompiledTries(toks) ==
    LET args == SetToSortSeq(RightArgs(toks), <)
        Set(i, family) == {e.a : e \in {x \in ToSet(Elements(toks, i)) :
                                          x.t = "ADDR" /\ x.a.family = family}}
    IN  FlattenSeq([j \in DOMAIN args |-> <<[family |-> 4, set |-> Set(args[j], 4)],
                                            [family |-> 6, set |-> Set(args[j], 6)]>>])

\* compile_term: an accessor on the left fills the stack, one on the right the
\* tries; constants on the left leave no code.
Left(toks, i) ==
    CASE Tok(toks, i) = "FIELD" -> Ok(<<Word("CALL", FNS[toks[i].name] + 1)>>, i + 1)
      [] Tok(toks, i) # "FIELD" /\ GoodArg(toks, i) -> Ok(<<>>, ArgEnd(toks, i) + 1)
      [] OTHER -> Failed

Right(toks, i) ==
    CASE Tok(toks, i) = "FIELD" -> Ok(<<Word("CALL", FNS[toks[i].name])>>, i + 1)
      [] Tok(toks, i) # "FIELD" /\ GoodArg(toks, i) ->
           Ok(EmitEx("SETTRIE", TrieAt(toks, i)) \o EmitEx("SETTRIE6", TrieAt(toks, i) + 1)
              \o FlattenSeq([j \in DOMAIN Registers(toks, i) |->
                    <<Word("LOADK", Registers(toks, i)[j].n), Word("STORE", 0)>>]),
              ArgEnd(toks, i) + 1)
      [] OTHER -> Failed

UsageMask(toks, i) ==
    IF Tok(toks, i) = "FIELD" THEN {}
    ELSE UNION {Marked(e.n) : e \in ToSet(Registers(toks, i))}

\* TERM OP TERM.
Operation(toks, i) ==
    LET l == Left(toks, i)
        r == Right(toks, l.next + 1)
    IN  IF l.next = 0 \/ Tok(toks, l.next) # "EXACT" \/ r.next = 0 THEN Failed
        ELSE Ok(l.code \o r.code \o <<Word("EXACT", 0)>>
                \o ClearTemporaries(UsageMask(toks, l.next + 1)), r.next)

Operator(t) == CASE t = "AND" -> <<Word("CFAIL", 0)>> [] t = "OR" -> <<Word("CPASS", 0)>>

\* compile_expr at each token.  The size in a BLK is set when an operator follows
\* the closing bracket, and no ENDBLK is emitted.
compile_expr(toks) ==
    LET f[i \in 1..Len(toks) + 1] ==
          LET inner == f[i + 1]
              head ==
                CASE Tok(toks, i) = "NOT" ->
                       IF inner.next = 0 THEN Failed
                       ELSE Ok(inner.code \o <<Word("NOT", 0)>>, inner.next)
                  [] Tok(toks, i) = "(" ->
                       IF Tok(toks, inner.next) # ")" THEN Failed
                       ELSE Ok(<<Word("BLK", IF Tok(toks, inner.next + 1) \in {"AND", "OR"}
                                             THEN Len(inner.code) + 1 ELSE 0)>>
                               \o inner.code, inner.next + 1)
                  [] Tok(toks, i) = "CALL" ->
                       IF Tok(toks, i + 1) # "REG" THEN Failed
                       ELSE IF toks[i + 1].n > K_MAX THEN Failed
                       ELSE Ok(EmitEx("CALL", toks[i + 1].n), i + 2)
                  [] OTHER -> Operation(toks, i)
              rest == f[head.next + 1]
          IN  CASE head.next = 0 -> Failed
                [] head.next # 0 /\ Tok(toks, head.next) \notin {"AND", "OR"} -> head
                [] OTHER -> IF rest.next = 0 THEN Failed
                            ELSE Ok(head.code \o Operator(Tok(toks, head.next)) \o rest.code,
                                    rest.next)
    IN  f[1]

\* filter_compilefv: what is behind the expression is not looked at.
Compiles(toks) == compile_expr(toks).next # 0
=============================================================================
