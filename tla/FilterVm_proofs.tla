--------------------------- MODULE FilterVm_proofs ---------------------------
(***************************************************************************)
(* The prefetching machine runs the plain program, and its stack stays in    *)
(* what was allocated for it, whatever the program, the messages, the        *)
(* constants and the words that lie behind the code.                        *)
(***************************************************************************)
EXTENDS FilterVm, WellFoundedInduction, SequenceTheorems, TLAPS

\* A nonempty set of naturals has a least element, and Min is one: the first
\* position a search finds is one that satisfies what was searched for.
LEMMA MinIsLeast ==
    ASSUME NEW S \in SUBSET Nat, S # {}
    PROVE  Min(S) \in S /\ \A x \in S : Min(S) <= x
<1> DEFINE R == OpToRel(<, Nat)
<1>1. \A x, y \in Nat : <<y, x>> \in R <=> y < x
  BY DEF OpToRel
<1>2. IsWellFoundedOn(R, Nat)
  BY NatLessThanWellFounded
<1> HIDE DEF R
<1>3. PICK m \in S : \A y \in S : ~ (<<y, m>> \in R)
  BY <1>2, WFMin
<1>4. ASSUME NEW y \in S PROVE m <= y
  <2>1. m \in Nat /\ y \in Nat
    OBVIOUS
  <2>2. ~ (<<y, m>> \in R)
    BY <1>3
  <2>3. ~ (y < m)
    BY <1>1, <2>1, <2>2
  <2> QED
    BY <2>1, <2>3
<1> QED
  BY <1>4 DEF Min

Fields == {"on", "out", "error", "pc", "ip", "np", "stack", "cap", "curblk", "exarg",
           "mask", "settle", "cur", "cur6", "tries", "kind", "at", "err"}

\* Between two instructions: ip is the word in front of pc, np the one behind
\* it, and what np is behind the last word is not acted on.
AtWord(t) ==
    /\ t.pc \in 1..Len(code) /\ t.ip = code[t.pc]
    /\ t.pc < Len(code) => t.np = code[t.pc + 1]
    /\ t.pc = Len(code) => t.np.op \notin Predicted(t.ip.op)

Between(t) == DOMAIN t = Fields /\ (t.on => AtWord(t))

IInv == prog \in Programs /\ (s.on => msg \in Messages) /\ Between(s)

Listed(x) == x \in Seq(ToSet(x))

\* A stack in what was allocated for it.
Fits(stack, cap) == Listed(stack) /\ cap \in Nat \ {0} /\ Len(stack) <= cap

\* What UNPACK finds on top is an array of the heap, if it finds one at all.
UnpacksArrays ==
    s.on /\ s.ip.op = "UNPACK" /\ s.stack # <<>> /\ Top(s).fits => Listed(Top(s).array)

KeepsTheStack(t, u) == UnpacksArrays /\ Fits(t.stack, t.cap) => Fits(u.stack, u.cap)

\* u differs from t in nothing that picks the next instruction.
Alike(t, u) ==
    /\ DOMAIN u = Fields /\ u.pc = t.pc /\ u.ip = t.ip /\ u.np = t.np
    /\ KeepsTheStack(t, u)

\* u is what the machine is in after t, between two instructions or off.
Lands(t, u) == Between(u) /\ KeepsTheStack(t, u)

\* What a step of the machine keeps.
Kept == IInv' /\ (UnpacksArrays /\ Fits(s.stack, s.cap) => Fits(s.stack, s.cap)')
-----------------------------------------------------------------------------
\* Lists of cells, whatever the cells hold.
LEMMA ListedIn ==
    ASSUME NEW S, NEW x \in Seq(S)
    PROVE  Listed(x)
<1>1. Len(x) \in Nat /\ DOMAIN x = 1..Len(x) /\ x \in [1..Len(x) -> S]
  BY LenProperties
<1>2. \A i \in 1..Len(x) : x[i] \in ToSet(x)
  BY <1>1 DEF ToSet
<1>3. x \in [1..Len(x) -> ToSet(x)]
  BY <1>1, <1>2
<1> QED
  BY <1>1, <1>3 DEF Listed

LEMMA ListsOfCells ==
    ASSUME NEW x, Listed(x), NEW y, Listed(y), NEW c
    PROVE  /\ Listed(x \o y) /\ Len(x \o y) = Len(x) + Len(y)
           /\ Listed(Front(x)) /\ Len(Front(x)) = IF 1 <= Len(x) THEN Len(x) - 1 ELSE 0
           /\ Listed(Append(Front(x), c)) /\ Len(Append(Front(x), c)) = Len(Front(x)) + 1
<1> DEFINE S == ToSet(x) \cup ToSet(y) \cup {c}
           front == SubSeq(x, 1, Len(x) - 1)
<1>1. x \in Seq(S) /\ y \in Seq(S) /\ Len(x) \in Nat
  BY SeqMonotonic, LenProperties DEF Listed
<1>2. c \in S
  OBVIOUS
<1> HIDE DEF S
<1>3. x \o y \in Seq(S) /\ Len(x \o y) = Len(x) + Len(y)
  BY <1>1, ConcatProperties
<1>4. \A i \in 1..Len(x) - 1 : x[i] \in S
  BY <1>1
<1>5. front \in Seq(S) /\ Len(front) = IF 1 <= Len(x) - 1 THEN (Len(x) - 1) - 1 + 1 ELSE 0
  BY <1>1, <1>4, SubSeqProperties
<1>6. Front(x) = front
  BY DEF Front
<1> HIDE DEF front
<1>7. Append(front, c) \in Seq(S) /\ Len(Append(front, c)) = Len(front) + 1
  BY <1>2, <1>5, AppendProperties
<1>8. Len(front) = IF 1 <= Len(x) THEN Len(x) - 1 ELSE 0
  BY <1>1, <1>5
<1> QED
  BY <1>3, <1>5, <1>6, <1>7, <1>8, ListedIn

LEMMA OneCell ==
    ASSUME NEW c
    PROVE  Listed(<<c>>) /\ Len(<<c>>) = 1 /\ Listed(<<>>) /\ Len(<<>>) = 0
<1>1. <<c>> \in Seq({c}) /\ <<>> \in Seq({c})
  OBVIOUS
<1> QED
  BY <1>1, ListedIn

\* vm_growstack is called until the cells fit.
LEMMA GrownIsEnough ==
    ASSUME NEW cap \in Nat \ {0}, NEW n \in Nat
    PROVE  Grown(cap, n) \in Nat \ {0} /\ n <= Grown(cap, n)
<1>1. CASE n <= cap
  BY <1>1 DEF Grown
<1>2. CASE ~ (n <= cap)
  <2> DEFINE d == (n - cap) + StackStep - 1
             q == d \div StackStep
  <2>1. d \in Nat /\ StackStep \in Nat \ {0} /\ d = (n + StackStep) - (cap + 1)
    BY <1>2, StackAssumption
  <2>2. Grown(cap, n) = cap + (StackStep * q)
    BY <1>2, StackAssumption DEF Grown
  <2> HIDE DEF d
  <2>3. q \in Nat /\ d % StackStep \in 0..StackStep - 1 /\ d = (StackStep * q) + (d % StackStep)
    BY <2>1
  <2> HIDE DEF q
  <2>4. StackStep * q \in Nat
    BY <2>1, <2>3
  <2> DEFINE m == StackStep * q
             r == d % StackStep
  <2>5. m \in Nat /\ r \in 0..StackStep - 1 /\ d = m + r
    BY <2>3, <2>4
  <2> HIDE DEF m, r
  <2>6. cap + m >= n
    BY <2>1, <2>5
  <2> QED
    BY <2>2, <2>5, <2>6 DEF m
<1> QED
  BY <1>1, <1>2
-----------------------------------------------------------------------------
\* Whatever an operation of the machine does to the iteration of its message,
\* its stack or its tries, it leaves the program counter and both words alone.
LEMMA AlikeSelf ==
    ASSUME NEW t, DOMAIN t = Fields
    PROVE  Alike(t, t)
BY DEF Alike, KeepsTheStack

LEMMA BeginKeeps ==
    ASSUME NEW t, NEW kind, DOMAIN t = Fields
    PROVE  Alike(t, Begin(t, kind))
BY DEF Alike, KeepsTheStack, Begin, Fields

LEMMA AbortKeeps ==
    ASSUME NEW t, NEW error, DOMAIN t = Fields
    PROVE  Alike(t, Abort(t, error))
BY DEF Alike, KeepsTheStack, Abort, Fields

LEMMA EndKeeps ==
    ASSUME NEW t, NEW f, DOMAIN t = Fields
    PROVE  Alike(t, End(t, f))
BY DEF Alike, KeepsTheStack, End, Fields

LEMMA SettleKeeps ==
    ASSUME NEW t, DOMAIN t = Fields
    PROVE  Alike(t, Settle(t))
<1>1. Alike(t, End(t, t.settle))
  BY EndKeeps
<1>2. ASSUME NEW u, Alike(t, u)
      PROVE  Alike(t, [u EXCEPT !.settle = "none", !.mask = 0])
  BY <1>2 DEF Alike, KeepsTheStack, Fields
<1> QED
  BY <1>1, <1>2, AlikeSelf DEF Settle

LEMMA ReadKeeps ==
    ASSUME NEW t, NEW f, NEW n, DOMAIN t = Fields
    PROVE  /\ Alike(t, ReadSome(t, f, n)) /\ Alike(t, ReadAll(t, f))
           /\ Alike(t, ReadUpTo(t, f, n))
<1>1. Alike(t, ReadSome(t, f, n))
  BY DEF Alike, KeepsTheStack, ReadSome, Fields
<1>2. Alike(t, ReadAll(t, f))
  BY DEF Alike, KeepsTheStack, ReadAll, Fields
<1> QED
  BY <1>1, <1>2 DEF ReadUpTo

LEMMA PushKeeps ==
    ASSUME NEW t, NEW cells, DOMAIN t = Fields, UnpacksArrays => Listed(cells)
    PROVE  \A u \in PushAll(t, cells) : Alike(t, u)
<1> DEFINE n == Len(t.stack) + Len(cells)
           pushed == t.stack \o cells
           grown == Grown(t.cap, n)
           u == [t EXCEPT !.stack = pushed, !.cap = grown]
<1>1. Alike(t, Abort(t, "STACK_OVERFLOW"))
  BY AbortKeeps
<1>2. ASSUME UnpacksArrays, Fits(t.stack, t.cap)
      PROVE  Fits(pushed, grown)
  <2>1. /\ Listed(cells) /\ Len(cells) \in Nat /\ Listed(t.stack) /\ Len(t.stack) \in Nat
        /\ t.cap \in Nat \ {0}
    BY <1>2, LenProperties DEF Fits, Listed
  <2>2. Listed(pushed) /\ Len(pushed) = n
    BY <2>1, ListsOfCells
  <2>3. n \in Nat
    BY <2>1
  <2> HIDE DEF n, pushed
  <2>4. grown \in Nat \ {0} /\ n <= grown
    BY <2>1, <2>3, GrownIsEnough
  <2> QED
    BY <2>2, <2>4 DEF Fits
<1> HIDE DEF pushed, grown
<1>3. DOMAIN u = Fields /\ u.pc = t.pc /\ u.ip = t.ip /\ u.np = t.np
      /\ u.stack = pushed /\ u.cap = grown
  BY DEF Fields
<1>4. PushAll(t, cells) \subseteq {u, Abort(t, "STACK_OVERFLOW")}
  BY DEF PushAll, pushed, grown
<1> HIDE DEF u
<1>5. Alike(t, u)
  BY <1>2, <1>3 DEF Alike, KeepsTheStack
<1> QED
  BY <1>1, <1>4, <1>5

\* A stack that is replaced by one that its allocation holds too.
LEMMA StackChange ==
    ASSUME NEW t, NEW x, DOMAIN t = Fields, Fits(t.stack, t.cap) => Fits(x, t.cap)
    PROVE  Alike(t, [t EXCEPT !.stack = x])
BY DEF Alike, KeepsTheStack, Fields

LEMMA TopFits ==
    ASSUME NEW stack, NEW cap, Fits(stack, cap), NEW c
    PROVE  /\ Fits(Front(stack), cap) /\ Fits(Append(Front(stack), c), cap)
           /\ Fits(<<c>>, cap) /\ Fits(<<>>, cap)
<1>1. Listed(stack) /\ cap \in Nat \ {0} /\ Len(stack) <= cap /\ Len(stack) \in Nat
  BY LenProperties DEF Fits, Listed
<1>2. Listed(Front(stack)) /\ Len(Front(stack)) \in Nat /\ Len(Front(stack)) + 1 <= cap
  BY <1>1, ListsOfCells
<1>3. /\ Listed(Append(Front(stack), c))
      /\ Len(Append(Front(stack), c)) = Len(Front(stack)) + 1
  BY <1>1, ListsOfCells
<1> QED
  BY <1>1, <1>2, <1>3, OneCell DEF Fits

LEMMA TakenKeeps ==
    ASSUME NEW t, DOMAIN t = Fields
    PROVE  Alike(t, Taken(t)) /\ Alike(t, Pop(t))
<1>1. Alike(t, Taken(t))
  BY DEF Alike, KeepsTheStack, Taken, Fields
<1> QED
  BY <1>1, TopFits, StackChange DEF Pop

LEMMA TopKeeps ==
    ASSUME NEW t, NEW b, DOMAIN t = Fields
    PROVE  Alike(t, SetTop(t, b)) /\ \A u \in Answer(t, b) : Alike(t, u)
<1>1. Alike(t, SetTop(t, b))
  BY TopFits, StackChange DEF SetTop
<1>2. Alike(t, [t EXCEPT !.stack = <<Value(b)>>])
  BY TopFits, StackChange
<1> QED
  BY <1>1, <1>2 DEF Answer

LEMMA InsertKeeps ==
    ASSUME NEW t, NEW as, DOMAIN t = Fields
    PROVE  Alike(t, Insert(t, as))
<1>1. \A x : Alike(t, [t EXCEPT !.tries = x])
  BY DEF Alike, KeepsTheStack, Fields
<1> QED
  BY <1>1 DEF Insert

LEMMA AlikeTrans ==
    ASSUME NEW t, NEW u, NEW v, Alike(t, u), Alike(u, v)
    PROVE  Alike(t, v)
BY DEF Alike, KeepsTheStack

\* An instruction has what it needs on top, or among the constants, or stops.
LEMMA GuardsKeep ==
    ASSUME NEW t, NEW after, DOMAIN t = Fields, \A u \in after : Alike(t, u)
    PROVE  /\ \A u \in OnTop(t, after) : Alike(t, u)
           /\ \A u \in OnK(t, after) : Alike(t, u)
           /\ \A u \in OnUpdate(t, after) : Alike(t, u)
BY AbortKeeps DEF OnTop, OnK, OnUpdate

LEMMA PreparedKeeps ==
    ASSUME NEW t, NEW access, DOMAIN t = Fields
    PROVE  Alike(t, Prepared(t, access))
<1> DEFINE u == IF t.ip.arg >= SETTLE THEN Settle(t) ELSE t
           kind == access[t.ip.arg % SETTLE]
<1>1. Alike(t, u)
  BY SettleKeeps, AlikeSelf
<1> HIDE DEF u
<1>2. DOMAIN u = Fields
  BY <1>1 DEF Alike
<1>3. Alike(t, Begin(u, kind)) /\ Alike(t, Abort(u, "BAD_ACCESSOR"))
  BY <1>1, <1>2, BeginKeeps, AbortKeeps, AlikeTrans
<1>4. ASSUME NEW v, Alike(t, v), NEW f, NEW mode
      PROVE  Alike(t, [v EXCEPT !.settle = f, !.mask = mode])
  BY <1>4 DEF Alike, KeepsTheStack, Fields
<1>5. Alike(t, [Begin(u, kind) EXCEPT !.settle = Flag[kind], !.mask = t.ip.arg])
  BY <1>3, <1>4
<1>6. \/ Prepared(t, access) = u
      \/ Prepared(t, access) = Abort(u, "BAD_ACCESSOR")
      \/ Prepared(t, access) =
           [Begin(u, kind) EXCEPT !.settle = Flag[kind], !.mask = t.ip.arg]
  BY DEF Prepared, u
<1> QED
  BY <1>1, <1>3, <1>5, <1>6
-----------------------------------------------------------------------------
LEMMA AlikeLands ==
    ASSUME NEW t, NEW u, NEW v, Alike(t, u), Lands(u, v)
    PROVE  Lands(t, v)
BY DEF Alike, Lands, KeepsTheStack

\* A machine that stops is off, and the next run begins with its first word.
LEMMA StoppedIsOff ==
    ASSUME NEW t, DOMAIN t = Fields
    PROVE  Lands(t, Stopped(t))
<1>1. Alike(t, Settle(t)) /\ DOMAIN Settle(t) = Fields
  BY SettleKeeps DEF Alike
<1>2. ASSUME NEW u, NEW o, DOMAIN u = Fields, KeepsTheStack(t, u)
      PROVE  /\ DOMAIN [u EXCEPT !.on = FALSE, !.out = o] = Fields
             /\ [u EXCEPT !.on = FALSE, !.out = o].on = FALSE
             /\ KeepsTheStack(t, [u EXCEPT !.on = FALSE, !.out = o])
  BY <1>2 DEF Fields, KeepsTheStack
<1> QED
  BY <1>1, <1>2 DEF Lands, Between, Stopped, Alike

LEMMA FinishedIsOff ==
    ASSUME NEW t, DOMAIN t = Fields
    PROVE  Lands(t, Finish(t))
<1> DEFINE u == Settle(t)
           done == [u EXCEPT !.on = FALSE, !.stack = Front(@),
                             !.out = IF Truth(Last(u.stack)) THEN "pass" ELSE "fail"]
<1>1. Alike(t, u) /\ DOMAIN u = Fields
  BY SettleKeeps DEF Alike
<1> HIDE DEF u
<1>2. Lands(t, done)
  <2>1. DOMAIN done = Fields /\ done.on = FALSE /\ done.stack = Front(u.stack) /\ done.cap = u.cap
    BY <1>1 DEF Fields
  <2> HIDE DEF done
  <2> QED
    BY <1>1, <2>1, TopFits DEF Lands, Between, Alike, KeepsTheStack
<1>3. \A e : Lands(t, Stopped(Abort(u, e)))
  BY <1>1, AbortKeeps, AlikeTrans, AlikeLands, StoppedIsOff DEF Alike
<1>4. \/ Finish(t) = Stopped(Abort(u, "DANGLING_BLK"))
      \/ Finish(t) = Stopped(Abort(u, "STACK_UNDERFLOW"))
      \/ Finish(t) = done
  <2>1. CASE u.curblk > 0
    BY <2>1 DEF Finish, u
  <2>2. CASE ~ (u.curblk > 0) /\ u.curblk = 0 /\ u.stack = <<>>
    BY <2>2 DEF Finish, u
  <2>3. CASE ~ (u.curblk > 0) /\ ~ (u.curblk = 0 /\ u.stack = <<>>)
    BY <2>3 DEF Finish, u
  <2> QED
    BY <2>1, <2>2, <2>3
<1> HIDE DEF done
<1> QED
  BY <1>2, <1>3, <1>4

LEMMA CodeIsWords ==
    ASSUME prog \in Programs
    PROVE  /\ Len(code) \in Nat /\ DOMAIN code = 1..Len(code)
           /\ Len(code) >= 2 /\ code[Len(code)].op = "NOT" =>
                "NOT" \notin Predicted(code[Len(code) - 1].op)
BY ProgramsAssumption DEF code

\* FETCH stands between two words again, wherever a branch has put pc.
LEMMA FetchIsBetween ==
    ASSUME NEW t, prog \in Programs, DOMAIN t = Fields, t.pc \in Nat
    PROVE  Lands(t, Fetch(t))
<1>1. CASE t.pc >= Len(code)
  BY <1>1, FinishedIsOff DEF Fetch
<1>2. CASE ~ (t.pc >= Len(code))
  <2> DEFINE np == IF t.pc + 1 < Len(code) THEN code[t.pc + 2] ELSE BAD_OPCODE
             u == [t EXCEPT !.pc = @ + 1, !.ip = code[t.pc + 1], !.np = np]
  <2>1. /\ DOMAIN u = Fields /\ u.pc = t.pc + 1 /\ u.ip = code[t.pc + 1] /\ u.np = np
        /\ u.stack = t.stack /\ u.cap = t.cap
    BY DEF Fields
  <2>2. Fetch(t) = u
    BY <1>2 DEF Fetch
  <2>3. u.pc \in 1..Len(code) /\ (u.pc < Len(code) => np = code[u.pc + 1])
    BY <1>2, <2>1, CodeIsWords
  <2>4. u.pc = Len(code) => np.op = "BAD"
    BY <2>1, CodeIsWords DEF BAD_OPCODE
  <2>5. "BAD" \notin Predicted(u.ip.op)
    BY DEF Predicted
  <2> HIDE DEF u, np
  <2> QED
    BY <2>1, <2>2, <2>3, <2>4, <2>5 DEF Lands, KeepsTheStack, Between, AtWord
<1> QED
  BY <1>1, <1>2

\* PREDICT too: only a NOT behind a word that predicts it would act on what
\* lies behind the code.
LEMMA PredictIsBetween ==
    ASSUME NEW t, prog \in Programs, DOMAIN t = Fields, AtWord(t),
           t.np.op \in Predicted(t.ip.op), NEW u \in Predict(t)
    PROVE  Lands(t, u)
<1>1. Len(code) \in Nat /\ t.pc \in 1..Len(code) /\ t.pc < Len(code)
  BY CodeIsWords DEF AtWord
<1>2. t.np = code[t.pc + 1] /\ t.ip = code[t.pc]
  BY <1>1 DEF AtWord
<1> DEFINE W == IF t.pc + 1 < Len(code) THEN {code[t.pc + 2]} ELSE Behind
           Moved(w) == [t EXCEPT !.ip = t.np, !.pc = @ + 1, !.np = w]
<1>3. PICK w \in W : u = Moved(w)
  <2>1. ~ (t.pc >= Len(code))
    BY <1>1
  <2>2. u \in {Moved(w) : w \in W}
    BY <2>1, Zenon DEF Predict
  <2> HIDE DEF W, Moved
  <2> QED
    BY <2>2
<1>4. /\ DOMAIN u = Fields /\ u.pc = t.pc + 1 /\ u.ip = t.np /\ u.np = w
      /\ u.stack = t.stack /\ u.cap = t.cap
  BY <1>3 DEF Fields
<1>5. u.pc \in 1..Len(code) /\ u.ip = code[u.pc]
  BY <1>1, <1>2, <1>4
<1>6. ASSUME u.pc < Len(code) PROVE u.np = code[u.pc + 1]
  BY <1>1, <1>3, <1>4, <1>6
<1>7. ASSUME u.pc = Len(code) PROVE u.np.op \notin Predicted(u.ip.op)
  <2>1. u.ip.op \in {"CPASS", "NOT", "LOADK", "LOAD", "CALL", "CFAIL"}
    BY <1>4 DEF Predicted
  <2>2. u.ip.op # "NOT"
    <3>1. Len(code) >= 2 /\ t.pc = Len(code) - 1
      BY <1>1, <1>4, <1>7
    <3>2. code[Len(code)].op \in Predicted(code[Len(code) - 1].op)
      BY <1>2, <1>5, <1>7, <1>4, <3>1
    <3> QED
      BY <1>5, <1>7, <3>1, <3>2, CodeIsWords
  <2> QED
    BY <2>1, <2>2 DEF Predicted
<1> QED
  BY <1>4, <1>5, <1>6, <1>7 DEF Lands, KeepsTheStack, Between, AtWord

\* Whatever an instruction leaves, what comes next stands between two words.
LEMMA GoesIsBetween ==
    ASSUME NEW t, prog \in Programs, DOMAIN t = Fields, AtWord(t), NEW u \in Goes(t)
    PROVE  Lands(t, u)
<1>1. CASE t.error # "none"
  <2>1. u = Stopped(t)
    BY <1>1 DEF Goes
  <2> QED
    BY <2>1, StoppedIsOff
<1>2. CASE t.error = "none" /\ t.np.op \in Predicted(t.ip.op)
  <2>1. u \in Predict(t)
    BY <1>2 DEF Goes
  <2> QED
    BY <1>2, <2>1, PredictIsBetween
<1>3. CASE t.error = "none" /\ t.np.op \notin Predicted(t.ip.op)
  <2>1. u = Fetch(t)
    BY <1>3 DEF Goes
  <2>2. t.pc \in Nat
    BY CodeIsWords DEF AtWord
  <2> QED
    BY <2>1, <2>2, FetchIsBetween
<1> QED
  BY <1>1, <1>2, <1>3

LEMMA AlikeGoes ==
    ASSUME NEW t, NEW v, prog \in Programs, DOMAIN t = Fields, AtWord(t), Alike(t, v)
    PROVE  \A u \in Goes(v) : Lands(t, u)
<1>1. DOMAIN v = Fields /\ AtWord(v)
  BY DEF Alike, AtWord
<1> QED
  BY <1>1, GoesIsBetween, AlikeLands

LEMMA LandsKeeps ==
    ASSUME IInv, UNCHANGED <<prog, msg, runs>>, s.on, Lands(s, s')
    PROVE  Kept
BY DEF IInv, Lands, Kept, KeepsTheStack, Between, AtWord, code

\* One instruction, whose effect leaves the words alone.
LEMMA DoKeeps ==
    ASSUME NEW op, NEW STATE after, IInv, Do(op, after), \A t \in after : Alike(s, t)
    PROVE  Kept
<1>1. /\ DOMAIN s = Fields /\ AtWord(s) /\ prog \in Programs
      /\ UNCHANGED <<prog, msg, runs>> /\ s.on
  BY DEF IInv, Between, Do
<1>2. PICK t \in after : s' \in Goes(t)
  BY DEF Do
<1>3. Lands(s, s')
  BY <1>1, <1>2, AlikeGoes
<1> QED
  BY <1>1, <1>3, LandsKeeps
-----------------------------------------------------------------------------
\* The instructions, in the order of the specification.
LEMMA InitIsBetween ==
    ASSUME Init
    PROVE  IInv
BY DEF Init, IInv, Between, Fields

LEMMA InitIsEmpty ==
    ASSUME Init
    PROVE  Fits(s.stack, s.cap)
<1> DEFINE none == <<>>
<1>1. PICK tries : s =
        [on |-> FALSE, out |-> "none", error |-> "none",
            pc |-> 0, ip |-> BAD_OPCODE, np |-> BAD_OPCODE,
            stack |-> none, cap |-> StackBuf, curblk |-> 0, exarg |-> 0,
            mask |-> 0, settle |-> "none", cur |-> 1, cur6 |-> 2,
            tries |-> tries, kind |-> "none", at |-> 0, err |-> FALSE]
  BY DEF Init
<1>2. Fits(none, StackBuf)
  <2>1. Listed(none) /\ Len(none) = 0
    BY OneCell
  <2> HIDE DEF none
  <2> QED
    BY <2>1, StackAssumption DEF Fits
<1> HIDE DEF none
<1>3. s.stack = none /\ s.cap = StackBuf
  BY <1>1
<1> QED
  BY <1>2, <1>3

LEMMA StartKeeps ==
    ASSUME IInv, NEW m \in Messages, NEW again \in BOOLEAN, Start(m, again)
    PROVE  Kept
<1> DEFINE u == [s EXCEPT !.on = TRUE, !.out = "none", !.error = "none",
                       !.pc = 0, !.stack = <<>>, !.curblk = 0, !.exarg = 0,
                       !.cur = 1, !.cur6 = 2, !.tries[1].set = {}, !.tries[2].set = {},
                       !.kind = IF again THEN @ ELSE "none", !.at = 0,
                       !.err = again /\ @]
<1>1. DOMAIN u = Fields /\ u.pc = 0 /\ u.stack = <<>> /\ u.cap = s.cap /\ s' = Fetch(u)
  <2>1. DOMAIN s = Fields
    BY DEF IInv, Between
  <2>2. DOMAIN u = Fields /\ u.pc = 0 /\ u.stack = <<>> /\ u.cap = s.cap
    BY <2>1 DEF Fields
  <2>3. s' = Fetch(u)
    BY Zenon DEF Start
  <2> QED
    BY <2>2, <2>3
<1> HIDE DEF u
<1>2. prog \in Programs /\ prog' = prog /\ msg' \in Messages
  BY DEF IInv, Start
<1>3. Lands(u, s')
  BY <1>1, <1>2, FetchIsBetween
<1>4. IInv'
  BY <1>2, <1>3 DEF IInv, Lands, Between, AtWord, code
<1>5. KeepsTheStack(s, s')
  BY <1>1, <1>3, TopFits DEF Lands, KeepsTheStack
<1> QED
  BY <1>4, <1>5 DEF Kept, KeepsTheStack

LEMMA PlainKeeps ==
    ASSUME IInv, NOP \/ EXARG \/ BLK \/ ENDBLK \/ CLRTRIE \/ CLRTRIE6 \/ SETTLE_ \/ SIGILL
    PROVE  Kept
<1>1. DOMAIN s = Fields
  BY DEF IInv, Between
<1>2. CASE NOP
  BY <1>1, <1>2, AlikeSelf, DoKeeps DEF NOP
<1>3. CASE EXARG
  <2>1. Alike(s, [s EXCEPT !.exarg = Arg(s)])
    BY <1>1 DEF Alike, KeepsTheStack, Fields
  <2> QED
    BY <1>3, <2>1, DoKeeps DEF EXARG
<1>4. CASE BLK
  <2>1. Alike(s, [s EXCEPT !.curblk = @ + 1])
    BY <1>1 DEF Alike, KeepsTheStack, Fields
  <2> QED
    BY <1>4, <2>1, DoKeeps DEF BLK
<1>5. CASE ENDBLK
  <2>1. Alike(s, [s EXCEPT !.curblk = @ - 1])
    BY <1>1 DEF Alike, KeepsTheStack, Fields
  <2> QED
    BY <1>1, <1>5, <2>1, AbortKeeps, DoKeeps DEF ENDBLK
<1>6. CASE CLRTRIE
  <2>1. Alike(s, [s EXCEPT !.tries[s.cur].set = {}])
    BY <1>1 DEF Alike, KeepsTheStack, Fields
  <2> QED
    BY <1>6, <2>1, DoKeeps DEF CLRTRIE
<1>7. CASE CLRTRIE6
  <2>1. Alike(s, [s EXCEPT !.tries[s.cur6].set = {}])
    BY <1>1 DEF Alike, KeepsTheStack, Fields
  <2> QED
    BY <1>7, <2>1, DoKeeps DEF CLRTRIE6
<1>8. CASE SETTLE_
  BY <1>1, <1>8, SettleKeeps, DoKeeps DEF SETTLE_
<1>9. CASE SIGILL
  BY <1>1, <1>9, AbortKeeps, DoKeeps DEF SIGILL
<1> QED
  BY <1>2, <1>3, <1>4, <1>5, <1>6, <1>7, <1>8, <1>9

LEMMA StackKeeps ==
    ASSUME IInv, LOAD \/ LOADK \/ UNPACK \/ NOT
    PROVE  Kept
<1>1. DOMAIN s = Fields /\ DOMAIN Taken(s) = Fields /\ DOMAIN Pop(s) = Fields
      /\ Alike(s, Taken(s)) /\ Alike(s, Pop(s))
  BY TakenKeeps DEF IInv, Between, Alike
<1>2. ASSUME NEW cells, UnpacksArrays => Listed(cells)
      PROVE  \A t \in PushAll(Taken(s), cells) \cup PushAll(Pop(s), cells) : Alike(s, t)
  BY <1>1, <1>2, PushKeeps, AlikeTrans
<1>3. CASE LOAD
  <2>1. \A t \in PushAll(Taken(s), <<[value |-> Arg(s)]>>) : Alike(s, t)
    BY <1>2, OneCell
  <2> QED
    BY <1>3, <2>1, DoKeeps DEF LOAD
<1>4. CASE LOADK
  <2> DEFINE after == PushAll(Taken(s), <<K[Arg(s)]>>)
  <2>1. \A t \in after : Alike(s, t)
    BY <1>2, OneCell
  <2> HIDE DEF after
  <2>2. \A t \in OnK(s, after) : Alike(s, t)
    BY <1>1, <2>1, GuardsKeep
  <2>3. Do("LOADK", OnK(s, after))
    BY <1>4 DEF LOADK, after
  <2> QED
    BY <2>2, <2>3, DoKeeps
<1>5. CASE UNPACK
  <2> DEFINE after == IF ~Top(s).fits THEN {Abort(Pop(s), "BAD_ARRAY")}
                      ELSE PushAll(Pop(s), Top(s).array)
  <2>1. Alike(s, Abort(Pop(s), "BAD_ARRAY"))
    BY <1>1, AbortKeeps, AlikeTrans
  <2>2. ASSUME s.stack # <<>> PROVE \A t \in after : Alike(s, t)
    <3>1. CASE ~Top(s).fits
      BY <2>1, <3>1
    <3>2. CASE Top(s).fits
      <4>1. UnpacksArrays => Listed(Top(s).array)
        BY <1>5, <2>2, <3>2 DEF UnpacksArrays, UNPACK, Do
      <4> QED
        BY <1>2, <3>2, <4>1
    <3> QED
      BY <3>1, <3>2
  <2> HIDE DEF after
  <2>3. \A t \in OnTop(s, after) : Alike(s, t)
    BY <1>1, <2>2, AbortKeeps DEF OnTop
  <2>4. Do("UNPACK", OnTop(s, after))
    BY <1>5 DEF UNPACK, after
  <2> QED
    BY <2>3, <2>4, DoKeeps
<1>6. CASE NOT
  <2> DEFINE after == {SetTop(s, ~Truth(Top(s)))}
  <2>1. \A t \in after : Alike(s, t)
    BY <1>1, TopKeeps
  <2> HIDE DEF after
  <2>2. \A t \in OnTop(s, after) : Alike(s, t)
    BY <1>1, <2>1, GuardsKeep
  <2>3. Do("NOT", OnTop(s, after))
    BY <1>6 DEF NOT, after
  <2> QED
    BY <2>2, <2>3, DoKeeps
<1> QED
  BY <1>3, <1>4, <1>5, <1>6

\* A branch leaves pc in front of an ENDBLK or behind the code, and the word
\* that was prefetched with it is fetched anew.
LEMMA BreakIsInCode ==
    ASSUME NEW t, prog \in Programs, DOMAIN t = Fields, t.pc \in Nat
    PROVE  /\ DOMAIN Break(t) = Fields /\ Break(t).pc \in Nat
           /\ KeepsTheStack(t, Break(t))
<1> DEFINE Depth(i) == 1 + Cardinality({j \in t.pc + 1 .. i : Opens(code[j])})
                         - Cardinality({j \in t.pc + 1 .. i : Closes(code[j])})
           ends == {i \in t.pc + 1 .. Len(code) : Depth(i) = 0}
           pc == IF ends = {} THEN Len(code) ELSE Min(ends) - 1
<1>1. Break(t) = [t EXCEPT !.pc = pc]
  BY DEF Break
<1>2. ends \subseteq t.pc + 1 .. Len(code)
  OBVIOUS
<1> HIDE DEF ends
<1>3. Len(code) \in Nat
  BY CodeIsWords
<1>4. ASSUME ends # {} PROVE Min(ends) - 1 \in Nat
  <2>1. ends \in SUBSET Nat /\ \A i \in ends : i >= 1
    BY <1>2, <1>3
  <2>2. Min(ends) \in ends
    BY <1>4, <2>1, MinIsLeast
  <2>3. Min(ends) \in Nat /\ Min(ends) >= 1
    BY <2>1, <2>2, Zenon
  <2> QED
    BY <2>3
<1>5. pc \in Nat
  BY <1>3, <1>4
<1> HIDE DEF pc
<1> QED
  BY <1>1, <1>5 DEF Fields, KeepsTheStack

LEMMA ConditionalKeeps ==
    ASSUME IInv, NEW op, NEW STATE t, Alike(s, t), Conditional(op, t)
    PROVE  Kept
<1>1. /\ DOMAIN s = Fields /\ AtWord(s) /\ prog \in Programs
      /\ UNCHANGED <<prog, msg, runs>> /\ s.on
  BY DEF IInv, Between, Conditional
<1>2. DOMAIN t = Fields /\ t.pc \in Nat
  BY <1>1, CodeIsWords DEF Alike, AtWord
<1>3. Lands(s, Stopped(Abort(s, "STACK_UNDERFLOW")))
  BY <1>1, AbortKeeps, AlikeLands, StoppedIsOff DEF Alike
<1>4. Lands(s, Exits(t))
  <2>1. Lands(t, Finish(t))
    BY <1>2, FinishedIsOff
  <2>2. Lands(Break(t), Fetch(Break(t)))
    BY <1>1, <1>2, BreakIsInCode, FetchIsBetween
  <2>3. Lands(t, Fetch(Break(t)))
    BY <1>1, <1>2, <2>2, BreakIsInCode DEF Lands, KeepsTheStack
  <2>4. Lands(t, Exits(t))
    BY <2>1, <2>3 DEF Exits
  <2> QED
    BY <2>4, AlikeLands
<1>5. \A u \in Goes(Pop(s)) : Lands(s, u)
  BY <1>1, TakenKeeps, AlikeGoes
<1>6. \/ s' = Stopped(Abort(s, "STACK_UNDERFLOW")) \/ s' = Exits(t) \/ s' \in Goes(Pop(s))
  BY DEF Conditional
<1>7. Lands(s, s')
  BY <1>3, <1>4, <1>5, <1>6
<1> QED
  BY <1>1, <1>7, LandsKeeps

LEMMA BranchKeeps ==
    ASSUME IInv, CPASS \/ CFAIL
    PROVE  Kept
<1>1. Alike(s, s) /\ Alike(s, SetTop(s, FALSE))
  BY TopKeeps, AlikeSelf DEF IInv, Between
<1> QED
  BY <1>1, ConditionalKeeps DEF CPASS, CFAIL

LEMMA SelectKeeps ==
    ASSUME IInv, NEW op, NEW family \in {4, 6}, SelectTrie(op, family)
    PROVE  Kept
<1> DEFINE i == Arg(s) + 1
           t == IF family = 4 THEN [Taken(s) EXCEPT !.cur = i] ELSE [Taken(s) EXCEPT !.cur6 = i]
           after == IF i > Len(s.tries) THEN {Abort(s, "TRIE_UNDEFINED")}
                    ELSE {IF s.tries[i].family = family THEN t ELSE Abort(t, "TRIE_MISMATCH")}
<1>1. DOMAIN s = Fields /\ DOMAIN Taken(s) = Fields /\ Alike(s, Taken(s))
  BY TakenKeeps DEF IInv, Between, Alike
<1>2. ASSUME NEW u, Alike(s, u), NEW x
      PROVE  Alike(s, [u EXCEPT !.cur = x]) /\ Alike(s, [u EXCEPT !.cur6 = x])
  BY <1>2 DEF Alike, KeepsTheStack, Fields
<1>3. Alike(s, t) /\ DOMAIN t = Fields
  BY <1>1, <1>2 DEF Alike
<1> HIDE DEF t, i
<1>4. Alike(s, Abort(s, "TRIE_UNDEFINED")) /\ Alike(s, Abort(t, "TRIE_MISMATCH"))
  BY <1>1, <1>3, AbortKeeps, AlikeTrans
<1>5. \A u \in after : Alike(s, u)
  BY <1>3, <1>4
<1>6. Do(op, after)
  BY DEF SelectTrie, t, i
<1> HIDE DEF after
<1> QED
  BY <1>5, <1>6, DoKeeps

LEMMA TrieKeeps ==
    ASSUME IInv, STORE \/ DISCARD \/ SETTRIE \/ SETTRIE6
    PROVE  Kept
<1>1. DOMAIN s = Fields /\ DOMAIN Pop(s) = Fields /\ Alike(s, Pop(s))
  BY TakenKeeps DEF IInv, Between, Alike
<1>2. CASE STORE
  <2> DEFINE after == {Insert(Pop(s), {Top(s).addr}), Abort(Pop(s), "OUT_OF_MEMORY")}
  <2>1. \A t \in after : Alike(s, t)
    BY <1>1, InsertKeeps, AbortKeeps, AlikeTrans
  <2> HIDE DEF after
  <2>2. \A t \in OnTop(s, after) : Alike(s, t)
    BY <1>1, <2>1, GuardsKeep
  <2>3. Do("STORE", OnTop(s, after))
    BY <1>2 DEF STORE, after
  <2> QED
    BY <2>2, <2>3, DoKeeps
<1>3. CASE DISCARD
  <2> DEFINE a == Top(s).addr
             after == {[Pop(s) EXCEPT !.tries[TrieOf(s, a)].set = @ \ {a}]}
  <2>1. \A t \in after : Alike(s, t)
    <3>1. ASSUME NEW u, Alike(s, u), NEW i, NEW b
          PROVE  Alike(s, [u EXCEPT !.tries[i].set = @ \ {b}])
      BY <3>1 DEF Alike, KeepsTheStack, Fields
    <3> QED
      BY <1>1, <3>1
  <2> HIDE DEF after
  <2>2. \A t \in OnTop(s, after) : Alike(s, t)
    BY <1>1, <2>1, GuardsKeep
  <2>3. Do("DISCARD", OnTop(s, after))
    BY <1>3 DEF DISCARD, after
  <2> QED
    BY <2>2, <2>3, DoKeeps
<1> QED
  BY <1>2, <1>3, SelectKeeps DEF SETTRIE, SETTRIE6

LEMMA CompareKeeps ==
    ASSUME IInv, NEW op, NEW how, Compare(op, how) \/ AnyOf(op, how)
    PROVE  Kept
<1>1. DOMAIN s = Fields /\ DOMAIN Taken(s) = Fields /\ Alike(s, Taken(s))
  BY TakenKeeps DEF IInv, Between, Alike
<1>2. CASE Compare(op, how)
  <2> DEFINE after == {SetTop(Taken(s), Same(Top(s), K[Arg(s)], how))}
  <2>1. \A t \in after : Alike(s, t)
    BY <1>1, TopKeeps, AlikeTrans
  <2> HIDE DEF after
  <2>2. \A t \in OnK(s, OnTop(s, after)) : Alike(s, t)
    BY <1>1, <2>1, GuardsKeep
  <2>3. Do(op, OnK(s, OnTop(s, after)))
    BY <1>2 DEF Compare, after
  <2> QED
    BY <2>2, <2>3, DoKeeps
<1>3. CASE AnyOf(op, how)
  <2> DEFINE after == Answer(Taken(s), \E i \in DOMAIN s.stack : Same(K[Arg(s)], s.stack[i], how))
  <2>1. \A t \in after : Alike(s, t)
    BY <1>1, TopKeeps, AlikeTrans
  <2> HIDE DEF after
  <2>2. \A t \in OnK(s, after) : Alike(s, t)
    BY <1>1, <2>1, GuardsKeep
  <2>3. Do(op, OnK(s, after))
    BY <1>3 DEF AnyOf, after
  <2> QED
    BY <2>2, <2>3, DoKeeps
<1> QED
  BY <1>2, <1>3

LEMMA HasAttrKeeps ==
    ASSUME IInv, HASATTR
    PROVE  Kept
<1> DEFINE t == Settle(s)
           u == IF t.ip.arg \in Notable \/ t.err THEN t ELSE [t EXCEPT !.kind = "none"]
           after == PushValue(u, ~t.err /\ t.ip.arg \in msg.attrs)
<1>1. DOMAIN s = Fields /\ Alike(s, t)
  BY SettleKeeps DEF IInv, Between
<1> HIDE DEF t
<1>2. Alike(s, u)
  BY <1>1 DEF Alike, KeepsTheStack, Fields
<1> HIDE DEF u
<1>3. \A v \in after : Alike(s, v)
  BY <1>2, OneCell, PushKeeps, AlikeTrans DEF PushValue, Alike
<1> HIDE DEF after
<1>4. \A v \in OnUpdate(s, after) : Alike(s, v)
  BY <1>1, <1>3, GuardsKeep
<1>5. Do("HASATTR", OnUpdate(s, after))
  BY DEF HASATTR, t, u, after
<1> QED
  BY <1>4, <1>5, DoKeeps

LEMMA SearchKeeps ==
    ASSUME IInv, NEW op, Search(op)
    PROVE  Kept
<1> DEFINE t == Prepared(s, AddrAccess)
           f == IF s.ip.arg % 2 = 1 THEN "F_NLRI" ELSE "F_WITHDRN"
           rest == Rest(t, f)
           hits == {i \in DOMAIN rest :
                      \E p \in t.tries[TrieOf(t, rest[i])].set : Related(op, p, rest[i])}
           after == CASE t.error # "none" -> {t}
                      [] t.error = "none" /\ hits = {} -> PushValue(ReadAll(t, f), FALSE)
                      [] OTHER -> PushValue(ReadSome(t, f, Min(hits)), TRUE)
<1>1. Do(op, OnUpdate(s, after))
  BY Zenon DEF Search
<1>2. DOMAIN s = Fields /\ Alike(s, t) /\ DOMAIN t = Fields
  BY PreparedKeeps DEF IInv, Between, Alike
<1> HIDE DEF t, f, hits
<1>3. /\ Alike(s, ReadAll(t, f)) /\ DOMAIN ReadAll(t, f) = Fields
      /\ Alike(s, ReadSome(t, f, Min(hits))) /\ DOMAIN ReadSome(t, f, Min(hits)) = Fields
  BY <1>2, ReadKeeps, AlikeTrans DEF Alike
<1>4. /\ \A v \in PushValue(ReadAll(t, f), FALSE) : Alike(s, v)
      /\ \A v \in PushValue(ReadSome(t, f, Min(hits)), TRUE) : Alike(s, v)
  BY <1>3, OneCell, PushKeeps, AlikeTrans DEF PushValue
<1>5. \A v \in after : Alike(s, v)
  <2>1. \/ after = {t} \/ after = PushValue(ReadAll(t, f), FALSE)
        \/ after = PushValue(ReadSome(t, f, Min(hits)), TRUE)
    OBVIOUS
  <2> HIDE DEF after
  <2> QED
    BY <1>2, <1>4, <2>1
<1> HIDE DEF after
<1>6. \A v \in OnUpdate(s, after) : Alike(s, v)
  BY <1>2, <1>5, GuardsKeep
<1> QED
  BY <1>1, <1>6, DoKeeps

\* n entries of the path are read and b is the answer.
LEMMA PathAnswers ==
    ASSUME NEW t, NEW u, NEW f, NEW n, NEW b, DOMAIN t = Fields, Alike(t, u)
    PROVE  \A v \in OnUpdate(t, IF u.error # "none" THEN {u} ELSE Answer(ReadUpTo(u, f, n), b)) :
               Alike(t, v)
<1> DEFINE after == IF u.error # "none" THEN {u} ELSE Answer(ReadUpTo(u, f, n), b)
<1>1. Alike(t, ReadUpTo(u, f, n)) /\ DOMAIN ReadUpTo(u, f, n) = Fields
  BY ReadKeeps, AlikeTrans DEF Alike
<1>2. \A v \in Answer(ReadUpTo(u, f, n), b) : Alike(t, v)
  BY <1>1, TopKeeps, AlikeTrans
<1>3. \A v \in after : Alike(t, v)
  BY <1>2
<1> HIDE DEF after
<1>4. \A v \in OnUpdate(t, after) : Alike(t, v)
  BY <1>3, GuardsKeep
<1> QED
  BY <1>4 DEF after

LEMMA PathKeeps ==
    ASSUME IInv, ASPMATCH \/ ASPSTARTS \/ ASPENDS \/ ASPEXACT
    PROVE  Kept
<1> DEFINE t == Prepared(s, PathAccess)
           r == Rest(t, "F_ASPATH")
           After(n, b) ==
             OnUpdate(s, IF t.error # "none" THEN {t} ELSE Answer(ReadUpTo(t, "F_ASPATH", n), b))
<1>1. \A n, b : \A v \in After(n, b) : Alike(s, v)
  <2>1. DOMAIN s = Fields /\ Alike(s, t)
    BY PreparedKeeps DEF IInv, Between
  <2> HIDE DEF t
  <2> QED
    BY <2>1, PathAnswers
<1>2. \E op, n, b : Do(op, After(n, b))
  <2>1. CASE ASPMATCH
    <3>1. Do("ASPMATCH", After(IF Matches(t, r) = {} THEN Len(r) + 1
                               ELSE Min(Matches(t, r)) + Len(t.stack), Matches(t, r) # {}))
      BY <2>1, Zenon DEF ASPMATCH, PathOp
    <3> QED
      BY <3>1, Zenon
  <2>2. CASE ASPSTARTS
    <3>1. Do("ASPSTARTS", After(IF Starts(t, r) THEN Len(t.stack) ELSE Agree(t, r, 0) + 1,
                                Starts(t, r)))
      BY <2>2, Zenon DEF ASPSTARTS, PathOp
    <3> QED
      BY <3>1, Zenon
  <2>3. CASE ASPENDS
    <3>1. Do("ASPENDS", After(Len(r) + 1, Ends(t, r)))
      BY <2>3, Zenon DEF ASPENDS, PathOp
    <3> QED
      BY <3>1, Zenon
  <2>4. CASE ASPEXACT
    <3>1. Do("ASPEXACT", After(IF Starts(t, r) THEN Len(t.stack) + 1 ELSE Agree(t, r, 0) + 2,
                               Starts(t, r) /\ Len(r) = Len(t.stack)))
      BY <2>4, Zenon DEF ASPEXACT, PathOp
    <3> QED
      BY <3>1, Zenon
  <2> QED
    BY <2>1, <2>2, <2>3, <2>4
<1> HIDE DEF After
<1> QED
  BY <1>1, <1>2, DoKeeps

LEMMA CommunitiesKeep ==
    ASSUME IInv, COMMEXACT
    PROVE  Kept
<1> DEFINE t == Begin(s, "communities")
           f == "F_COMMUNITY"
           Read(all, n) == IF all THEN ReadAll(t, f) ELSE ReadUpTo(t, f, n)
           After(all, n, b) == Answer(End(Read(all, n), f), b)
<1>1. PICK all, n, b : Do("COMMEXACT", OnUpdate(s, After(all, n, b)))
  BY DEF COMMEXACT
<1>2. DOMAIN s = Fields /\ Alike(s, t) /\ DOMAIN t = Fields
  BY BeginKeeps DEF IInv, Between, Alike
<1> HIDE DEF t, f
<1>3. Alike(s, Read(all, n)) /\ DOMAIN Read(all, n) = Fields
  BY <1>2, ReadKeeps, AlikeTrans DEF Alike
<1> HIDE DEF Read
<1>4. Alike(s, End(Read(all, n), f)) /\ DOMAIN End(Read(all, n), f) = Fields
  BY <1>3, EndKeeps, AlikeTrans DEF Alike
<1>5. \A v \in After(all, n, b) : Alike(s, v)
  BY <1>4, TopKeeps, AlikeTrans
<1> HIDE DEF After
<1>6. \A v \in OnUpdate(s, After(all, n, b)) : Alike(s, v)
  BY <1>2, <1>5, GuardsKeep
<1> QED
  BY <1>1, <1>6, DoKeeps

\* A function is given the whole list it is called for, or none.
LEMMA RestIsListed ==
    ASSUME NEW i \in DOMAIN Fns, DOMAIN s = Fields, msg \in Messages
    PROVE  LET rest == Rest(Begin(s, Fns[i].list), Flag[Fns[i].list])
           IN  Listed([j \in DOMAIN rest |-> [addr |-> rest[j]]])
<1> DEFINE list == msg.lists[Fns[i].list]
           t == Begin(s, Fns[i].list)
           f == Flag[Fns[i].list]
           rest == Rest(t, f)
           cells == [j \in DOMAIN rest |-> [addr |-> rest[j]]]
<1>1. Listed(list)
  BY MessagesAssumption DEF Listed
<1>2. ASSUME Refused(t, f) PROVE Listed(rest)
  BY <1>2, OneCell DEF Rest
<1>3. ASSUME ~Refused(t, f) PROVE Listed(rest)
  <2>1. ~t.err
    BY <1>3 DEF Refused
  <2>2. t.kind = Fns[i].list /\ t.at = 0
    BY <2>1 DEF Begin, Fields
  <2>3. rest = SubSeq(list, t.at + 1, Len(list))
    BY <1>3, <2>2 DEF Rest
  <2>4. t.at + 1 = 1
    BY <2>2
  <2> HIDE DEF list, t, rest
  <2>5. SubSeq(list, 1, Len(list)) = list
    BY <1>1, SubSeqFull DEF Listed
  <2> QED
    BY <1>1, <2>3, <2>4, <2>5
<1>4. Listed(rest)
  BY <1>2, <1>3
<1> HIDE DEF rest
<1>5. Len(rest) \in Nat /\ DOMAIN rest = 1..Len(rest)
  BY <1>4, LenProperties DEF Listed
<1>6. cells \in [1..Len(rest) -> {cells[j] : j \in 1..Len(rest)}]
  BY <1>5
<1> DEFINE S == {cells[j] : j \in 1..Len(rest)}
           n == Len(rest)
<1>7. cells \in [1..n -> S] /\ n \in Nat
  BY <1>5, <1>6
<1> HIDE DEF cells, S, n
<1>8. cells \in Seq(S)
  BY <1>7, SeqDef
<1>9. Listed(cells)
  BY <1>8, ListedIn
<1> QED
  BY <1>9 DEF cells, rest, t, f

LEMMA CollectKeeps ==
    ASSUME NEW i \in DOMAIN Fns, DOMAIN s = Fields, msg \in Messages
    PROVE  \A v \in Collect(Fns[i]) : Alike(s, v)
<1> DEFINE fn == Fns[i]
           t == Begin(s, fn.list)
           f == Flag[fn.list]
           rest == Rest(t, f)
           done == End(ReadAll(t, f), f)
           u == IF done.err THEN Abort(done, "BAD_PACKET") ELSE Taken(done)
           last == Abort(t, "OUT_OF_MEMORY")
           after == IF fn.insert
                      THEN {Insert(u, ToSet(rest))} \cup IF rest # <<>> THEN {last} ELSE {}
                      ELSE PushAll(u, [j \in DOMAIN rest |-> [addr |-> rest[j]]])
<1>1. Collect(fn) = OnUpdate(s, after)
  BY Zenon DEF Collect
<1>2. Alike(s, t) /\ DOMAIN t = Fields
  BY BeginKeeps DEF Alike
<1> DEFINE cells == [j \in DOMAIN rest |-> [addr |-> rest[j]]]
<1>9. Listed(cells)
  BY RestIsListed
<1> HIDE DEF t, f, rest, fn
<1>3. Alike(s, ReadAll(t, f)) /\ DOMAIN ReadAll(t, f) = Fields
  <2>1. Alike(t, ReadSome(t, f, 0)) /\ Alike(t, ReadAll(t, f))
    BY <1>2, ReadKeeps
  <2> QED
    BY <1>2, <2>1, AlikeTrans DEF Alike
<1>4. Alike(s, done) /\ DOMAIN done = Fields
  BY <1>3, EndKeeps, AlikeTrans DEF Alike
<1> HIDE DEF done
<1>5. Alike(s, u) /\ DOMAIN u = Fields
  BY <1>4, AbortKeeps, TakenKeeps, AlikeTrans DEF Alike
<1> HIDE DEF u
<1>6. Alike(s, last) /\ Alike(s, Insert(u, ToSet(rest)))
  BY <1>2, <1>5, AbortKeeps, InsertKeeps, AlikeTrans
<1> HIDE DEF last
<1>7. \A v \in PushAll(u, cells) : Alike(s, v)
  BY <1>5, <1>9, PushKeeps, AlikeTrans
<1>8. \A v \in after : Alike(s, v)
  <2>1. CASE fn.insert
    BY <1>6, <2>1
  <2>2. CASE ~fn.insert
    <3>1. after = PushAll(u, cells)
      BY <2>2
    <3> HIDE DEF after
    <3> QED
      BY <1>7, <3>1
  <2> QED
    BY <2>1, <2>2
<1> HIDE DEF after
<1> QED
  BY <1>1, <1>8, GuardsKeep DEF fn

LEMMA CallKeeps ==
    ASSUME IInv, CALL
    PROVE  Kept
<1> DEFINE after == CASE Arg(s) \in DOMAIN Fns -> Collect(Fns[Arg(s)])
                      [] Arg(s) \in DOMAIN UserFns -> PushValue(Taken(s), msg \in UserFns[Arg(s)])
                      [] OTHER -> {Abort(s, "FUNC_UNDEFINED")}
<1>1. DOMAIN s = Fields /\ DOMAIN Taken(s) = Fields /\ Alike(s, Taken(s))
  BY TakenKeeps DEF IInv, Between, Alike
<1>2. \/ Arg(s) \in DOMAIN Fns /\ after = Collect(Fns[Arg(s)])
      \/ after = PushValue(Taken(s), msg \in UserFns[Arg(s)])
      \/ after = {Abort(s, "FUNC_UNDEFINED")}
  OBVIOUS
<1>3. Do("CALL", after) /\ msg \in Messages
  BY DEF CALL, Do, IInv
<1> HIDE DEF after
<1>4. CASE Arg(s) \in DOMAIN Fns /\ after = Collect(Fns[Arg(s)])
  BY <1>1, <1>3, <1>4, CollectKeeps, DoKeeps
<1>5. CASE after = PushValue(Taken(s), msg \in UserFns[Arg(s)])
  <2>1. \A c : \A v \in PushAll(Taken(s), <<c>>) : Alike(s, v)
    BY <1>1, OneCell, PushKeeps, AlikeTrans
  <2>2. \A v \in after : Alike(s, v)
    BY <1>5, <2>1 DEF PushValue
  <2> QED
    BY <1>3, <2>2, DoKeeps
<1>6. CASE after = {Abort(s, "FUNC_UNDEFINED")}
  <2>1. \A v \in after : Alike(s, v)
    BY <1>1, <1>6, AbortKeeps
  <2> QED
    BY <1>3, <2>1, DoKeeps
<1> QED
  BY <1>2, <1>4, <1>5, <1>6
-----------------------------------------------------------------------------
LEMMA NextKeeps ==
    ASSUME IInv, [Next]_vars
    PROVE  Kept
<1>1. CASE \E m \in Messages, again \in BOOLEAN : Start(m, again)
  BY <1>1, StartKeeps
<1>2. CASE NOP \/ EXARG \/ BLK \/ ENDBLK \/ CLRTRIE \/ CLRTRIE6 \/ SETTLE_ \/ SIGILL
  BY <1>2, PlainKeeps
<1>3. CASE LOAD \/ LOADK \/ UNPACK \/ NOT
  BY <1>3, StackKeeps
<1>4. CASE CPASS \/ CFAIL
  BY <1>4, BranchKeeps
<1>5. CASE STORE \/ DISCARD \/ SETTRIE \/ SETTRIE6
  BY <1>5, TrieKeeps
<1>6. CASE PFXCMP \/ ADDRCMP \/ ASCMP \/ PFXCONTAINS \/ ADDRCONTAINS \/ ASCONTAINS
  BY <1>6, CompareKeeps
     DEF PFXCMP, ADDRCMP, ASCMP, PFXCONTAINS, ADDRCONTAINS, ASCONTAINS
<1>7. CASE HASATTR
  BY <1>7, HasAttrKeeps
<1>8. CASE EXACT \/ SUBNET \/ SUPERNET \/ RELATED
  BY <1>8, SearchKeeps DEF EXACT, SUBNET, SUPERNET, RELATED
<1>9. CASE ASPMATCH \/ ASPSTARTS \/ ASPENDS \/ ASPEXACT
  BY <1>9, PathKeeps
<1>10. CASE COMMEXACT
  BY <1>10, CommunitiesKeep
<1>11. CASE CALL
  BY <1>11, CallKeeps
<1>12. CASE UNCHANGED vars
  BY <1>12 DEF Kept, IInv, Between, AtWord, code, vars
<1> QED
  BY <1>1, <1>2, <1>3, <1>4, <1>5, <1>6, <1>7, <1>8, <1>9, <1>10, <1>11, <1>12 DEF Next

(* The computed gotos of filterpacket.c execute the word in front of the     *)
(* program counter, in every run of every program: predicted words are neither *)
(* skipped nor executed twice, and a branch leaves none behind.               *)
THEOREM MachineRunsThePlainProgram == Spec => []RunsThePlainProgram
<1>1. Init => IInv
  BY InitIsBetween
<1>2. IInv /\ [Next]_vars => IInv'
  BY NextKeeps DEF Kept
<1>3. IInv => RunsThePlainProgram
  BY CodeIsWords DEF IInv, Between, AtWord, RunsThePlainProgram
<1> QED
  BY <1>1, <1>2, <1>3, PTL DEF Spec

(* The stack of filter_vm_t never holds more than what was allocated for it,  *)
(* through pushes of one cell, of a list of the message and of an array of    *)
(* the heap, whatever growing it finds (filterintrin.c:43-58, 146-162), in a  *)
(* program whose UNPACK finds arrays.                                         *)
THEOREM StackAlwaysFits == Spec /\ []UnpacksArrays => []StackFits
<1> DEFINE Inv == IInv /\ Fits(s.stack, s.cap)
<1>1. Init => Inv
  BY InitIsBetween, InitIsEmpty
<1>2. Inv /\ UnpacksArrays /\ [Next]_vars => Inv'
  BY NextKeeps DEF Kept
<1>3. Inv => StackFits
  BY DEF Fits, StackFits
<1> QED
  BY <1>1, <1>2, <1>3, PTL DEF Spec
=============================================================================
