------------------------------ MODULE FilterVm ------------------------------
(***************************************************************************)
(* The machine that runs a packet filter over BGP messages.  Its code is a  *)
(* sequence of words, an opcode and an argument each; one step of the       *)
(* specification executes one instruction and picks the next one, the way   *)
(* the computed gotos do.  The tries are the sets they stand for, and the   *)
(* message is what its iterations return; a list in `bad' ends in an error. *)
(***************************************************************************)
EXTENDS Integers, Sequences, SequencesExt, FiniteSets, FiniteSetsExt, TLC

CONSTANTS Programs,    \* the compiled filters: code, tries, and the messages they
                       \* should pass, in the runs where that is known
          Messages,
          K,           \* the constant segment, from 0
          UserFns,     \* functions of the user: index -> messages they hold for
          StackBuf, StackStep,  \* STACKBUFSIZ and STACK_GROW_STEP
          Behind,        \* words that may be behind the code
          MaxRuns      \* bound: filter runs on one machine

BAD_OPCODE == [op |-> "BAD", arg |-> 255]
AS_ANY == -1
VM_FUNCS_MAX == 16
SETTLE == 128

\* The iterations of bgp_msg_t, and the flag of each.
Flag == [nlri |-> "F_NLRI", allnlri |-> "F_NLRI", withdrawn |-> "F_WITHDRN",
         allwithdrawn |-> "F_WITHDRN", aspath |-> "F_ASPATH", as4path |-> "F_ASPATH",
         realaspath |-> "F_ASPATH", communities |-> "F_COMMUNITY", none |-> "none"]

\* FOPC_ACCESS_*: the bits of an accessor, which addresses and paths share.
AddrAccess == 1 :> "nlri" @@ 2 :> "withdrawn" @@ 5 :> "allnlri" @@ 6 :> "allwithdrawn"
PathAccess == 1 :> "aspath" @@ 2 :> "as4path" @@ 4 :> "realaspath"

\* VM_*_FN behind the functions of the user.
Fns == LET lists == <<"withdrawn", "withdrawn", "allwithdrawn", "allwithdrawn",
                      "nlri", "nlri", "allnlri", "allnlri">>
       IN  [i \in VM_FUNCS_MAX + 1 .. VM_FUNCS_MAX + 8 |->
              [list |-> lists[i - VM_FUNCS_MAX], insert |-> i % 2 = 1]]

\* Attributes with a function of their own.
Notable == {1, 2, 3, 6, 7, 8, 14, 15, 16, 17, 18, 32}

VARIABLES s,      \* filter_vm_t, and the state of the iteration of its message
          prog,   \* the filter it was compiled from
          msg,    \* the message filtered last
          runs
vars == <<s, prog, msg, runs>>

code == prog.code

EmptyTries == <<[family |-> 4, set |-> {}], [family |-> 6, set |-> {}]>>

\* The message is given to the machine after filter_init and the compiler.
Init ==
    /\ prog \in Programs /\ msg = [none |-> TRUE] /\ runs = 0
    /\ s = [on |-> FALSE, out |-> "none", error |-> "none",
            pc |-> 0, ip |-> BAD_OPCODE, np |-> BAD_OPCODE,
            stack |-> <<>>, cap |-> StackBuf, curblk |-> 0, exarg |-> 0,
            mask |-> 0, settle |-> "none", cur |-> 1, cur6 |-> 2,
            tries |-> EmptyTries \o prog.tries,
            kind |-> "none", at |-> 0, err |-> FALSE]

-----------------------------------------------------------------------------
\* The iterations of the message.

Begin(t, kind) == IF t.err THEN t ELSE [t EXCEPT !.kind = kind, !.at = 0]

\* Fails an operation that needs flag f.
Refused(t, f) == t.err \/ Flag[t.kind] # f

Rest(t, f) == IF Refused(t, f) THEN <<>>
              ELSE SubSeq(msg.lists[t.kind], t.at + 1, Len(msg.lists[t.kind]))

\* n items are read, or all that is left and the NULL behind it.
ReadSome(t, f, n) == [t EXCEPT !.at = @ + n]
ReadAll(t, f) == IF Refused(t, f) THEN [t EXCEPT !.err = TRUE]
                 ELSE [t EXCEPT !.at = Len(msg.lists[t.kind]), !.err = t.kind \in msg.bad]

\* Items up to n, where n may be behind the last one.
ReadUpTo(t, f, n) == IF n > Len(Rest(t, f)) THEN ReadAll(t, f) ELSE ReadSome(t, f, n)

End(t, f) == IF Refused(t, f) THEN [t EXCEPT !.err = TRUE] ELSE [t EXCEPT !.kind = "none"]

\* Variant of Settle: the machine keeps what it thinks it is reading.
SettleKeepsMask(t) ==
    IF t.settle = "none" THEN t ELSE [End(t, t.settle) EXCEPT !.settle = "none"]

\* vm_exec_settle.
Settle(t) ==
    IF t.settle = "none" THEN t
    ELSE [End(t, t.settle) EXCEPT !.settle = "none", !.mask = 0]

-----------------------------------------------------------------------------
\* What comes after an instruction.

Abort(t, error) == [t EXCEPT !.error = error]

Stopped(t) == LET u == Settle(t) IN [u EXCEPT !.on = FALSE, !.out = u.error]

Truth(cell) == cell.value # 0

Finish(t) ==
    LET u == Settle(t)
    IN  CASE u.curblk > 0 -> Stopped(Abort(u, "DANGLING_BLK"))
          [] u.curblk = 0 /\ u.stack = <<>> -> Stopped(Abort(u, "STACK_UNDERFLOW"))
          [] OTHER -> [u EXCEPT !.on = FALSE, !.stack = Front(@),
                                !.out = IF Truth(Last(u.stack)) THEN "pass" ELSE "fail"]

\* FETCH, at the head of the loop.
Fetch(t) ==
    IF t.pc >= Len(code) THEN Finish(t)
    ELSE [t EXCEPT !.pc = @ + 1, !.ip = code[t.pc + 1],
                   !.np = IF t.pc + 1 < Len(code) THEN code[t.pc + 2] ELSE BAD_OPCODE]

\* PREDICT: the instructions that each one expects behind it.
Predicted(op) == CASE op = "ENDBLK"  -> {"CPASS", "NOT"}
                   [] op = "EXARG"   -> {"LOADK", "LOAD", "CALL"}
                   [] op = "NOT"     -> {"CFAIL", "CPASS"}
                   [] op = "HASATTR" -> {"NOT"}
                   [] OTHER          -> {}

\* No program ends with a NOT that the word before predicts: what is behind it
\* would be looked at (filterpacket.c:97-103).
ASSUME ProgramsAssumption ==
    \A p \in Programs :
        /\ p.code \in Seq([op : STRING, arg : Nat])
        /\ LET n == Len(p.code)
           IN  n >= 2 /\ p.code[n].op = "NOT" => "NOT" \notin Predicted(p.code[n - 1].op)

\* Variant of Predict: the prefetched word is not consumed.
PredictInPlace(t) ==
    IF t.pc >= Len(code) THEN {[t EXCEPT !.ip = t.np, !.np = BAD_OPCODE]}
    ELSE {[t EXCEPT !.ip = t.np, !.np = w] : w \in {code[t.pc + 1]}}

\* The word behind the last is whatever the buffer holds.
Predict(t) ==
    IF t.pc >= Len(code) THEN {[t EXCEPT !.ip = t.np, !.np = BAD_OPCODE]}
    ELSE {[t EXCEPT !.ip = t.np, !.pc = @ + 1, !.np = w] :
             w \in IF t.pc + 1 < Len(code) THEN {code[t.pc + 2]} ELSE Behind}

Goes(t) == CASE t.error # "none" -> {Stopped(t)}
             [] t.error = "none" /\ t.np.op \in Predicted(t.ip.op) -> Predict(t)
             [] OTHER -> {Fetch(t)}

\* The instruction op leads to one of the states in after.
Do(op, after) ==
    /\ s.on /\ s.ip.op = op /\ s' \in UNION {Goes(t) : t \in after}
    /\ UNCHANGED <<prog, msg, runs>>

\* bgp_filter_r sets the machine up; the message is a new one, or the last one
\* as the run before left it.
Start(m, again) ==
    /\ ~s.on /\ runs < MaxRuns
    /\ again => runs > 0 /\ m = msg
    /\ msg' = m /\ runs' = runs + 1
    /\ s' = Fetch([s EXCEPT !.on = TRUE, !.out = "none", !.error = "none",
                       !.pc = 0, !.stack = <<>>, !.curblk = 0, !.exarg = 0,
                       !.cur = 1, !.cur6 = 2, !.tries[1].set = {}, !.tries[2].set = {},
                       !.kind = IF again THEN @ ELSE "none", !.at = 0,
                       !.err = again /\ @])
    /\ UNCHANGED prog

-----------------------------------------------------------------------------
\* The stack.

ASSUME StackAssumption == StackBuf \in Nat \ {0} /\ StackStep \in Nat \ {0}

Grown(cap, n) == IF n <= cap THEN cap
                 ELSE cap + StackStep * ((n - cap + StackStep - 1) \div StackStep)

\* Variant of PushAll: the stack is grown for the first of the cells.
PushAllGrowsOnce(t, cells) ==
    LET n == Len(t.stack) + Len(cells)
    IN  {[t EXCEPT !.stack = @ \o cells, !.cap = IF n > @ THEN @ + StackStep ELSE @]}
        \cup IF n > t.cap THEN {Abort(t, "STACK_OVERFLOW")} ELSE {}

\* vm_push, and vm_growstack, which may find no memory.
PushAll(t, cells) ==
    LET n == Len(t.stack) + Len(cells)
    IN  {[t EXCEPT !.stack = @ \o cells, !.cap = Grown(@, n)]}
        \cup IF n > t.cap THEN {Abort(t, "STACK_OVERFLOW")} ELSE {}

Value(b) == [value |-> IF b THEN 1 ELSE 0]
PushValue(t, b) == PushAll(t, <<Value(b)>>)

\* Operations that take the whole stack and leave a truth value in its place.
Answer(t, b) == {[t EXCEPT !.stack = <<Value(b)>>]}

\* An operation on the top of the stack.
OnTop(t, after) == IF t.stack = <<>> THEN {Abort(t, "STACK_UNDERFLOW")} ELSE after
Top(t) == Last(t.stack)
Pop(t) == [t EXCEPT !.stack = Front(@)]
SetTop(t, b) == [t EXCEPT !.stack = Append(Front(@), Value(b))]

\* The argument of an instruction that EXARG may have widened.
Arg(t) == t.exarg * 256 + t.ip.arg
Taken(t) == [t EXCEPT !.exarg = 0]

\* after, if the constant is there.
OnK(t, after) == IF Arg(t) \notin DOMAIN K THEN {Abort(t, "K_UNDEFINED")} ELSE after

NOP == Do("NOP", {s})

LOAD == Do("LOAD", PushAll(Taken(s), <<[value |-> Arg(s)]>>))

LOADK == Do("LOADK", OnK(s, PushAll(Taken(s), <<K[Arg(s)]>>)))

\* An array is what its base, its number and the size of its elements make of
\* the heap, if they stay in it.
UNPACK == Do("UNPACK", OnTop(s, IF ~Top(s).fits THEN {Abort(Pop(s), "BAD_ARRAY")}
                                ELSE PushAll(Pop(s), Top(s).array)))

EXARG == Do("EXARG", {[s EXCEPT !.exarg = Arg(s)]})

NOT == Do("NOT", OnTop(s, {SetTop(s, ~Truth(Top(s)))}))

-----------------------------------------------------------------------------
\* Blocks.

BLK == Do("BLK", {[s EXCEPT !.curblk = @ + 1]})

ENDBLK == Do("ENDBLK", IF s.curblk = 0 THEN {Abort(s, "SPURIOUS_ENDBLK")}
                       ELSE {[s EXCEPT !.curblk = @ - 1]})

Opens(w) == w = [op |-> "BLK", arg |-> 0]
Closes(w) == w = [op |-> "ENDBLK", arg |-> 0]

\* Variant of Break: the next ENDBLK will do.
BreakNearest(t) ==
    LET ends == {i \in t.pc + 1 .. Len(code) : Closes(code[i])}
    IN  [t EXCEPT !.pc = IF ends = {} THEN Len(code) ELSE Min(ends) - 1]

\* vm_exec_break: to the ENDBLK of the block that pc is in, or to the end.
Break(t) ==
    LET Depth(i) == 1 + Cardinality({j \in t.pc + 1 .. i : Opens(code[j])})
                      - Cardinality({j \in t.pc + 1 .. i : Closes(code[j])})
        ends == {i \in t.pc + 1 .. Len(code) : Depth(i) = 0}
    IN  [t EXCEPT !.pc = IF ends = {} THEN Len(code) ELSE Min(ends) - 1]

\* A conditional exit from the block, or from the filter, with the value on top.
Exits(t) == IF t.curblk = 0 THEN Finish(t) ELSE Fetch(Break(t))

Conditional(op, t) ==
    /\ s.on /\ s.ip.op = op
    /\ s' \in CASE s.stack = <<>> -> {Stopped(Abort(s, "STACK_UNDERFLOW"))}
                [] s.stack # <<>> /\ Truth(Top(s)) -> {Exits(t)}
                [] OTHER -> Goes(Pop(s))
    /\ UNCHANGED <<prog, msg, runs>>

CPASS == Conditional("CPASS", s)
CFAIL == Conditional("CFAIL", SetTop(s, FALSE))

-----------------------------------------------------------------------------
\* Tries of prefixes.

TrieOf(t, a) == IF a.family = 6 THEN t.cur6 ELSE t.cur
Insert(t, as) ==
    [t EXCEPT !.tries = [i \in DOMAIN @ |->
        [@[i] EXCEPT !.set = @ \cup {a \in as : TrieOf(t, a) = i}]]]

STORE == Do("STORE", OnTop(s, {Insert(Pop(s), {Top(s).addr}),
                               Abort(Pop(s), "OUT_OF_MEMORY")}))

DISCARD == Do("DISCARD", OnTop(s, LET a == Top(s).addr
                                  IN  {[Pop(s) EXCEPT !.tries[TrieOf(s, a)].set = @ \ {a}]}))

\* SETTRIE and SETTRIE6: the argument counts from 0.
SelectTrie(op, family) ==
    LET i == Arg(s) + 1
        t == IF family = 4 THEN [Taken(s) EXCEPT !.cur = i] ELSE [Taken(s) EXCEPT !.cur6 = i]
    IN  Do(op, IF i > Len(s.tries) THEN {Abort(s, "TRIE_UNDEFINED")}
               ELSE {IF s.tries[i].family = family THEN t ELSE Abort(t, "TRIE_MISMATCH")})
SETTRIE == SelectTrie("SETTRIE", 4)
SETTRIE6 == SelectTrie("SETTRIE6", 6)

CLRTRIE == Do("CLRTRIE", {[s EXCEPT !.tries[s.cur].set = {}]})
CLRTRIE6 == Do("CLRTRIE6", {[s EXCEPT !.tries[s.cur6].set = {}]})

-----------------------------------------------------------------------------
\* Comparisons.  An address compares without the length of its prefix.

AddrEq(a, b) ==
    LET Padded(x) == {i \in DOMAIN x.bits : x.bits[i] = 1}
    IN  a.family = b.family /\ Padded(a) = Padded(b)
PrefixEq(a, b) == a = b

Same(a, b, how) == CASE how = "PFX" -> PrefixEq(a.addr, b.addr)
                     [] how = "ADDR" -> AddrEq(a.addr, b.addr)
                     [] how = "AS" -> a.as = b.as

Compare(op, how) == Do(op, OnK(s, OnTop(s, {SetTop(Taken(s), Same(Top(s), K[Arg(s)], how))})))
PFXCMP == Compare("PFXCMP", "PFX")
ADDRCMP == Compare("ADDRCMP", "ADDR")
ASCMP == Compare("ASCMP", "AS")

AnyOf(op, how) ==
    Do(op, OnK(s, Answer(Taken(s), \E i \in DOMAIN s.stack : Same(K[Arg(s)], s.stack[i], how))))
PFXCONTAINS == AnyOf("PFXCONTAINS", "PFX")
ADDRCONTAINS == AnyOf("ADDRCONTAINS", "ADDR")
ASCONTAINS == AnyOf("ASCONTAINS", "AS")

-----------------------------------------------------------------------------
\* Instructions that read the message, which must be an UPDATE.
OnUpdate(t, after) == IF ~msg.update THEN {Abort(t, "PACKET_MISMATCH")} ELSE after

SETTLE_ == Do("SETTLE", {Settle(s)})

HASATTR ==
    LET t == Settle(s)
        u == IF t.ip.arg \in Notable \/ t.err THEN t ELSE [t EXCEPT !.kind = "none"]
    IN  Do("HASATTR", OnUpdate(s, PushValue(u, ~t.err /\ t.ip.arg \in msg.attrs)))

\* vm_prepare_addr_access and vm_prepare_as_access.
Prepared(t, access) ==
    LET mode == t.ip.arg
        u    == IF mode >= SETTLE THEN Settle(t) ELSE t
        kind == access[mode % SETTLE]
    IN  CASE u.mask = mode -> u
          [] u.mask # mode /\ mode % SETTLE \notin DOMAIN access -> Abort(u, "BAD_ACCESSOR")
          [] OTHER -> [Begin(u, kind) EXCEPT !.settle = Flag[kind], !.mask = mode]

Covers(p, q) == p.family = q.family /\ IsPrefix(p.bits, q.bits)
Related(op, p, a) == CASE op = "EXACT" -> p = a
                       [] op = "SUBNET" -> Covers(p, a)
                       [] op = "SUPERNET" -> Covers(a, p)
                       [] op = "RELATED" -> Covers(p, a) \/ Covers(a, p)

\* The addresses up to the first one that has a relative in its trie are read.
Search(op) ==
    LET t    == Prepared(s, AddrAccess)
        f    == IF s.ip.arg % 2 = 1 THEN "F_NLRI" ELSE "F_WITHDRN"
        rest == Rest(t, f)
        hits == {i \in DOMAIN rest :
                   \E p \in t.tries[TrieOf(t, rest[i])].set : Related(op, p, rest[i])}
    IN  Do(op, OnUpdate(s,
           CASE t.error # "none" -> {t}
             [] t.error = "none" /\ hits = {} -> PushValue(ReadAll(t, f), FALSE)
             [] OTHER -> PushValue(ReadSome(t, f, Min(hits)), TRUE)))
EXACT == Search("EXACT")
SUBNET == Search("SUBNET")
SUPERNET == Search("SUPERNET")
RELATED == Search("RELATED")

\* How far the entries agree with the pattern on the stack, from entry j + 1 on.
Agree(t, rest, j) ==
    LET Fits(i) == t.stack[i].as \in {rest[j + i], AS_ANY}
        bad == {i \in DOMAIN t.stack : j + i > Len(rest) \/ ~Fits(i)}
    IN  IF bad = {} THEN Len(t.stack) ELSE Min(bad) - 1

\* An instruction on the AS path: n entries are read, and the answer is b.
\* The pattern is not empty: the window of ASPENDS would slide before its start.
PathOp(op, Reads(_, _), Answers(_, _)) ==
    LET t == Prepared(s, PathAccess)
        r == Rest(t, "F_ASPATH")
    IN  Do(op, OnUpdate(s, IF t.error # "none" THEN {t}
                           ELSE Answer(ReadUpTo(t, "F_ASPATH", Reads(t, r)), Answers(t, r))))

Matches(t, r) == {j \in 0..Len(r) : Agree(t, r, j) = Len(t.stack)}
Starts(t, r) == 0 \in Matches(t, r)
Ends(t, r) == Len(r) - Len(t.stack) \in Matches(t, r)

ASPMATCH ==
    LET Reads(t, r) == IF Matches(t, r) = {} THEN Len(r) + 1
                       ELSE Min(Matches(t, r)) + Len(t.stack)
        Answers(t, r) == Matches(t, r) # {}
    IN  PathOp("ASPMATCH", Reads, Answers)

ASPSTARTS ==
    LET Reads(t, r) == IF Starts(t, r) THEN Len(t.stack) ELSE Agree(t, r, 0) + 1
    IN  PathOp("ASPSTARTS", Reads, Starts)

ASPENDS ==
    LET Reads(t, r) == Len(r) + 1
    IN  PathOp("ASPENDS", Reads, Ends)

\* One entry more is read whether the pattern fitted or not.
ASPEXACT ==
    LET Reads(t, r) == IF Starts(t, r) THEN Len(t.stack) + 1 ELSE Agree(t, r, 0) + 2
        Answers(t, r) == Starts(t, r) /\ Len(r) = Len(t.stack)
    IN  PathOp("ASPEXACT", Reads, Answers)

\* Of equal communities on the stack only the first is ever seen.
COMMEXACT ==
    LET t    == Begin(s, "communities")
        f    == "F_COMMUNITY"
        rest == Rest(t, f)
        Seen(n) == {i \in DOMAIN s.stack :
                      /\ \E j \in 1..n : rest[j] = s.stack[i].comm
                      /\ \A k \in 1..(i - 1) : s.stack[k].comm # s.stack[i].comm}
        all  == {n \in 0..Len(rest) : Seen(n) = DOMAIN s.stack}
        read == IF all = {} THEN ReadAll(t, f) ELSE ReadUpTo(t, f, Min(all) + 1)
    IN  Do("COMMEXACT", OnUpdate(s, Answer(End(read, f), all # {})))

\* The lists that a function can be called for are lists in every message.
ASSUME MessagesAssumption ==
    \A m \in Messages, i \in DOMAIN Fns :
        m.lists[Fns[i].list] \in Seq(ToSet(m.lists[Fns[i].list]))

\* vm_exec_*_insert and vm_exec_*_accumulate.  Out of memory leaves the iteration.
Collect(fn) ==
    LET t    == Begin(s, fn.list)
        f    == Flag[fn.list]
        rest == Rest(t, f)
        done == End(ReadAll(t, f), f)
        u    == IF done.err THEN Abort(done, "BAD_PACKET") ELSE Taken(done)
        last == Abort(t, "OUT_OF_MEMORY")
    IN  OnUpdate(s, IF fn.insert
                      THEN {Insert(u, ToSet(rest))} \cup IF rest # <<>> THEN {last} ELSE {}
                      ELSE PushAll(u, [i \in DOMAIN rest |-> [addr |-> rest[i]]]))

CALL == Do("CALL", CASE Arg(s) \in DOMAIN Fns -> Collect(Fns[Arg(s)])
                     [] Arg(s) \in DOMAIN UserFns -> PushValue(Taken(s), msg \in UserFns[Arg(s)])
                     [] OTHER -> {Abort(s, "FUNC_UNDEFINED")})

SIGILL == Do("BAD", {Abort(s, "ILLEGAL_OPCODE")})

Next ==
    \/ \E m \in Messages, again \in BOOLEAN : Start(m, again)
    \/ NOP \/ LOAD \/ LOADK \/ UNPACK \/ EXARG \/ NOT \/ BLK \/ ENDBLK \/ CPASS \/ CFAIL
    \/ STORE \/ DISCARD \/ SETTRIE \/ SETTRIE6 \/ CLRTRIE \/ CLRTRIE6
    \/ PFXCMP \/ ADDRCMP \/ ASCMP \/ PFXCONTAINS \/ ADDRCONTAINS \/ ASCONTAINS
    \/ SETTLE_ \/ HASATTR \/ EXACT \/ SUBNET \/ SUPERNET \/ RELATED
    \/ ASPMATCH \/ ASPSTARTS \/ ASPENDS \/ ASPEXACT \/ COMMEXACT \/ CALL \/ SIGILL

Spec == Init /\ [][Next]_vars
-----------------------------------------------------------------------------
(* The computed gotos run the program that the plain switch runs              *)
(* (filterpacket.c:92-124): the instruction executed next is the one in front *)
(* of the program counter, however many were predicted, and a branch leaves   *)
(* no prefetched word behind.                                                *)
RunsThePlainProgram == s.on => s.pc \in DOMAIN code /\ s.ip = code[s.pc]

(* A filter passes the messages that it is meant to pass, in every run of the *)
(* same machine, whatever the message and the runs before left in it; nothing *)
(* but memory can stop it (filterpacket.c:127-362).                           *)
OutOfMemory == {"OUT_OF_MEMORY", "STACK_OVERFLOW"}
ResultIsMeaning ==
    ~s.on /\ s.out \notin {"none"} \cup OutOfMemory /\ prog.known /\ msg.update /\ msg.bad = {} =>
        s.out = IF msg \in prog.passes THEN "pass" ELSE "fail"

(* The machine and the message agree on the iteration that is open.  While it *)
(* runs, what a settle is going to end (filterintrin.h:427-435) is what the   *)
(* message is in, and the accessor that need not be started again is the one  *)
(* being read; once it has answered, no iteration is open and there is no     *)
(* error that the packet is not to blame for (filterpacket.c:356-362), unless *)
(* it searched without an accessor, as what compile_expr emits does.          *)
SettleIsCoherent ==
    /\ s.settle = "none" <=> s.mask = 0
    /\ s.settle # "none" =>
        /\ ~s.err => Flag[s.kind] = s.settle
        /\ ~s.err => s.kind \in {a[s.mask % SETTLE] : a \in
                                  {x \in {AddrAccess, PathAccess} : s.mask % SETTLE \in DOMAIN x}}
LeavesTheMessage ==
    ~s.on /\ s.out \in {"pass", "fail"} /\ [op |-> "EXACT", arg |-> 0] \notin ToSet(code) =>
        IF s.err THEN msg.bad # {} ELSE s.kind = "none"
AccessIsCoherent == SettleIsCoherent /\ LeavesTheMessage

(* The settle flag rewinds the iterator (filterintrin.h:119): the list is read *)
(* from its beginning, whatever was read before.                             *)
SettleRewinds ==
    LET t == Prepared(s, AddrAccess)
    IN  s.on /\ s.ip.op = "EXACT" /\ s.ip.arg >= SETTLE /\ msg.update /\ msg.bad = {} =>
          Rest(t, Flag[t.kind]) = msg.lists[AddrAccess[s.ip.arg % SETTLE]]

(* The stack never holds more than was allocated for it, through pushes of    *)
(* one cell, of a whole list and of an array (filterintrin.c:43-58, 146-162). *)
StackFits == Len(s.stack) <= s.cap
=============================================================================
