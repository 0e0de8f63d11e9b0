------------------------------- MODULE JsonText -------------------------------
(***************************************************************************)
(* json.c: a document is written call by call into a buffer that grows,    *)
(* read back token by token, and written again with indentation.           *)
(*                                                                         *)
(* The text is a sequence of characters, but for the tails of true and     *)
(* false, which are one symbol each.  strtod is external: the library      *)
(* reads what %g writes, but for the Refused, the denormals.  A client     *)
(* opens and closes what the grammar allows; it looks at no error before   *)
(* the end.                                                                *)
(***************************************************************************)
EXTENDS Integers, Sequences, SequencesExt, FiniteSets

CONSTANTS JSON_BUFSIZ, JSON_GROWSTEP, JSON_INDENT_SPACES,
          Names,      \* of fields, free of quotes and escapes
          Strings,    \* values, before they are escaped
          Numbers,    \* as they are written
          Refused,    \* those of them for which strtod sets errno
          MaxTokens,  \* values and names of a document
          Memory      \* how many reallocations can succeed during a call

Booleans == {<<"t", "rue">>, <<"f", "alse">>}
Digit == {"0", "1", "2", "3", "4", "5", "6", "7", "8", "9"}

\* What strtod takes for a number, of what %g and the integer conversions write.
Unsigned(w) == IF w # <<>> /\ w[1] = "-" THEN Tail(w) ELSE w
AllDigits(w) == w # <<>> /\ Range(w) \subseteq Digit
IsNumber(w) ==
    LET u == Unsigned(w)
    IN  \/ AllDigits(u)
        \/ \E e \in DOMAIN u :
              /\ u[e] = "e" /\ AllDigits(SubSeq(u, 1, e - 1))
              /\ AllDigits(Unsigned(SubSeq(u, e + 1, Len(u))))

ASSUME NameAssumption ==
    /\ \A n \in Names : \A i \in DOMAIN n : n[i] \notin {"\"", "\\"}
    /\ Refused \subseteq Numbers /\ \A n \in Numbers : IsNumber(n)

VARIABLES json,    \* text, len (-1 after an error), cap
          open,    \* the aggregates the client has open, the innermost last
          doc,     \* what the client asked for: the tokens a reader is to get
          pretty,  \* a second buffer
          ret      \* of jsonprettyp; "none" before, "crash" for a NULL written through

vars == <<json, open, doc, pretty, ret>>

-----------------------------------------------------------------------------
(* The buffer *)
Chars(sym) == CASE sym = "rue" -> 3 [] sym = "alse" -> 4 [] OTHER -> 1
Width(text) == FoldLeft(LAMBDA w, sym : w + Chars(sym), 0, text)

isspace(sym) == sym \in {" ", "\n"}
LastVisible(text) == LET s == SelectLastInSubSeq(text, 1, Len(text), LAMBDA c : ~isspace(c))
                     IN  IF s = 0 THEN "" ELSE text[s]
jsonerror(j) == j.len < 0

\* A buffer whose len is -1 has no text to look at.
valueneedscomma(j) == LastVisible(j.text) \notin {"", ":", "["}

isfirstfield(j) == LastVisible(j.text) = "{"
Comma(needed) == IF needed THEN <<",">> ELSE <<>>

jsonalloc(n) == [text |-> <<>>, len |-> 0, cap |-> IF n < JSON_BUFSIZ THEN JSON_BUFSIZ ELSE n]
Cleared(j) == [j EXCEPT !.text = <<>>, !.len = 0]

\* Room for n more characters and the NUL, if mem reallocations can succeed.
\* Variant of jsonensure: the NUL is forgotten.
jsonensureExact(j, n, mem) ==
    IF jsonerror(j) \/ j.len + n <= j.cap THEN j
    ELSE IF mem = 0 THEN [j EXCEPT !.text = <<>>, !.len = -1]
    ELSE [j EXCEPT !.cap = n + j.len + JSON_GROWSTEP + 1]

jsonensure(j, n, mem) ==
    IF jsonerror(j) \/ j.len + n < j.cap THEN j
    ELSE IF mem = 0 THEN [j EXCEPT !.text = <<>>, !.len = -1]
    ELSE [j EXCEPT !.cap = n + j.len + JSON_GROWSTEP + 1]

Appended(j, text) == [j EXCEPT !.text = @ \o text, !.len = @ + Width(text)]

-----------------------------------------------------------------------------
(* Tokens and the parser.  Positions count from 1; behind the last symbol   *)
(* is the NUL, and 0 is NULL.                                              *)
Punctuation == {"{", "}", "[", "]", ":", ","}
Success(type, size, start, end, next) ==
    [err |-> "success", type |-> type, size |-> size, start |-> start, end |-> end, next |-> next]
Failure(err) == [Success("none", 0, 0, 0, 0) EXCEPT !.err = err]

jsonstring(text, p) ==
    LET quotes == {q \in p..Len(text) : text[q] = "\"" /\ text[q - 1] # "\\"}
    IN  IF quotes = {} THEN Failure("incomplete")
        ELSE LET q == CHOOSE q \in quotes : \A r \in quotes : q <= r
             IN  Success("string", 0, p, q, q + 1)

\* The longest number from p on, unless strtod refuses it.
jsonnum(text, p) ==
    LET ends == {q \in p..Len(text) : IsNumber(SubSeq(text, p, q))}
    IN  IF ends = {} \/ SubSeq(text, p, Max(ends)) \in Refused THEN Failure("bad syntax")
        ELSE Success("number", 0, p, Max(ends) + 1, Max(ends) + 1)

Primitive(text, p) ==
    IF \E b \in Booleans : IsPrefix(b, SubSeq(text, p, Len(text))) THEN Success("bool", 0, p, p + 2, p + 2)
    ELSE jsonnum(text, p)

\* Variant of AtEnd: the end of the text ends any element.
AtEndAnywhere(flags) == Failure("end")

AtEnd(flags) == Failure(IF "end" \in flags THEN "end" ELSE "incomplete")

RECURSIVE jsonparserec(_, _, _), Elements(_, _, _, _, _)

\* The elements from p on, count of them before; start is behind the bracket.
Elements(text, start, p, count, type) ==
    LET first == jsonparserec(text, p, {"primitives", "punct"})
        elem  == IF count > 0 THEN jsonparserec(text, first.next, {"primitives"}) ELSE first
        colon == jsonparserec(text, elem.next, {"punct"})
        value == IF type = "{" THEN jsonparserec(text, colon.next, {"primitives"}) ELSE elem
        next  == IF value.type \in {"{", "["} THEN value.end ELSE value.next
    IN  IF first.err # "success" THEN first
        ELSE IF first.type \in {"}", "]"}
             THEN IF first.type = (IF type = "{" THEN "}" ELSE "]")
                  THEN Success(type, count, start - 1, first.end, start)
                  ELSE Failure("bad syntax")
        ELSE IF count > 0 /\ first.type # "," THEN Failure("bad syntax")
        ELSE IF elem.err # "success" THEN elem
        ELSE IF type = "{" /\ elem.type # "string" THEN Failure("bad syntax")
        ELSE IF type = "{" /\ colon.err # "success" THEN colon
        ELSE IF type = "{" /\ colon.type # ":" THEN Failure("bad syntax")
        ELSE IF value.err # "success" THEN value
        ELSE Elements(text, start, next, count + 1, type)

jsonparseaggregate(text, p, type) == Elements(text, p, p, 0, type)

Token(text, q, flags) ==
    LET c == text[q] IN
    IF c \in {"{", "["} THEN jsonparseaggregate(text, q + 1, c)
    ELSE IF c \in Punctuation
         THEN IF "punct" \in flags THEN Success(c, 0, q, q + 1, q + 1) ELSE Failure("bad syntax")
    ELSE IF "primitives" \notin flags THEN Failure("bad syntax")
    ELSE IF c = "\"" THEN jsonstring(text, q + 1)
    ELSE Primitive(text, q)

jsonparserec(text, p, flags) ==
    LET q == SelectInSubSeq(text, p, Len(text), LAMBDA c : ~isspace(c))
    IN  IF q = 0 THEN AtEnd(flags) ELSE Token(text, q, flags)

RECURSIVE SkipPunct(_, _, _)
SkipPunct(text, p, flags) ==
    LET r == jsonparserec(text, p, flags)
    IN  IF r.err = "success" /\ r.type \in {",", ":", "}", "]"}
        THEN SkipPunct(text, r.next, flags) ELSE r

jsonparse(text, next) ==
    IF next = 0 THEN SkipPunct(text, 1, {"end"})
    ELSE SkipPunct(text, next, {"primitives", "punct", "end"})

\* What a reader gets that calls jsonparse until it fails.
Item(text, r) == [type |-> r.type, size |-> r.size,
                  text |-> IF r.type \in {"{", "["} THEN <<>> ELSE SubSeq(text, r.start, r.end - 1)]
RECURSIVE ReadFrom(_, _)
ReadFrom(text, next) ==
    LET r == jsonparse(text, next)
    IN  IF r.err # "success" THEN [items |-> <<>>, err |-> r.err]
        ELSE LET rest == ReadFrom(text, r.next)
             IN  [rest EXCEPT !.items = <<Item(text, r)>> \o @]
Read(text) == ReadFrom(text, 0)

-----------------------------------------------------------------------------
(* Writing *)
Escape(str) == FlattenSeq([i \in DOMAIN str |->
                   IF str[i] \in {"\"", "\\"} THEN <<"\\", str[i]>> ELSE <<str[i]>>])
Quoted(str) == <<"\"">> \o str \o <<"\"">>

Init ==
    /\ json = jsonalloc(0)
    /\ pretty = jsonalloc(0)
    /\ open = <<>> /\ doc = <<>> /\ ret = "none"

\* A client that has printed a document does not go on with it.
Emit(text) == ret = "none" /\ \E mem \in 0..1 :
    LET j == jsonensure(json, Width(text), mem)
    IN  json' = IF jsonerror(j) THEN j ELSE Appended(j, text)

\* The client's side: where it may write, and what it has asked for.
InField == open # <<>> /\ Last(open).type = "{" /\ Last(open).named
MayName == open # <<>> /\ Last(open).type = "{" /\ ~Last(open).named
MayWrite == InField \/ (open # <<>> /\ Last(open).type = "[")
Asked(item) == Append(IF open = <<>> THEN doc ELSE
                      IF MayName THEN doc ELSE [doc EXCEPT ![Last(open).at].size = @ + 1], item)
Item1(type, text) == [type |-> type, size |-> 0, text |-> text]
Outer == IF open = <<>> THEN <<>> ELSE [open EXCEPT ![Len(open)].named = FALSE]

Opens(bracket) ==
    /\ MayWrite \/ doc = <<>>
    /\ Len(doc) < MaxTokens
    /\ Emit(Comma(valueneedscomma(json)) \o <<bracket>>)
    /\ doc' = Asked(Item1(bracket, <<>>))
    /\ open' = Append(Outer, [type |-> bracket, at |-> Len(doc) + 1, named |-> FALSE])
    /\ UNCHANGED <<pretty, ret>>
newjsonobj == Opens("{")
newjsonarr == Opens("[")

newjsonfield == \E name \in Names :
    /\ MayName
    /\ Len(doc) < MaxTokens
    /\ Emit(Comma(~isfirstfield(json)) \o Quoted(name) \o <<":">>)
    /\ doc' = Asked(Item1("string", name))
    /\ open' = [open EXCEPT ![Len(open)].named = TRUE]
    /\ UNCHANGED <<pretty, ret>>

Value(type, text, token) ==
    /\ MayWrite
    /\ Len(doc) < MaxTokens
    /\ Emit(Comma(valueneedscomma(json)) \o text)
    /\ doc' = Asked(Item1(type, token))
    /\ open' = Outer
    /\ UNCHANGED <<pretty, ret>>
newjsonvals == \E str \in Strings : Value("string", Quoted(Escape(str)), Escape(str))
\* Unsigned, signed and floating point differ in the conversion only.
newjsonvalu == \E num \in Numbers : Value("number", num, num)
newjsonvalb == \E bool \in Booleans : Value("bool", bool, bool)

Closes(opening, bracket) ==
    /\ open # <<>> /\ Last(open).type = opening /\ ~InField
    /\ Emit(<<bracket>>)
    /\ open' = Front(open)
    /\ UNCHANGED <<doc, pretty, ret>>
closejsonarr == Closes("[", "]")
closejsonobj == Closes("{", "}")

\* The client starts over, with another second buffer.
jsonclear ==
    /\ doc # <<>>
    /\ json' = Cleared(json)
    /\ pretty' = jsonalloc(0)
    /\ open' = <<>> /\ doc' = <<>> /\ ret' = "none"

-----------------------------------------------------------------------------
(* Writing again with indentation.  d carries the buffer, the place in the *)
(* text, the reallocations left and the error.                             *)
Grown(d, j) == [d EXCEPT !.out = j, !.mem = IF j.cap > d.out.cap THEN @ - 1 ELSE @]
Dumped(d, text) ==
    LET j == jsonensure(d.out, Width(text), d.mem) IN
    IF d.err # "success" THEN d
    ELSE IF jsonerror(j) THEN [d EXCEPT !.out = j, !.err = "no memory"]
    ELSE Grown(d, Appended(j, text))

\* An error of the indentation is left for the next call to find.
indent(d, level) ==
    LET spaces == [i \in 1..(level * JSON_INDENT_SPACES) |-> " "]
        j == jsonensure(d.out, Len(spaces), d.mem) IN
    IF d.err # "success" THEN d
    ELSE IF jsonerror(j) THEN [d EXCEPT !.out = j]
    ELSE Grown(d, Appended(j, spaces))

\* Nobody looks whether there was room for the bracket.
Closing(d, bracket) ==
    LET e == Dumped(d, <<bracket>>)
    IN  IF d.err = "success" /\ e.err = "no memory" THEN [e EXCEPT !.err = "crash"] ELSE e

\* Variant of Separator: the comma follows the last element too.
SeparatorAlways(i, count) == <<",", "\n">>

Separator(i, count) == IF i # count THEN <<",", "\n">> ELSE <<"\n">>

RECURSIVE dump(_, _, _), Members(_, _, _, _, _, _)
Members(text, d, type, i, count, level) ==
    IF i > count \/ d.err # "success" THEN d
    ELSE LET name  == dump(text, indent(d, level), level)
             value == IF type = "{" THEN dump(text, Dumped(name, <<":", " ">>), level) ELSE name
         IN  Members(text, Dumped(value, Separator(i, count)), type, i + 1, count, level)

dump(text, d, level) ==
    LET tok == jsonparse(text, d.next)
        e == [d EXCEPT !.next = tok.next]
        raw == SubSeq(text, tok.start, tok.end - 1)
    IN  IF d.err # "success" THEN d
        ELSE IF tok.err # "success" THEN [d EXCEPT !.err = tok.err]
        ELSE IF tok.type \in {"number", "bool"} THEN Dumped(e, raw)
        ELSE IF tok.type = "string" THEN Dumped(e, Quoted(raw))
        ELSE Closing(indent(Members(text, Dumped(e, <<tok.type, "\n">>), tok.type, 1, tok.size, level + 1),
                            level),
                     IF tok.type = "{" THEN "}" ELSE "]")

jsonprettyp == \E mem \in 0..Memory :
    /\ ~jsonerror(json) /\ doc # <<>> /\ ret # "crash"
    /\ LET d == dump(json.text, [out |-> Cleared(pretty), next |-> 0, mem |-> mem, err |-> "success"], 0)
       IN  pretty' = d.out /\ ret' = d.err
    /\ UNCHANGED <<json, open, doc>>

Next ==
    \/ newjsonobj \/ newjsonarr \/ newjsonfield
    \/ newjsonvals \/ newjsonvalu \/ newjsonvalb
    \/ closejsonarr \/ closejsonobj \/ jsonclear
    \/ jsonprettyp

Spec == Init /\ [][Next]_vars

-----------------------------------------------------------------------------
(* Properties *)
Complete == doc # <<>> /\ open = <<>> /\ ~jsonerror(json)

\* A text with a word in it that is no boolean and no number strtod takes: a
\* boolean that was cut, a number cut behind its sign or its e, a refused one.
\* No name or string holds one of these symbols.
WordSymbols == Digit \cup {"-", "e", "t", "rue", "f", "alse"}
Spoilt(text) ==
    \E i \in DOMAIN text :
        /\ text[i] \in WordSymbols /\ (i = 1 \/ text[i - 1] \notin WordSymbols)
        /\ \E j \in i..Len(text) :
              /\ \A k \in i..j : text[k] \in WordSymbols
              /\ j = Len(text) \/ text[j + 1] \notin WordSymbols
              /\ LET w == SubSeq(text, i, j)
                 IN  w \notin Booleans /\ (~IsNumber(w) \/ w \in Refused)

\* Once a document is closed without an error, and not before, a reader gets
\* it: the tokens the client asked for, each aggregate with its number of
\* elements, and then the end; unless a number was written that strtod refuses,
\* when the reader gets nothing.  A text that is cut short anywhere is never
\* accepted: it is called bad if the cut leaves a word that is none, and
\* incomplete if not (json.c:49-287, 400-598).
ReadsWhenWhole == Complete =>
    /\ Read(json.text) = IF \E i \in DOMAIN doc : doc[i].type = "number" /\ doc[i].text \in Refused
                         THEN [items |-> <<>>, err |-> "bad syntax"]
                         ELSE [items |-> doc, err |-> "end"]
    /\ \A n \in 1..(Len(json.text) - 1) :
          LET cut == SubSeq(json.text, 1, n)
          IN  jsonparse(cut, 0).err = IF Spoilt(cut) THEN "bad syntax" ELSE "incomplete"

\* A reader gets what was written.  Does not hold: a denormal is written that
\* is not read.
ReadsWhatIsWritten == Complete => Read(json.text) = [items |-> doc, err |-> "end"]

\* Both texts and their NUL fit the buffers, whose len is their width
\* (json.c:91-113, 289-389).
TextFits == \A j \in {json, pretty} :
    ~jsonerror(j) => j.len = Width(j.text) /\ j.len + 1 <= j.cap

\* Indentation changes no token (json.c:301-398).
PrettyIsTheSame == ret = "success" /\ ~jsonerror(json) => Read(pretty.text) = Read(json.text)

\* No result is written through a NULL pointer.  Does not hold: dump does not
\* look whether there is room for the closing bracket (json.c:380-381).
NeverCrashes == ret # "crash"
=============================================================================
