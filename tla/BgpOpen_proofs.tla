--------------------------- MODULE BgpOpen_proofs ---------------------------
(***************************************************************************)
(* Proofs about BgpOpen, for every set of capabilities and every size of a *)
(* byte and of the buffer: what this program writes is readable, and what  *)
(* it reads of it are the capabilities that were put.                      *)
(***************************************************************************)
EXTENDS BgpOpen, SequenceTheorems, TLAPS

\* A piece of a sequence: its elements, how many, and which.
LEMMA Piece ==
    ASSUME NEW S, NEW s \in Seq(S),
           NEW m \in 1..Len(s) + 1, NEW n \in m - 1..Len(s)
    PROVE  /\ SubSeq(s, m, n) \in Seq(S)
           /\ Len(SubSeq(s, m, n)) = n - m + 1
           /\ \A i \in 1..n - m + 1 : SubSeq(s, m, n)[i] = s[m + i - 1]
<1>1. \A i \in m..n : s[i] \in S
  BY ElementOfSeq
<1>2. m \in Int /\ n \in Int
  OBVIOUS
<1> QED
  BY <1>1, <1>2, SubSeqProperties

\* The beginning of a sequence and the element that follows it.
LEMMA AppendFront ==
    ASSUME NEW S, NEW s \in Seq(S), NEW k \in 0..Len(s) - 1
    PROVE  Append(SubSeq(s, 1, k), s[k + 1]) = SubSeq(s, 1, k + 1)
<1> DEFINE front == SubSeq(s, 1, k)
           longer == SubSeq(s, 1, k + 1)
           added == Append(front, s[k + 1])
<1>1. Len(s) \in Nat /\ k \in Nat /\ k + 1 \in 1..Len(s) /\ s[k + 1] \in S
  BY LenProperties, ElementOfSeq
<1>2. 1 \in 1..Len(s) + 1 /\ k \in 1 - 1..Len(s) /\ k + 1 \in 1 - 1..Len(s)
  BY <1>1
<1>3. front \in Seq(S) /\ Len(front) = k /\ \A i \in 1..k : front[i] = s[i]
  BY <1>1, <1>2, Piece
<1>4. /\ longer \in Seq(S) /\ Len(longer) = k + 1
      /\ \A i \in 1..k + 1 : longer[i] = s[i]
  BY <1>1, <1>2, Piece
<1> HIDE DEF front, longer
<1>5. /\ added \in Seq(S) /\ Len(added) = k + 1
      /\ \A i \in 1..k : added[i] = front[i]
      /\ added[k + 1] = s[k + 1]
  BY <1>1, <1>3, AppendProperties
<1> HIDE DEF added
<1>6. \A i \in 1..Len(added) : added[i] = longer[i]
  BY <1>1, <1>3, <1>4, <1>5
<1>7. Len(added) = Len(longer)
  BY <1>4, <1>5
<1>8. added = longer
  BY <1>4, <1>5, <1>6, <1>7, SeqEqual
<1> QED
  BY <1>8 DEF added, front, longer

Fields == {"type", "flags", "err", "buf", "plen", "marker", "length", "pktlen",
           "params", "pptr", "open"}

\* A capability that is put without an error.
Short == {c \in Caps : Len(c) <= ByteMax}

\* The capabilities behind the header of a parameter: capability i goes from
\* offs[i - 1] to offs[i].
Laid(b, caps, offs) ==
    /\ offs \in [0..Len(caps) -> Nat] /\ offs[0] = 2
    /\ \A i, j \in 0..Len(caps) : i < j => offs[i] < offs[j]
    /\ caps # <<>> => b[0] = CAPABILITY_CODE
    /\ \A i \in 1..Len(caps) :
          /\ offs[i] = offs[i - 1] + Len(caps[i]) /\ offs[i] <= BufSize
          /\ \A j \in 1..Len(caps[i]) : b[offs[i - 1] + (j - 1)] = caps[i][j]

Size(caps, offs) == IF caps = <<>> THEN 0 ELSE offs[Len(caps)]

\* The first k capabilities were read.
Read(caps, g, k) == k \in 0..Len(caps) /\ g.caps = SubSeq(caps, 1, k)

\* The lengths and the pointers of a message agree with what was put in it.
Stands(m, caps, offs, g) ==
    /\ m.pktlen = Size(caps, offs)
    /\ "F_PM" \in m.flags /\ "F_RD" \notin m.flags =>
          m.params = 0 /\ m.pptr = Size(caps, offs)
    /\ "F_PM" \notin m.flags \/ "F_RD" \in m.flags =>
          /\ m.plen = Size(caps, offs)
          /\ caps # <<>> => m.buf[1] = Size(caps, offs) - 2
    /\ "F_RD" \in m.flags => m.length = Size(caps, offs)
    /\ "F_RD" \in m.flags /\ "F_PM" \in m.flags /\ ~g.null =>
          /\ m.params = 0
          /\ \E k : Read(caps, g, k) /\ m.pptr = IF k = 0 THEN 0 ELSE offs[k]
    /\ g.null => g.caps = caps

\* A message that this program wrote, with one list of capabilities.
Own(m, caps, g) ==
    /\ caps \in Seq(Short) /\ m.err # "EBADPARAMLEN"
    /\ "F_RD" \notin m.flags => g = Nothing
    /\ \E k : Read(caps, g, k)
    /\ m.err = "ENOERR" =>
          /\ m.marker /\ \A i \in 0..BufSize - 1 : m.buf[i] \in Nat
          /\ \E offs : Laid(m.buf, caps, offs) /\ Stands(m, caps, offs, g)

Shaped(m) ==
    /\ DOMAIN m = Fields /\ DOMAIN m.buf = 0..BufSize - 1
    /\ m.flags \subseteq {"F_RD", "F_WR", "F_PM"} /\ ~({"F_RD", "F_WR"} \subseteq m.flags)
    /\ m.flags # {} => "F_RD" \in m.flags \/ "F_WR" \in m.flags

Good(m, sy, g) ==
    /\ Shaped(m) /\ DOMAIN sy = {"caps", "own", "whole", "ends"} /\ DOMAIN g = {"caps", "null"}
    /\ m.flags = {} => sy = Unsaid /\ g = Nothing
    /\ sy.own => sy.ends
    /\ sy.own /\ ~sy.whole => Own(m, sy.caps, g)

IInv == Good(msg, says, got)
-----------------------------------------------------------------------------
(* The operators of the model *)

LEMMA Constants ==
    /\ ByteMax \in Nat /\ ByteMax >= 2 /\ BufSize \in Nat
    /\ BufSize > (2 * ByteMax) + 4 /\ BufSize >= 3
BY BytesAssumption, BufAssumption

LEMMA CopiedIs ==
    ASSUME NEW b, DOMAIN b = 0..BufSize - 1, NEW off \in Nat, NEW s, Len(s) \in Nat
    PROVE  /\ DOMAIN Copied(b, off, s) = 0..BufSize - 1
           /\ \A i \in 0..BufSize - 1 :
                 Copied(b, off, s)[i] =
                   IF off <= i /\ i < off + Len(s) THEN s[(i - off) + 1] ELSE b[i]
<1>1. \A i \in Int : off < i + 1 /\ i < off + Len(s) <=> off <= i /\ i < off + Len(s)
  OBVIOUS
<1>2. \A i \in Int : i - off + 1 = (i - off) + 1
  OBVIOUS
<1> QED
  BY <1>1, <1>2 DEF Copied

\* A capability that is put is its code, its length and as many bytes.
LEMMA ShortIs ==
    ASSUME NEW c \in Short
    PROVE  /\ c \in Caps /\ Len(c) \in 2..ByteMax /\ Len(c) = c[2] + 2
           /\ \A j \in 1..Len(c) : c[j] \in Nat
<1>1. c \in Caps /\ Len(c) <= ByteMax /\ Len(c) >= 2 /\ Len(c) = c[2] + 2
      /\ c \in Seq(Byte \cup {ByteMax + 1})
  BY CapsAssumption DEF Short
<1>2. Len(c) \in Nat /\ \A j \in 1..Len(c) : c[j] \in Byte \cup {ByteMax + 1}
  BY <1>1, ElementOfSeq, LenProperties
<1>3. \A j \in 1..Len(c) : c[j] \in Nat
  BY <1>2, Constants DEF Byte
<1> QED
  BY <1>1, <1>2, <1>3, Constants

\* A list of no capabilities has no bytes, any other has more than a header.
LEMMA SizeIs ==
    ASSUME NEW b, NEW caps \in Seq(Short), NEW offs, Laid(b, caps, offs)
    PROVE  /\ Len(caps) \in Nat /\ Size(caps, offs) \in Nat
           /\ caps = <<>> <=> Len(caps) = 0
           /\ \A k \in 0..Len(caps) : offs[k] \in Nat /\ offs[k] >= 2 /\ offs[k] <= offs[Len(caps)]
           /\ caps # <<>> => Size(caps, offs) = offs[Len(caps)] /\ Size(caps, offs) > 2
           /\ caps = <<>> => Size(caps, offs) = 0
<1>1. Len(caps) \in Nat /\ (caps = <<>> <=> Len(caps) = 0)
  BY LenProperties, EmptySeq
<1>2. \A k \in 0..Len(caps) : offs[k] \in Nat
  BY <1>1 DEF Laid
<1>3. \A k \in 0..Len(caps) : k = 0 \/ offs[0] < offs[k]
  BY <1>1 DEF Laid
<1>4. \A k \in 0..Len(caps) : k = Len(caps) \/ offs[k] < offs[Len(caps)]
  BY <1>1 DEF Laid
<1>5. offs[0] = 2
  BY DEF Laid
<1>6. \A k \in 0..Len(caps) : offs[k] >= 2 /\ offs[k] <= offs[Len(caps)]
  BY <1>1, <1>2, <1>3, <1>4, <1>5
<1> QED
  BY <1>1, <1>2, <1>3, <1>5, <1>6 DEF Size

\* A message whose calls have failed needs no more than what was returned before.
LEMMA FailedIsGood ==
    ASSUME NEW m, NEW sy, NEW g, Good(m, sy, g), NEW u, Shaped(u), u.flags # {},
           u.err \notin {"ENOERR", "EBADPARAMLEN"}, "F_RD" \notin u.flags => "F_RD" \notin m.flags
    PROVE  Good(u, sy, g)
BY DEF Good, Own

LEMMA RefusedIsGood ==
    ASSUME NEW m, NEW sy, NEW g, Good(m, sy, g), m.flags # {}
    PROVE  Good(Refuse(m), sy, g)
<1> DEFINE u == Refuse(m)
<1>1. DOMAIN m = Fields
  BY DEF Good, Shaped
<1>2. /\ DOMAIN u = Fields /\ u.buf = m.buf /\ u.flags = m.flags
      /\ u.err = IF m.err = "ENOERR" THEN "EINVOP" ELSE m.err
  BY <1>1 DEF Refuse, Fields
<1> HIDE DEF u
<1>3. Shaped(u)
  BY <1>2 DEF Good, Shaped
<1>4. CASE sy.own /\ ~sy.whole
  <2>1. m.err # "EBADPARAMLEN"
    BY <1>4 DEF Good, Own
  <2> QED
    BY <1>2, <1>3, <2>1, FailedIsGood DEF u
<1>5. CASE ~(sy.own /\ ~sy.whole)
  BY <1>2, <1>3, <1>5 DEF Good, u
<1> QED
  BY <1>4, <1>5

-----------------------------------------------------------------------------
(* Ending a list *)

\* The length of the list goes in front of it.
LEMMA LengthIsLaid ==
    ASSUME NEW b, DOMAIN b = 0..BufSize - 1, \A i \in 0..BufSize - 1 : b[i] \in Nat,
           NEW n \in Nat, NEW caps \in Seq(Short), NEW offs, Laid(b, caps, offs)
    PROVE  LET c == Copied(b, 1, <<n>>)
           IN  /\ \A i \in 0..BufSize - 1 : c[i] \in Nat
               /\ c[1] = n /\ Laid(c, caps, offs)
<1> DEFINE s == <<n>>
           c == Copied(b, 1, s)
<1>1. Len(s) = 1 /\ s[1] = n
  OBVIOUS
<1> HIDE DEF s
<1>2. \A i \in 0..BufSize - 1 : c[i] = IF i = 1 THEN n ELSE b[i]
  <2>1. \A i \in 0..BufSize - 1 :
            c[i] = IF 1 <= i /\ i < 1 + Len(s) THEN s[(i - 1) + 1] ELSE b[i]
    <3>1. 1 \in Nat /\ Len(s) \in Nat
      BY <1>1
    <3> QED
      BY <3>1, CopiedIs, Zenon
  <2>2. ASSUME NEW i \in 0..BufSize - 1 PROVE c[i] = IF i = 1 THEN n ELSE b[i]
    <3>1. c[i] = IF 1 <= i /\ i < 1 + Len(s) THEN s[(i - 1) + 1] ELSE b[i]
      BY <2>1
    <3> HIDE DEF c
    <3>2. 1 <= i /\ i < 1 + Len(s) <=> i = 1
      BY <1>1
    <3>3. (1 - 1) + 1 = 1
      OBVIOUS
    <3> QED
      BY <1>1, <3>1, <3>2, <3>3
  <2> QED
    BY <2>2
<1> HIDE DEF c
<1>3. c[1] = n /\ c[0] = b[0] /\ \A i \in 0..BufSize - 1 : c[i] \in Nat
  BY <1>2, Constants
<1>4. /\ Len(caps) \in Nat
      /\ \A k \in 0..Len(caps) : offs[k] \in Nat /\ offs[k] >= 2
  BY SizeIs
<1>5. ASSUME NEW i \in 1..Len(caps), NEW j \in 1..Len(caps[i])
      PROVE  c[offs[i - 1] + (j - 1)] = caps[i][j]
  <2>1. caps[i] \in Short /\ Len(caps[i]) \in Nat
    BY <1>4, ElementOfSeq, ShortIs
  <2>2. offs[i] = offs[i - 1] + Len(caps[i]) /\ offs[i] <= BufSize
        /\ b[offs[i - 1] + (j - 1)] = caps[i][j]
    BY DEF Laid
  <2>3. i - 1 \in 0..Len(caps) /\ offs[i - 1] \in Nat /\ offs[i - 1] >= 2
    BY <1>4
  <2>4. offs[i - 1] + (j - 1) \in 0..BufSize - 1 /\ offs[i - 1] + (j - 1) # 1
    <3> DEFINE p == offs[i - 1]
               l == Len(caps[i])
    <3>1. p \in Nat /\ p >= 2 /\ l \in Nat /\ j \in 1..l /\ p + l <= BufSize
      BY <2>1, <2>2, <2>3
    <3> HIDE DEF p, l
    <3>2. p + (j - 1) \in 0..BufSize - 1 /\ p + (j - 1) # 1
      BY <3>1, Constants
    <3> QED
      BY <3>2 DEF p
  <2> QED
    BY <1>2, <2>2, <2>4
<1>6. Laid(c, caps, offs)
  BY <1>3, <1>5 DEF Laid
<1> QED
  BY <1>3, <1>6 DEF c, s

LEMMA EndCapsIsGood ==
    ASSUME NEW m, NEW sy, NEW g, Good(m, sy, g), m.flags # {}, m.err = "ENOERR",
           "F_PM" \in m.flags
    PROVE  /\ Good(EndCaps(m), sy, g) /\ EndCaps(m).flags # {}
           /\ "F_RD" \in EndCaps(m).flags <=> "F_RD" \in m.flags
           /\ EndCaps(m).err = "ENOERR" => EndCaps(m).flags = m.flags \ {"F_PM"}
<1>1. /\ DOMAIN m = Fields /\ DOMAIN m.buf = 0..BufSize - 1
      /\ m.flags \subseteq {"F_RD", "F_WR", "F_PM"} /\ ~({"F_RD", "F_WR"} \subseteq m.flags)
      /\ "F_RD" \in m.flags \/ "F_WR" \in m.flags
  BY DEF Good, Shaped
<1>2. CASE "F_WR" \notin m.flags
  <2> DEFINE u == [m EXCEPT !.flags = @ \ {"F_PM"}]
  <2>1. EndCaps(m) = u
    BY <1>2 DEF EndCaps
  <2>2. /\ DOMAIN u = Fields /\ u.flags = m.flags \ {"F_PM"} /\ u.err = m.err /\ u.buf = m.buf
        /\ u.plen = m.plen /\ u.marker = m.marker /\ u.length = m.length
        /\ u.pktlen = m.pktlen /\ u.params = m.params /\ u.pptr = m.pptr
    BY <1>1 DEF Fields
  <2> HIDE DEF u
  <2>3. Shaped(u) /\ u.flags # {} /\ "F_RD" \in u.flags /\ "F_RD" \in m.flags
    BY <1>1, <1>2, <2>2 DEF Shaped
  <2>4. ASSUME Own(m, sy.caps, g) PROVE Own(u, sy.caps, g)
    <3>1. ASSUME NEW offs, Stands(m, sy.caps, offs, g) PROVE Stands(u, sy.caps, offs, g)
      BY <2>2, <2>3, <3>1 DEF Stands
    <3> QED
      BY <2>2, <2>3, <2>4, <3>1 DEF Own
  <2> QED
    BY <2>1, <2>2, <2>3, <2>4 DEF Good
<1>3. CASE "F_WR" \in m.flags
  <2> DEFINE n == (m.pptr - m.params - PARAM_HEADER_SIZE) % (ByteMax + 1)
             b == Copied(m.buf, m.params + 1, <<n>>)
             e == [m EXCEPT !.buf = b]
             bad == [e EXCEPT !.err = "EINVOP"]
             u == [e EXCEPT !.plen = m.pptr, !.flags = @ \ {"F_PM"}]
  <2>1. EndCaps(m) = IF m.pptr > PARAM_LENGTH_MAX THEN bad ELSE u
    BY <1>3 DEF EndCaps
  <2>2. DOMAIN b = 0..BufSize - 1
    BY <1>1 DEF Copied
  <2> HIDE DEF n, b
  <2>3. /\ DOMAIN e = Fields /\ e.flags = m.flags /\ e.err = m.err /\ e.buf = b
        /\ e.plen = m.plen /\ e.marker = m.marker /\ e.length = m.length
        /\ e.pktlen = m.pktlen /\ e.params = m.params /\ e.pptr = m.pptr
    BY <1>1 DEF Fields
  <2> HIDE DEF e
  <2>4. /\ DOMAIN bad = Fields /\ bad.buf = b /\ bad.flags = m.flags /\ bad.err = "EINVOP"
        /\ DOMAIN u = Fields /\ u.flags = m.flags \ {"F_PM"} /\ u.err = m.err /\ u.buf = b
        /\ u.plen = m.pptr /\ u.marker = m.marker /\ u.length = m.length
        /\ u.pktlen = m.pktlen /\ u.params = m.params /\ u.pptr = m.pptr
    BY <2>3 DEF Fields
  <2> HIDE DEF bad, u
  <2>5. Shaped(bad) /\ bad.flags # {} /\ Shaped(u) /\ u.flags # {}
        /\ "F_RD" \notin m.flags /\ "F_RD" \notin u.flags
    BY <1>1, <1>3, <2>2, <2>4 DEF Shaped
  <2>6. Good(bad, sy, g)
    BY <2>4, <2>5, FailedIsGood
  <2>7. ASSUME ~(m.pptr > PARAM_LENGTH_MAX), Own(m, sy.caps, g) PROVE Own(u, sy.caps, g)
    <3> DEFINE caps == sy.caps
    <3>1. PICK offs : Laid(m.buf, caps, offs) /\ Stands(m, caps, offs, g)
      BY <2>7 DEF Own
    <3>2. /\ caps \in Seq(Short) /\ \A i \in 0..BufSize - 1 : m.buf[i] \in Nat
      BY <2>7 DEF Own
    <3>3. m.pktlen = Size(caps, offs) /\ m.params = 0 /\ m.pptr = Size(caps, offs)
      BY <2>5, <3>1 DEF Stands
    <3>4. /\ Size(caps, offs) \in Nat /\ Size(caps, offs) <= ByteMax
          /\ caps # <<>> => Size(caps, offs) > 2
      <4>1. Size(caps, offs) \in Nat /\ (caps # <<>> => Size(caps, offs) > 2)
        BY <3>1, <3>2, SizeIs
      <4>2. ~(Size(caps, offs) > ByteMax)
        BY <2>7, <3>3 DEF PARAM_LENGTH_MAX
      <4> QED
        BY <4>1, <4>2, Constants
    <3>5. n \in Nat /\ (caps # <<>> => n = Size(caps, offs) - 2)
      <4> DEFINE size == Size(caps, offs)
      <4>1. n = (size - 0 - 2) % (ByteMax + 1)
        BY <3>3 DEF n, PARAM_HEADER_SIZE
      <4>2. size \in Nat /\ size <= ByteMax
        BY <3>4
      <4>3. caps # <<>> => size > 2
        BY <3>4
      <4> HIDE DEF size
      <4>4. size - 0 - 2 \in Int /\ size - 0 - 2 = size - 2
        BY <4>2
      <4>5. n \in 0..ByteMax
        BY <4>1, <4>4, Constants
      <4>6. size > 2 => n = size - 2
        BY <4>1, <4>2, <4>4, Constants
      <4> QED
        BY <4>3, <4>5, <4>6, Constants DEF size
    <3>6. b = Copied(m.buf, 1, <<n>>)
      BY <3>3 DEF b
    <3>7. /\ \A i \in 0..BufSize - 1 : b[i] \in Nat
          /\ b[1] = n /\ Laid(b, caps, offs)
      BY <1>1, <3>1, <3>2, <3>5, <3>6, LengthIsLaid
    <3>8. Stands(u, caps, offs, g)
      BY <2>4, <2>5, <3>1, <3>3, <3>5, <3>7 DEF Stands
    <3> QED
      BY <2>4, <2>5, <2>7, <3>7, <3>8 DEF Own
  <2>8. ASSUME ~(m.pptr > PARAM_LENGTH_MAX) PROVE Good(u, sy, g)
    BY <2>5, <2>7, <2>8 DEF Good
  <2> QED
    BY <1>3, <2>1, <2>4, <2>5, <2>6, <2>8
<1> QED
  BY <1>2, <1>3

LEMMA EndPendingIsGood ==
    ASSUME NEW m, NEW sy, NEW g, Good(m, sy, g), m.flags # {}, m.err = "ENOERR"
    PROVE  LET e == EndPending(m)
           IN  /\ Good(e, sy, g) /\ e.flags # {}
               /\ "F_RD" \in e.flags <=> "F_RD" \in m.flags
               /\ e.err = "ENOERR" => e.flags = m.flags \ {"F_PM"}
<1>1. CASE "F_PM" \in m.flags
  BY <1>1, EndCapsIsGood DEF EndPending
<1>2. CASE "F_PM" \notin m.flags
  BY <1>2 DEF EndPending
<1> QED
  BY <1>1, <1>2

-----------------------------------------------------------------------------
(* Putting a capability *)

\* The bytes of b behind the header, and a capability at last behind them.
Behind(b, c, last, cap) ==
    /\ c[0] = CAPABILITY_CODE
    /\ \A i \in 2..last - 1 : c[i] = b[i]
    /\ \A j \in 1..Len(cap) : c[last + (j - 1)] = cap[j]

\* The offsets with one more capability, that ends at next.
More(caps, offs, next) ==
    [i \in 0..Len(caps) + 1 |-> IF i <= Len(caps) THEN offs[i] ELSE next]

\* One more capability behind the others.
LEMMA OneMoreIsLaid ==
    ASSUME NEW b, NEW c, NEW caps \in Seq(Short), NEW offs, NEW cap \in Short,
           Laid(b, caps, offs), offs[Len(caps)] + Len(cap) <= BufSize,
           Behind(b, c, offs[Len(caps)], cap)
    PROVE  LET more == More(caps, offs, offs[Len(caps)] + Len(cap))
           IN  /\ Laid(c, Append(caps, cap), more)
               /\ Size(Append(caps, cap), more) = offs[Len(caps)] + Len(cap)
<1> DEFINE n == Len(caps)
           next == offs[n] + Len(cap)
           all == Append(caps, cap)
           more == More(caps, offs, next)
<1>1. /\ n \in Nat /\ all \in Seq(Short) /\ Len(all) = n + 1 /\ all[n + 1] = cap
      /\ \A i \in 1..n : all[i] = caps[i]
  BY AppendProperties, LenProperties
<1>2. /\ \A k \in 0..n : offs[k] \in Nat /\ offs[k] >= 2 /\ offs[k] <= offs[n]
      /\ offs[0] = 2
  <2>1. \A k \in 0..Len(caps) : offs[k] \in Nat /\ offs[k] >= 2 /\ offs[k] <= offs[Len(caps)]
    BY SizeIs
  <2>2. offs[0] = 2
    BY DEF Laid
  <2> QED
    BY <2>1, <2>2
<1>3. Len(cap) \in Nat /\ Len(cap) >= 2
  BY ShortIs
<1>4. \A i \in 1..n : Len(caps[i]) \in Nat
  BY ElementOfSeq, ShortIs
<1>5. all # <<>>
  BY <1>1, EmptySeq
<1>6. /\ c[0] = CAPABILITY_CODE /\ \A i \in 2..offs[n] - 1 : c[i] = b[i]
      /\ \A j \in 1..Len(cap) : c[offs[n] + (j - 1)] = cap[j]
  BY DEF Behind
<1>7. next = offs[n] + Len(cap) /\ next <= BufSize
  OBVIOUS
<1> HIDE DEF n, all, more, next
<1>8. /\ more \in [0..n + 1 -> Nat] /\ more[n + 1] = next /\ more[0] = 2
      /\ \A k \in 0..n : more[k] = offs[k]
  <2>1. next \in Nat
    BY <1>1, <1>2, <1>3, <1>7
  <2>2. \A k \in 0..n : k <= n
    BY <1>1
  <2>3. \A k \in 0..n + 1 : more[k] = IF k <= n THEN offs[k] ELSE next
    BY DEF more, More, n
  <2>4. n + 1 \in 0..n + 1 /\ ~(n + 1 <= n) /\ 0 \in 0..n /\ \A k \in 0..n : k \in 0..n + 1
    BY <1>1
  <2>5. /\ more[n + 1] = next /\ \A k \in 0..n : more[k] = offs[k]
    BY <2>2, <2>3, <2>4
  <2>6. \A k \in 0..n + 1 : more[k] \in Nat
    BY <1>2, <2>1, <2>3, <2>4, <1>1
  <2>7. more = [k \in 0..n + 1 |-> more[k]]
    BY DEF more, More, n
  <2> HIDE DEF more
  <2> QED
    BY <1>2, <2>4, <2>5, <2>6, <2>7
<1>9. \A i, j \in 0..n + 1 : i < j => more[i] < more[j]
  <2> SUFFICES ASSUME NEW i \in 0..n + 1, NEW j \in 0..n + 1, i < j
               PROVE  more[i] < more[j]
    OBVIOUS
  <2>1. CASE j <= n
    <3>1. i \in 0..n /\ j \in 0..n
      BY <1>1, <2>1
    <3>2. offs[i] < offs[j]
      BY <3>1 DEF Laid, n
    <3> QED
      BY <1>8, <3>1, <3>2
  <2>2. CASE ~(j <= n)
    <3>1. i \in 0..n /\ j = n + 1
      BY <1>1, <2>2
    <3>2. offs[i] <= offs[n] /\ offs[i] \in Nat /\ offs[n] \in Nat /\ next = offs[n] + Len(cap)
      BY <1>1, <1>2, <1>7, <3>1
    <3>3. more[i] = offs[i] /\ more[j] = next
      BY <1>8, <3>1
    <3> QED
      BY <1>3, <3>2, <3>3
  <2> QED
    BY <2>1, <2>2
<1>10. ASSUME NEW i \in 1..n + 1
      PROVE  /\ more[i] = more[i - 1] + Len(all[i]) /\ more[i] <= BufSize
             /\ \A j \in 1..Len(all[i]) : c[more[i - 1] + (j - 1)] = all[i][j]
  <2>1. CASE i <= n
    <3>1. i \in 1..n /\ i \in 0..n /\ i - 1 \in 0..n
      BY <1>1, <2>1
    <3>2. more[i] = offs[i] /\ more[i - 1] = offs[i - 1] /\ all[i] = caps[i]
      BY <1>1, <1>8, <3>1
    <3>3. /\ offs[i] = offs[i - 1] + Len(caps[i]) /\ offs[i] <= BufSize
          /\ \A j \in 1..Len(caps[i]) : b[offs[i - 1] + (j - 1)] = caps[i][j]
      BY <3>1 DEF Laid, n
    <3> DEFINE p == offs[i - 1]
               q == offs[i]
               l == Len(caps[i])
               e == offs[n]
    <3>4. p \in Nat /\ p >= 2 /\ l \in Nat /\ q = p + l /\ q <= e /\ e \in Nat
      BY <1>1, <1>2, <1>4, <3>1, <3>3
    <3>5. \A k \in 2..e - 1 : c[k] = b[k]
      BY <1>6
    <3>6. \A j \in 1..l : b[p + (j - 1)] = caps[i][j]
      BY <3>3
    <3> HIDE DEF p, q, l, e
    <3>7. \A j \in 1..l : p + (j - 1) \in 2..e - 1
      BY <3>4
    <3>8. \A j \in 1..l : c[p + (j - 1)] = caps[i][j]
      BY <3>5, <3>6, <3>7
    <3> QED
      BY <3>2, <3>3, <3>8 DEF p, l
  <2>2. CASE ~(i <= n)
    <3>1. i = n + 1 /\ i - 1 = n /\ n \in 0..n
      BY <1>1, <2>2
    <3>2. more[i] = next /\ more[i - 1] = offs[n] /\ all[i] = cap
      BY <1>1, <1>8, <3>1
    <3> QED
      BY <1>6, <1>7, <3>2
  <2> QED
    BY <2>1, <2>2
<1>11. Laid(c, all, more)
  BY <1>1, <1>6, <1>5, <1>8, <1>9, <1>10 DEF Laid
<1>12. Size(all, more) = next
  BY <1>1, <1>5, <1>8 DEF Size
<1> QED
  BY <1>7, <1>11, <1>12 DEF all, n, more, next

LEMMA PutIsGood ==
    ASSUME NEW m, NEW sy, NEW g, Good(m, sy, g), m.err = "ENOERR",
           {"F_WR", "F_PM"} \subseteq m.flags, NEW cap \in Caps,
           m.pptr + Len(cap) + PARAM_HEADER_SIZE <= BufSize
    PROVE  LET u == Put(m, cap)
           IN  Good(u, IF u.err = "ENOERR" THEN [sy EXCEPT !.caps = Append(@, cap)] ELSE sy, g)
<1> DEFINE first == m.pptr = m.params
           ptr == IF first THEN m.pptr + PARAM_HEADER_SIZE ELSE m.pptr
           n == CAPABILITY_HEADER_SIZE + cap[2]
           hb == IF first THEN Copied(m.buf, m.pptr, <<CAPABILITY_CODE, 0>>) ELSE m.buf
           hl == m.pktlen + (ptr - m.pptr)
           h == [m EXCEPT !.buf = hb, !.pktlen = hl]
           bad == [h EXCEPT !.err = "EINVOP"]
           b == Copied(hb, ptr, cap)
           u == [h EXCEPT !.buf = b, !.pptr = ptr + n, !.pktlen = @ + n]
           caps == sy.caps
           said == [sy EXCEPT !.caps = Append(@, cap)]
<1>1. /\ DOMAIN m = Fields /\ DOMAIN m.buf = 0..BufSize - 1
      /\ m.flags \subseteq {"F_RD", "F_WR", "F_PM"} /\ "F_RD" \notin m.flags /\ m.flags # {}
  BY DEF Good, Shaped
<1>2. Put(m, cap) = IF n > CAPABILITY_SIZE_MAX THEN bad ELSE u
  BY DEF Put
<1>3. DOMAIN hb = 0..BufSize - 1 /\ DOMAIN b = 0..BufSize - 1
  BY <1>1 DEF Copied
<1> HIDE DEF hb, hl, ptr, n, b
<1>4. /\ DOMAIN h = Fields /\ h.flags = m.flags /\ h.err = m.err /\ h.buf = hb
      /\ h.plen = m.plen /\ h.marker = m.marker /\ h.length = m.length
      /\ h.pktlen = hl /\ h.params = m.params /\ h.pptr = m.pptr
  BY <1>1 DEF Fields
<1> HIDE DEF h
<1>5. /\ DOMAIN bad = Fields /\ bad.buf = hb /\ bad.flags = m.flags /\ bad.err = "EINVOP"
      /\ DOMAIN u = Fields /\ u.flags = m.flags /\ u.err = m.err /\ u.buf = b
      /\ u.plen = m.plen /\ u.marker = m.marker /\ u.length = m.length
      /\ u.pktlen = hl + n /\ u.params = m.params /\ u.pptr = ptr + n
  BY <1>4 DEF Fields
<1> HIDE DEF bad, u
<1>6. Shaped(bad) /\ Shaped(u)
  BY <1>1, <1>3, <1>5 DEF Shaped
<1>7. Good(bad, sy, g)
  BY <1>1, <1>5, <1>6, FailedIsGood
<1>8. DOMAIN sy = {"caps", "own", "whole", "ends"}
  BY DEF Good
<1>9. DOMAIN said = DOMAIN sy /\ said.own = sy.own /\ said.whole = sy.whole /\ said.ends = sy.ends
      /\ said.caps = Append(caps, cap)
  BY <1>8
<1> HIDE DEF said
<1>10. ASSUME ~(n > CAPABILITY_SIZE_MAX), Own(m, caps, g) PROVE Own(u, Append(caps, cap), g)
  <2>1. PICK offs : Laid(m.buf, caps, offs) /\ Stands(m, caps, offs, g)
    BY <1>10 DEF Own
  <2>2. /\ caps \in Seq(Short) /\ \A i \in 0..BufSize - 1 : m.buf[i] \in Nat
        /\ g = Nothing /\ m.marker
    BY <1>1, <1>10 DEF Own
  <2>3. cap \in Short /\ n = Len(cap) /\ n \in Nat /\ n >= 2 /\ \A j \in 1..Len(cap) : cap[j] \in Nat
    <3>1. /\ Len(cap) \in Nat /\ Len(cap) >= 2 /\ Len(cap) = cap[2] + 2
          /\ cap \in Seq(Byte \cup {ByteMax + 1})
      BY CapsAssumption, LenProperties
    <3>2. cap[2] \in Byte \cup {ByteMax + 1}
      BY <3>1, ElementOfSeq
    <3>3. n = Len(cap)
      BY <3>1, <3>2, Constants DEF n, CAPABILITY_HEADER_SIZE, Byte
    <3>4. cap \in Short
      BY <1>10, <3>1, <3>3, Constants DEF Short, CAPABILITY_SIZE_MAX
    <3> QED
      BY <3>1, <3>3, <3>4, ShortIs
  <2> DEFINE last == offs[Len(caps)]
  <2>4. /\ last \in Nat /\ last >= 2
        /\ caps # <<>> => Size(caps, offs) = last /\ Size(caps, offs) > 2
        /\ caps = <<>> => Size(caps, offs) = 0
        /\ caps = <<>> => last = 2
    <3>1. Len(caps) \in 0..Len(caps) /\ (caps = <<>> => Len(caps) = 0)
      BY <2>1, <2>2, SizeIs
    <3>2. offs[0] = 2
      BY <2>1 DEF Laid
    <3> QED
      BY <2>1, <2>2, <3>1, <3>2, SizeIs
  <2>5. m.pktlen = Size(caps, offs) /\ m.params = 0 /\ m.pptr = Size(caps, offs)
    BY <1>1, <2>1 DEF Stands
  <2>6. m.buf[0] = CAPABILITY_CODE \/ caps = <<>>
    BY <2>1 DEF Laid
  <2> HIDE DEF last
  <2>7. /\ first <=> caps = <<>>
        /\ ptr = last /\ hl = last /\ last + n <= BufSize
    <3> DEFINE size == Size(caps, offs)
    <3>1. /\ m.pktlen = size /\ m.params = 0 /\ m.pptr = size
          /\ caps # <<>> => size = last /\ size > 2
          /\ caps = <<>> => size = 0 /\ last = 2
      BY <2>4, <2>5
    <3>2. (size + n) + 2 <= BufSize
      <4>1. m.pptr + Len(cap) + 2 <= BufSize
        BY DEF PARAM_HEADER_SIZE
      <4>2. size + Len(cap) + 2 <= BufSize /\ Len(cap) = n
        BY <2>3, <3>1, <4>1
      <4>3. size \in Nat
        BY <2>4, <3>1
      <4> HIDE DEF size
      <4> QED
        BY <2>3, <4>2, <4>3
    <3> HIDE DEF size
    <3>3. first <=> size = 0
      BY <3>1
    <3>4. size = 0 <=> caps = <<>>
      BY <3>1
    <3>5. ptr = IF size = 0 THEN size + 2 ELSE size
      BY <3>1, <3>3 DEF ptr, PARAM_HEADER_SIZE
    <3>6. hl = size + (ptr - size)
      BY <3>1 DEF hl
    <3>7. CASE caps = <<>>
      BY <2>3, <3>1, <3>2, <3>3, <3>4, <3>5, <3>6, <3>7, Constants
    <3>8. CASE caps # <<>>
      BY <2>3, <2>4, <3>1, <3>2, <3>3, <3>4, <3>5, <3>6, <3>8, Constants
    <3> QED
      BY <3>7, <3>8
  <2>8. /\ \A i \in 0..BufSize - 1 : hb[i] \in Nat
        /\ hb[0] = CAPABILITY_CODE
        /\ \A i \in 2..BufSize - 1 : hb[i] = m.buf[i]
    <3>1. CASE ~first
      BY <2>2, <2>6, <2>7, <3>1, Constants DEF hb
    <3>2. CASE first
      <4> DEFINE s == <<CAPABILITY_CODE, 0>>
      <4>1. Len(s) = 2 /\ s[1] = CAPABILITY_CODE /\ s[2] = 0
        OBVIOUS
      <4> HIDE DEF s
      <4>2. 0 \in Nat /\ Len(s) \in Nat /\ hb = Copied(m.buf, 0, s)
        <5>1. m.pptr = 0
          BY <2>4, <2>5, <2>7, <3>2
        <5> QED
          BY <3>2, <4>1, <5>1 DEF hb, s
      <4>3. \A i \in 0..BufSize - 1 :
               hb[i] = IF 0 <= i /\ i < 0 + Len(s) THEN s[(i - 0) + 1] ELSE m.buf[i]
        <5>1. \A i \in 0..BufSize - 1 : Copied(m.buf, 0, s)[i] =
                  IF 0 <= i /\ i < 0 + Len(s) THEN s[(i - 0) + 1] ELSE m.buf[i]
          <6> DEFINE off == 0
                     mb == m.buf
          <6>1. DOMAIN mb = 0..BufSize - 1 /\ off \in Nat /\ Len(s) \in Nat
            BY <1>1, <4>2
          <6> HIDE DEF off, mb
          <6>2. \A i \in 0..BufSize - 1 : Copied(mb, off, s)[i] =
                  IF off <= i /\ i < off + Len(s) THEN s[(i - off) + 1] ELSE mb[i]
            BY <6>1, CopiedIs, Zenon
          <6> QED
            BY <6>2 DEF off, mb
        <5> QED
          BY <4>2, <5>1
      <4>4. \A i \in 0..BufSize - 1 :
               hb[i] = IF i = 0 THEN CAPABILITY_CODE ELSE IF i = 1 THEN 0 ELSE m.buf[i]
        <5> SUFFICES ASSUME NEW i \in 0..BufSize - 1
                     PROVE  hb[i] = IF i = 0 THEN CAPABILITY_CODE
                                    ELSE IF i = 1 THEN 0 ELSE m.buf[i]
          OBVIOUS
        <5>1. 0 <= i /\ i < 0 + Len(s) <=> i = 0 \/ i = 1
          BY <4>1
        <5>2. (0 - 0) + 1 = 1 /\ (1 - 0) + 1 = 2
          OBVIOUS
        <5> QED
          BY <4>1, <4>3, <5>1, <5>2
      <4> QED
        BY <2>2, <4>4, Constants DEF CAPABILITY_CODE
    <3> QED
      BY <3>1, <3>2
  <2>9. \A i \in 0..BufSize - 1 :
          b[i] = IF last <= i /\ i < last + Len(cap) THEN cap[(i - last) + 1] ELSE hb[i]
    <3>1. Len(cap) \in Nat
      BY <2>3
    <3>2. b = Copied(hb, last, cap)
      BY <2>7 DEF b
    <3> QED
      <4>1. DOMAIN hb = 0..BufSize - 1 /\ last \in Nat
        BY <1>3, <2>4
      <4>2. \A i \in 0..BufSize - 1 : Copied(hb, last, cap)[i] =
                IF last <= i /\ i < last + Len(cap) THEN cap[(i - last) + 1] ELSE hb[i]
        BY <3>1, <4>1, CopiedIs, Zenon
      <4> QED
        BY <3>2, <4>2
  <2>10. \A i \in 0..BufSize - 1 : b[i] \in Nat
    <3> SUFFICES ASSUME NEW i \in 0..BufSize - 1 PROVE b[i] \in Nat
      OBVIOUS
    <3>1. CASE last <= i /\ i < last + Len(cap)
      <4>1. (i - last) + 1 \in 1..Len(cap)
        BY <2>3, <2>4, <3>1
      <4> QED
        BY <2>3, <2>9, <3>1, <4>1
    <3>2. CASE ~(last <= i /\ i < last + Len(cap))
      BY <2>8, <2>9, <3>2
    <3> QED
      BY <3>1, <3>2
  <2>11. b[0] = CAPABILITY_CODE /\ \A i \in 2..last - 1 : b[i] = m.buf[i]
    <3>1. 0 \in 0..BufSize - 1 /\ ~(last <= 0)
      BY <2>4, Constants
    <3>2. last \in Nat /\ last <= BufSize /\ BufSize \in Nat
      BY <2>3, <2>4, <2>7, Constants
    <3>3. \A i \in 2..last - 1 : i \in 0..BufSize - 1 /\ i \in 2..BufSize - 1 /\ ~(last <= i)
      BY <3>2
    <3> QED
      BY <2>8, <2>9, <3>1, <3>3
  <2>12. \A j \in 1..Len(cap) : b[last + (j - 1)] = cap[j]
    <3> SUFFICES ASSUME NEW j \in 1..Len(cap) PROVE b[last + (j - 1)] = cap[j]
      OBVIOUS
    <3> DEFINE i == last + (j - 1)
    <3>1. /\ i \in 0..BufSize - 1 /\ last <= i /\ i < last + Len(cap)
          /\ (i - last) + 1 = j
      BY <2>3, <2>4, <2>7, Constants
    <3> HIDE DEF i
    <3>2. b[i] = cap[j]
      BY <2>9, <3>1
    <3> QED
      BY <3>2 DEF i
  <2>13. PICK more : /\ Laid(b, Append(caps, cap), more)
                     /\ Size(Append(caps, cap), more) = last + Len(cap)
    <3>1. last = offs[Len(caps)] /\ last + Len(cap) <= BufSize
      BY <2>3, <2>7 DEF last
    <3>2. Behind(m.buf, b, last, cap)
      BY <2>11, <2>12 DEF Behind
    <3> DEFINE mb == m.buf
    <3>3. /\ Laid(mb, caps, offs) /\ caps \in Seq(Short) /\ cap \in Short
          /\ offs[Len(caps)] + Len(cap) <= BufSize
          /\ Behind(mb, b, offs[Len(caps)], cap)
      BY <2>1, <2>2, <2>3, <3>1, <3>2
    <3> HIDE DEF mb, caps
    <3>4. LET more == More(caps, offs, offs[Len(caps)] + Len(cap))
          IN  /\ Laid(b, Append(caps, cap), more)
              /\ Size(Append(caps, cap), more) = offs[Len(caps)] + Len(cap)
      BY <3>3, OneMoreIsLaid
    <3> QED
      BY <3>1, <3>4
  <2>14. Stands(u, Append(caps, cap), more, g)
    <3>1. g.null = FALSE
      BY <2>2 DEF Nothing
    <3> QED
      BY <1>1, <1>5, <2>3, <2>5, <2>7, <2>13, <3>1 DEF Stands
  <2>15. Append(caps, cap) \in Seq(Short) /\ Len(Append(caps, cap)) \in Nat
    BY <2>2, <2>3, AppendProperties, LenProperties
  <2>16. Read(Append(caps, cap), g, 0)
    BY <2>2, <2>15, SubSeqEmpty DEF Read, Nothing
  <2> QED
    BY <1>1, <1>5, <1>10, <2>2, <2>10, <2>13, <2>14, <2>15, <2>16 DEF Own
<1>11. ASSUME ~(n > CAPABILITY_SIZE_MAX) PROVE Good(u, said, g)
  BY <1>1, <1>5, <1>6, <1>9, <1>10, <1>11 DEF Good
<1>12. CASE n > CAPABILITY_SIZE_MAX
  <2>1. Put(m, cap) = bad /\ bad.err # "ENOERR"
    BY <1>2, <1>5, <1>12
  <2> QED
    BY <1>7, <2>1
<1>13. CASE ~(n > CAPABILITY_SIZE_MAX)
  <2>1. Put(m, cap) = u /\ u.err = "ENOERR"
    BY <1>2, <1>5, <1>13
  <2> QED
    BY <1>11, <1>13, <2>1 DEF said
<1> QED
  BY <1>12, <1>13

-----------------------------------------------------------------------------
(* Reading the capabilities *)

\* A message that is read keeps its shape.
LEMMA NextIsShaped ==
    ASSUME NEW m, Shaped(m), "F_RD" \in m.flags
    PROVE  Shaped(Next1(m).msg) /\ Next1(m).msg.flags = m.flags
<1> DEFINE p == Place(m)
<1>1. ASSUME NEW a, NEW b
      PROVE  LET u == [m EXCEPT !.params = a, !.pptr = b]
             IN  Shaped(u) /\ u.flags = m.flags
  <2> DEFINE u == [m EXCEPT !.params = a, !.pptr = b]
  <2>1. DOMAIN u = Fields /\ u.buf = m.buf /\ u.flags = m.flags
    BY DEF Shaped, Fields
  <2> QED
    BY <2>1 DEF Shaped
<1>2. ASSUME NEW a, NEW err
      PROVE  LET u == [m EXCEPT !.params = a, !.err = err]
             IN  Shaped(u) /\ u.flags = m.flags
  <2> DEFINE u == [m EXCEPT !.params = a, !.err = err]
  <2>1. DOMAIN u = Fields /\ u.buf = m.buf /\ u.flags = m.flags
    BY DEF Shaped, Fields
  <2> QED
    BY <2>1 DEF Shaped
<1> HIDE DEF p
<1>3. Shaped(Taken(m, p).msg) /\ Taken(m, p).msg.flags = m.flags
  BY <1>1 DEF Taken
<1>4. ASSUME NEW err
      PROVE  Shaped(NoMore(m, p, err).msg) /\ NoMore(m, p, err).msg.flags = m.flags
  BY <1>2 DEF NoMore
<1>5. \/ Next1(m) = Taken(m, p)
      \/ \E err : Next1(m) = NoMore(m, p, err)
  BY DEF Next1, p
<1> QED
  BY <1>3, <1>4, <1>5

\* A parameter of capabilities is not skipped, nor is the end of the list.
LEMMA SkipStops ==
    ASSUME NEW m, NEW p, NEW e, p >= m.plen \/ At(m, p) = CAPABILITY_CODE
    PROVE  Skip(m, p, e) = [over |-> p >= m.plen, params |-> p, end |-> e]
BY DEF Skip

LEMMA SkipEnds ==
    ASSUME NEW m, NEW p, NEW e, p >= m.plen
    PROVE  Skip(m, p, e) = [over |-> TRUE, params |-> p, end |-> e]
<1>1. Skip(m, p, e) = [over |-> p >= m.plen, params |-> p, end |-> e]
  BY SkipStops
<1> QED
  BY <1>1

\* Where nextbgpcap finds the capability behind the first k.
LEMMA PlaceIs ==
    ASSUME NEW m, Shaped(m), NEW caps \in Seq(Short), NEW offs, Laid(m.buf, caps, offs),
           NEW k \in 0..Len(caps), m.params = 0, m.pptr = IF k = 0 THEN 0 ELSE offs[k],
           m.plen = Size(caps, offs), caps # <<>> => m.buf[1] = Size(caps, offs) - 2,
           \A i \in 0..BufSize - 1 : m.buf[i] \in Nat
    PROVE  LET p == Place(m)
           IN  IF k = Len(caps)
                 THEN p.over /\ p.params = m.plen
                 ELSE ~p.over /\ p.params = 0 /\ p.end = m.plen /\ p.ptr = offs[k]
<1> DEFINE size == Size(caps, offs)
           n == Len(caps)
           end == m.params + PARAM_HEADER_SIZE + At(m, m.params + 1)
           p == Place(m)
<1>1. /\ n \in Nat /\ size \in Nat
      /\ caps = <<>> <=> n = 0
      /\ \A i \in 0..n : offs[i] \in Nat /\ offs[i] >= 2 /\ offs[i] <= offs[n]
      /\ caps # <<>> => size = offs[n] /\ size > 2
      /\ caps = <<>> => size = 0
  BY SizeIs
<1>2. offs[0] = 2 /\ (caps # <<>> => m.buf[0] = CAPABILITY_CODE)
      /\ \A i, j \in 0..n : i < j => offs[i] < offs[j]
  BY DEF Laid
<1>3. end = 2 + m.buf[1] /\ m.buf[1] \in Nat
  <2>1. 1 \in DOMAIN m.buf /\ 1 \in 0..BufSize - 1
    BY Constants DEF Shaped
  <2>2. m.params + 1 = 1 /\ At(m, 1) = m.buf[1] /\ m.buf[1] \in Nat
    BY <2>1 DEF At
  <2> QED
    BY <2>2 DEF PARAM_HEADER_SIZE
<1>4. ASSUME n # 0 PROVE end = size /\ end = offs[n] /\ size > 2 /\ m.plen = size
  <2>1. m.buf[1] = size - 2 /\ size = offs[n] /\ size > 2
    BY <1>1, <1>4
  <2> HIDE DEF size, end
  <2>2. end = size
    BY <1>1, <1>3, <2>1
  <2> QED
    BY <2>1, <2>2 DEF size
<1>5. ASSUME m.pptr = end
      PROVE  LET w == Skip(m, end, end)
             IN  p = [over |-> w.over, params |-> w.params, end |-> w.end,
                      ptr |-> w.params + PARAM_HEADER_SIZE]
  BY <1>5 DEF Place
<1>6. ASSUME m.pptr # end, m.pptr = 0
      PROVE  LET w == Skip(m, 0, end)
             IN  p = [over |-> w.over, params |-> w.params, end |-> w.end,
                      ptr |-> w.params + PARAM_HEADER_SIZE]
  BY <1>6 DEF Place
<1>7. ASSUME m.pptr # end, m.pptr # 0
      PROVE  p = [over |-> FALSE, params |-> 0, end |-> end, ptr |-> m.pptr]
  BY <1>7 DEF Place
<1>8. m.plen = size
  OBVIOUS
<1> HIDE DEF size, n, end, p
<1>9. CASE n = 0
  <2>1. k = 0 /\ m.pptr = 0 /\ size = 0 /\ k = n
    BY <1>1, <1>9 DEF n
  <2>2. m.pptr # end
    BY <1>3, <2>1
  <2>3. Skip(m, 0, end) = [over |-> TRUE, params |-> 0, end |-> end]
    <3>1. 0 >= m.plen
      BY <1>8, <2>1
    <3> QED
      BY <3>1, SkipEnds
  <2>4. p.over /\ p.params = m.plen
    BY <1>6, <1>8, <2>1, <2>2, <2>3
  <2> QED
    BY <2>1, <2>4 DEF n, p
<1>10. CASE n # 0 /\ k = n
  <2>1. m.pptr = end /\ end = m.plen /\ end \in Nat
    BY <1>1, <1>4, <1>10
  <2>2. Skip(m, end, end) = [over |-> TRUE, params |-> end, end |-> end]
    <3>1. end >= m.plen
      BY <2>1
    <3> QED
      BY <3>1, SkipEnds
  <2>3. p.over /\ p.params = m.plen
    BY <1>5, <2>1, <2>2
  <2> QED
    BY <1>10, <2>3 DEF n, p
<1>11. CASE n # 0 /\ k # n
  <2>1. k \in 0..n /\ n \in 0..n /\ k < n
    BY <1>1, <1>11 DEF n
  <2>2. offs[k] \in Nat /\ offs[k] >= 2 /\ offs[k] < end /\ end = m.plen /\ end > 2
    BY <1>1, <1>2, <1>4, <1>11, <2>1
  <2>3. m.pptr # end
    BY <1>2, <2>2
  <2>4. ~p.over /\ p.params = 0 /\ p.end = end /\ p.ptr = offs[k]
    <3>1. CASE k = 0
      <4>1. 0 \in DOMAIN m.buf /\ At(m, 0) = CAPABILITY_CODE
        BY <1>1, <1>2, <1>11, Constants DEF Shaped, At
      <4>2. Skip(m, 0, end) = [over |-> 0 >= m.plen, params |-> 0, end |-> end]
        BY <4>1, SkipStops, Zenon
      <4>3. ~(0 >= m.plen) /\ offs[k] = 0 + PARAM_HEADER_SIZE
        <5>1. end \in Nat
          BY <1>1, <1>4, <1>11
        <5> QED
          BY <1>2, <2>2, <3>1, <5>1 DEF PARAM_HEADER_SIZE
      <4>4. m.pptr = 0
        BY <3>1
      <4>5. p = [over |-> 0 >= m.plen, params |-> 0, end |-> end, ptr |-> 0 + PARAM_HEADER_SIZE]
        BY <1>6, <2>3, <4>2, <4>4
      <4> QED
        BY <4>3, <4>5
    <3>2. CASE k # 0
      BY <1>7, <2>2, <2>3, <3>2
    <3> QED
      BY <3>1, <3>2
  <2> QED
    BY <1>11, <2>2, <2>4 DEF n, p
<1> QED
  BY <1>9, <1>10, <1>11

\* The capability behind the first k is the one that was put there.
LEMMA BytesAre ==
    ASSUME NEW m, Shaped(m), NEW caps \in Seq(Short), NEW offs, Laid(m.buf, caps, offs),
           NEW k \in 0..Len(caps) - 1
    PROVE  /\ CAPABILITY_HEADER_SIZE + At(m, offs[k] + 1) = Len(caps[k + 1])
           /\ Bytes(m, offs[k], Len(caps[k + 1])) = caps[k + 1]
           /\ caps[k + 1] # <<>>
           /\ offs[k] + Len(caps[k + 1]) = offs[k + 1] /\ offs[k + 1] <= offs[Len(caps)]
<1> DEFINE n == Len(caps)
           cap == caps[k + 1]
           off == offs[k]
           l == Len(cap)
<1>1. /\ n \in Nat /\ \A i \in 0..n : offs[i] \in Nat /\ offs[i] >= 2 /\ offs[i] <= offs[n]
  BY SizeIs
<1>2. k \in 0..n /\ k + 1 \in 1..n /\ k + 1 \in 0..n /\ (k + 1) - 1 = k
  BY <1>1
<1>3. /\ cap \in Short /\ l \in Nat /\ l >= 2 /\ l = cap[2] + 2 /\ cap[2] \in Nat
      /\ cap \in Seq(Byte \cup {ByteMax + 1})
  <2>1. cap \in Short
    BY <1>2, ElementOfSeq
  <2>2. 2 \in 1..l /\ l \in Nat
    BY <2>1, ShortIs
  <2> QED
    BY <2>1, <2>2, ShortIs, CapsAssumption DEF Short
<1>4. /\ offs[k + 1] = offs[(k + 1) - 1] + l /\ offs[k + 1] <= BufSize
      /\ \A j \in 1..l : m.buf[offs[(k + 1) - 1] + (j - 1)] = cap[j]
  BY <1>2 DEF Laid
<1>5. /\ offs[k + 1] = off + l /\ off + l <= BufSize
      /\ \A j \in 1..l : m.buf[off + (j - 1)] = cap[j]
  BY <1>2, <1>4
<1>6. off \in Nat /\ offs[k + 1] <= offs[n]
  BY <1>1, <1>2
<1>7. DOMAIN m.buf = 0..BufSize - 1
  BY DEF Shaped
<1> HIDE DEF cap, off, l, n
<1>8. ASSUME NEW j \in 1..l
      PROVE  off + (j - 1) \in 0..BufSize - 1 /\ off + j - 1 = off + (j - 1)
  BY <1>3, <1>5, <1>6, Constants
<1>9. \A j \in 1..l : At(m, off + j - 1) = cap[j]
  BY <1>5, <1>7, <1>8 DEF At
<1>10. At(m, off + 1) = cap[2]
  <2>1. 2 \in 1..l /\ off + 2 - 1 = off + 1
    BY <1>3, <1>6
  <2> QED
    BY <1>9, <2>1
<1>11. Bytes(m, off, l) = cap
  <2>1. Bytes(m, off, l) = [j \in 1..l |-> cap[j]]
    BY <1>9 DEF Bytes
  <2>2. cap = [j \in 1..l |-> cap[j]]
    BY <1>3 DEF l
  <2> QED
    BY <2>1, <2>2
<1>12. CAPABILITY_HEADER_SIZE + At(m, off + 1) = l
  BY <1>3, <1>10 DEF CAPABILITY_HEADER_SIZE
<1>13. cap # <<>>
  BY <1>3 DEF l
<1> QED
  BY <1>5, <1>6, <1>11, <1>12, <1>13 DEF cap, off, l, n

LEMMA NextIsGood ==
    ASSUME NEW m, NEW sy, NEW g, Good(m, sy, g), {"F_RD", "F_PM"} \subseteq m.flags,
           m.err = "ENOERR", ~g.null
    PROVE  LET r == Next1(m)
           IN  Good(r.msg, sy, IF r.cap = <<>> THEN [g EXCEPT !.null = TRUE]
                               ELSE [g EXCEPT !.caps = Append(@, r.cap)])
<1> DEFINE r == Next1(m)
           h == IF r.cap = <<>> THEN [g EXCEPT !.null = TRUE]
                ELSE [g EXCEPT !.caps = Append(@, r.cap)]
           caps == sy.caps
           p == Place(m)
           n == CAPABILITY_HEADER_SIZE + At(m, p.ptr + 1)
<1>1. Shaped(m) /\ DOMAIN m = Fields /\ DOMAIN g = {"caps", "null"}
  BY DEF Good, Shaped
<1>2. Shaped(r.msg) /\ r.msg.flags = m.flags /\ m.flags # {}
  BY <1>1, NextIsShaped
<1>3. DOMAIN h = {"caps", "null"}
  BY <1>1
<1>4. ASSUME Own(m, caps, g) PROVE Own(r.msg, caps, h)
  <2>1. PICK offs : Laid(m.buf, caps, offs) /\ Stands(m, caps, offs, g)
    BY <1>4 DEF Own
  <2>2. caps \in Seq(Short) /\ m.marker /\ \A i \in 0..BufSize - 1 : m.buf[i] \in Nat
    BY <1>4 DEF Own
  <2> DEFINE size == Size(caps, offs)
  <2>3. /\ m.pktlen = size /\ m.plen = size /\ m.length = size /\ m.params = 0
        /\ caps # <<>> => m.buf[1] = size - 2
    BY <2>1 DEF Stands
  <2>4. PICK k : Read(caps, g, k) /\ m.pptr = IF k = 0 THEN 0 ELSE offs[k]
    BY <2>1 DEF Stands
  <2>5. Len(caps) \in Nat /\ k \in 0..Len(caps) /\ g.caps = SubSeq(caps, 1, k)
    BY <2>2, <2>4, LenProperties DEF Read
  <2>6. IF k = Len(caps) THEN p.over /\ p.params = m.plen
        ELSE ~p.over /\ p.params = 0 /\ p.end = m.plen /\ p.ptr = offs[k]
    BY <1>1, <2>1, <2>2, <2>3, <2>4, <2>5, PlaceIs
  <2>7. size \in Nat /\ (caps # <<>> => size = offs[Len(caps)])
        /\ (caps = <<>> <=> Len(caps) = 0)
        /\ \A i \in 0..Len(caps) : offs[i] \in Nat
    BY <2>1, <2>2, SizeIs
  <2> HIDE DEF p, size, caps
  <2>8. CASE k = Len(caps)
    <3>1. r = NoMore(m, p, "ENOERR")
      <4>1. p.over /\ p.params = m.plen /\ ~(p.params > m.plen)
        BY <2>3, <2>6, <2>7, <2>8
      <4> QED
        BY <4>1 DEF Next1, p
    <3> DEFINE a == p.params
               u == [m EXCEPT !.params = a, !.err = "ENOERR"]
    <3>2. r.msg = u /\ r.cap = <<>>
      BY <3>1 DEF NoMore
    <3>3. h = [g EXCEPT !.null = TRUE]
      BY <3>2
    <3> HIDE DEF r, h, a
    <3>4. /\ u.flags = m.flags /\ u.err = "ENOERR" /\ u.buf = m.buf
          /\ u.plen = m.plen /\ u.marker = m.marker /\ u.length = m.length
          /\ u.pktlen = m.pktlen
      BY <1>1 DEF Fields
    <3>5. h.null /\ h.caps = g.caps
      BY <1>1, <3>3
    <3>6. g.caps = caps
      BY <2>2, <2>5, <2>8, SubSeqFull
    <3> HIDE DEF u
    <3>7. Stands(u, caps, offs, h)
      BY <2>3, <3>4, <3>5, <3>6 DEF Stands, size
    <3>8. Read(caps, h, k)
      BY <2>5, <3>5 DEF Read
    <3>9. Laid(u.buf, caps, offs)
      BY <2>1, <3>4
    <3>10. Own(u, caps, h)
      BY <2>2, <3>4, <3>7, <3>8, <3>9 DEF Own
    <3> QED
      BY <3>2, <3>10
  <2>9. CASE k # Len(caps)
    <3> DEFINE cap == caps[k + 1]
               off == offs[k]
               l == Len(cap)
    <3>1. k \in 0..Len(caps) - 1
      BY <2>5, <2>9
    <3>2. /\ CAPABILITY_HEADER_SIZE + At(m, off + 1) = l
          /\ Bytes(m, off, l) = cap /\ cap # <<>>
          /\ off + l = offs[k + 1] /\ offs[k + 1] <= offs[Len(caps)]
      <4>1. Shaped(m) /\ caps \in Seq(Short) /\ Laid(m.buf, caps, offs)
            /\ k \in 0..Len(caps) - 1
        BY <1>1, <2>1, <2>2, <3>1
      <4>2. /\ CAPABILITY_HEADER_SIZE + At(m, offs[k] + 1) = Len(caps[k + 1])
            /\ Bytes(m, offs[k], Len(caps[k + 1])) = caps[k + 1]
            /\ caps[k + 1] # <<>>
            /\ offs[k] + Len(caps[k + 1]) = offs[k + 1] /\ offs[k + 1] <= offs[Len(caps)]
        BY <4>1, BytesAre, Zenon
      <4> QED
        BY <4>2
    <3>3. ~p.over /\ p.params = 0 /\ p.end = size /\ p.ptr = off
      BY <2>3, <2>6, <2>9
    <3>4. /\ size = offs[Len(caps)] /\ k + 1 \in 0..Len(caps) /\ k + 1 # 0
          /\ Len(caps) \in 0..Len(caps) /\ k \in Nat
      BY <2>5, <2>7, <3>1
    <3> HIDE DEF cap, off, l
    <3>5. r = Taken(m, p)
      <4>1. p.ptr + n = offs[k + 1] /\ ~(p.ptr + n > p.end)
        <5>1. n = l /\ p.ptr + n = offs[k + 1]
          BY <3>2, <3>3
        <5>2. offs[k + 1] \in Nat /\ size \in Nat /\ offs[k + 1] <= size
          BY <2>7, <3>2, <3>4
        <5> QED
          BY <3>3, <5>1, <5>2
      <4> QED
        BY <3>3, <4>1 DEF Next1, p
    <3> DEFINE next == offs[k + 1]
               u == [m EXCEPT !.params = 0, !.pptr = next]
    <3>6. r.msg = u /\ r.cap = cap
      <4>1. n = l /\ off + l = next
        BY <3>2, <3>3
      <4>2. r.cap = Bytes(m, p.ptr, n) /\ r.msg = [m EXCEPT !.params = p.params, !.pptr = p.ptr + n]
        BY <3>5 DEF Taken
      <4> HIDE DEF n, next
      <4> QED
        BY <3>2, <3>3, <4>1, <4>2
    <3>7. h = [g EXCEPT !.caps = Append(@, cap)]
      BY <3>2, <3>6
    <3> HIDE DEF r, h, next
    <3>8. /\ u.flags = m.flags /\ u.err = "ENOERR" /\ u.buf = m.buf
          /\ u.plen = m.plen /\ u.marker = m.marker /\ u.length = m.length
          /\ u.pktlen = m.pktlen /\ u.params = 0 /\ u.pptr = next
      BY <1>1 DEF Fields
    <3>9. ~h.null /\ h.caps = Append(g.caps, cap)
      BY <1>1, <3>7
    <3> HIDE DEF u
    <3>10. Read(caps, h, k + 1)
      <4>1. Append(SubSeq(caps, 1, k), cap) = SubSeq(caps, 1, k + 1)
        BY <2>2, <3>1, AppendFront DEF cap
      <4> QED
        BY <2>5, <3>4, <3>9, <4>1 DEF Read
    <3>11. Stands(u, caps, offs, h)
      <4>1. u.pptr = IF k + 1 = 0 THEN 0 ELSE offs[k + 1]
        BY <3>4, <3>8 DEF next
      <4>2. "F_RD" \in u.flags /\ "F_PM" \in u.flags
        BY <3>8
      <4>3. \E i : Read(caps, h, i) /\ u.pptr = IF i = 0 THEN 0 ELSE offs[i]
        BY <3>10, <4>1
      <4> QED
        BY <2>3, <3>8, <3>9, <4>2, <4>3 DEF Stands, size
    <3>12. Laid(u.buf, caps, offs)
      BY <2>1, <3>8
    <3>13. Own(u, caps, h)
      BY <2>2, <3>8, <3>10, <3>11, <3>12 DEF Own
    <3> QED
      BY <3>6, <3>13
  <2> QED
    BY <2>8, <2>9
<1> HIDE DEF h, r
<1>5. Good(r.msg, sy, h)
  BY <1>2, <1>3, <1>4 DEF Good
<1> QED
  BY <1>5 DEF h, r

-----------------------------------------------------------------------------
(* The invariant *)

\* A message in which nothing was put.
LEMMA FreshIsGood ==
    ASSUME NEW m, DOMAIN m = Fields, m.flags \in {{}, {"F_WR"}}, m.err = "ENOERR", m.marker,
           DOMAIN m.buf = 0..BufSize - 1, \A i \in 0..BufSize - 1 : m.buf[i] \in Nat,
           m.plen = 0, m.pktlen = 0
    PROVE  Good(m, Unsaid, Nothing)
<1> DEFINE none == <<>>
           offs == [i \in 0..0 |-> 2]
<1>1. none \in Seq(Short) /\ Len(none) = 0 /\ none = <<>> /\ SubSeq(none, 1, 0) = <<>>
  BY EmptySeq, SubSeqEmpty
<1> HIDE DEF none
<1>2. Size(none, offs) = 0
  BY <1>1 DEF Size
<1>3. Laid(m.buf, none, offs)
  <2>1. offs \in [0..Len(none) -> Nat] /\ offs[0] = 2
    BY <1>1
  <2>2. \A i, j \in 0..Len(none) : ~(i < j)
    BY <1>1
  <2>3. \A i \in 1..Len(none) : FALSE
    BY <1>1
  <2> HIDE DEF offs
  <2> QED
    BY <1>1, <2>1, <2>2, <2>3 DEF Laid
<1>4. Stands(m, none, offs, Nothing)
  BY <1>1, <1>2 DEF Stands, Nothing
<1>5. Read(none, Nothing, 0)
  BY <1>1 DEF Read, Nothing
<1> HIDE DEF offs
<1>6. Own(m, none, Nothing)
  BY <1>1, <1>3, <1>4, <1>5 DEF Own
<1>7. Shaped(m)
  BY DEF Shaped
<1> QED
  BY <1>1, <1>6, <1>7 DEF Good, Unsaid, Nothing

LEMMA UnusedIsGood == Good(Unused, Unsaid, Nothing)
<1>1. /\ DOMAIN Unused = Fields /\ Unused.flags = {} /\ Unused.err = "ENOERR" /\ Unused.marker
      /\ Unused.buf = Filled(0) /\ Unused.plen = 0 /\ Unused.pktlen = 0
  BY DEF Unused, Fields
<1>2. DOMAIN Filled(0) = 0..BufSize - 1 /\ \A i \in 0..BufSize - 1 : Filled(0)[i] \in Nat
  BY DEF Filled
<1> QED
  BY <1>1, <1>2, FreshIsGood

LEMMA ReadIsGood ==
    ASSUME Good(msg, says, got), setbgpread
    PROVE  Good(msg', says', got')
<1>1. PICK list, op, junk :
        /\ msg' = [Unused EXCEPT !.type = "OPEN", !.flags = {"F_RD"},
                       !.buf = Copied(Filled(junk), 0, Encode(list)),
                       !.plen = Len(Encode(list)), !.length = Len(Encode(list)),
                       !.pktlen = Len(Encode(list)), !.open = op]
        /\ says' = [caps |-> CapsOf(list), own |-> FALSE, whole |-> FALSE,
                    ends |-> \A i \in DOMAIN list : list[i].excess = 0]
  BY DEF setbgpread
<1> DEFINE bytes == Encode(list)
<1>2. DOMAIN says' = {"caps", "own", "whole", "ends"} /\ ~says'.own
  BY <1>1
<1>3. got' = Nothing
  BY DEF setbgpread, Closed, Good
<1>4. DOMAIN msg' = Fields /\ msg'.flags = {"F_RD"} /\ msg'.buf = Copied(Filled(junk), 0, bytes)
  <2> DEFINE b == Copied(Filled(junk), 0, bytes)
             l == Len(bytes)
  <2> HIDE DEF b, l
  <2>1. msg' = [Unused EXCEPT !.type = "OPEN", !.flags = {"F_RD"}, !.buf = b, !.plen = l,
                    !.length = l, !.pktlen = l, !.open = op]
    BY <1>1 DEF b, l
  <2>2. DOMAIN msg' = Fields /\ msg'.flags = {"F_RD"} /\ msg'.buf = b
    BY <2>1 DEF Unused, Fields
  <2> QED
    BY <2>2 DEF b
<1>5. DOMAIN msg'.buf = 0..BufSize - 1
  BY <1>4 DEF Copied, Filled
<1>6. Shaped(msg')
  BY <1>4, <1>5 DEF Shaped
<1> QED
  BY <1>2, <1>3, <1>4, <1>6 DEF Good, Nothing

LEMMA WriteIsGood ==
    ASSUME Good(msg, says, got), NEW type, setbgpwrite(type)
    PROVE  Good(msg', says', got')
<1>1. PICK junk \in Junk :
        msg' = [Unused EXCEPT !.type = type, !.flags = {"F_WR"}, !.buf = Filled(junk)]
  BY DEF setbgpwrite
<1>2. says' = Unsaid /\ got' = Nothing
  BY DEF setbgpwrite, Closed, Good
<1>3. /\ DOMAIN msg' = Fields /\ msg'.flags = {"F_WR"} /\ msg'.err = "ENOERR" /\ msg'.marker
      /\ msg'.buf = Filled(junk) /\ msg'.plen = 0 /\ msg'.pktlen = 0
  BY <1>1 DEF Unused, Fields
<1>4. junk \in Nat
  BY JunkAssumption, Constants DEF Byte
<1>5. DOMAIN Filled(junk) = 0..BufSize - 1 /\ \A i \in 0..BufSize - 1 : Filled(junk)[i] \in Nat
  BY <1>4 DEF Filled
<1> QED
  BY <1>2, <1>3, <1>5, FreshIsGood

LEMMA OpenIsGood ==
    ASSUME Good(msg, says, got), setbgpopen
    PROVE  Good(msg', says', got')
<1>1. msg.flags # {} /\ DOMAIN msg = Fields /\ says' = says /\ got' = got
  BY DEF setbgpopen, Closed, Good, Shaped
<1>2. CASE msg' = Refuse(msg)
  BY <1>1, <1>2, RefusedIsGood
<1>3. CASE \E op \in Opens : msg' = [msg EXCEPT !.open = op]
  <2>1. /\ DOMAIN msg' = Fields /\ msg'.flags = msg.flags /\ msg'.err = msg.err
        /\ msg'.buf = msg.buf /\ msg'.plen = msg.plen /\ msg'.marker = msg.marker
        /\ msg'.length = msg.length /\ msg'.pktlen = msg.pktlen
        /\ msg'.params = msg.params /\ msg'.pptr = msg.pptr
    BY <1>1, <1>3 DEF Fields
  <2>2. ASSUME NEW caps, NEW offs, Stands(msg, caps, offs, got)
        PROVE  Stands(msg', caps, offs, got)
    BY <2>1, <2>2 DEF Stands
  <2>3. Own(msg, says.caps, got) => Own(msg', says.caps, got)
    BY <2>1, <2>2 DEF Own
  <2>4. Shaped(msg')
    BY <2>1 DEF Good, Shaped
  <2> QED
    BY <1>1, <2>1, <2>3, <2>4 DEF Good
<1> QED
  BY <1>2, <1>3 DEF setbgpopen

LEMMA ParamsIsGood ==
    ASSUME Good(msg, says, got), setbgpparams
    PROVE  Good(msg', says', got')
<1>1. msg.flags # {} /\ DOMAIN msg = Fields /\ DOMAIN msg.buf = 0..BufSize - 1 /\ got' = got
  BY DEF setbgpparams, Closed, Good, Shaped
<1>2. CASE msg' = Refuse(msg) /\ says' = says
  BY <1>1, <1>2, RefusedIsGood
<1>3. CASE ~(msg' = Refuse(msg) /\ says' = says)
  <2>1. PICK s \in RawLists :
          /\ msg' = [msg EXCEPT !.marker = Len(s) = ByteMax,
                         !.buf = Copied(@, 0, s), !.pktlen = Len(s)]
          /\ says' = [says EXCEPT !.whole = TRUE]
    BY <1>3 DEF setbgpparams
  <2>2. DOMAIN msg' = Fields /\ msg'.flags = msg.flags /\ msg'.buf = Copied(msg.buf, 0, s)
    BY <1>1, <2>1 DEF Fields
  <2>3. DOMAIN msg'.buf = 0..BufSize - 1
    BY <1>1, <2>2 DEF Copied
  <2>4. Shaped(msg')
    BY <2>2, <2>3 DEF Good, Shaped
  <2>5. DOMAIN says' = {"caps", "own", "whole", "ends"} /\ says'.whole
        /\ says'.own = says.own /\ says'.ends = says.ends
    BY <2>1 DEF Good
  <2> QED
    BY <1>1, <2>2, <2>4, <2>5 DEF Good
<1> QED
  BY <1>2, <1>3

\* The list of capabilities begins again, at its first parameter.
LEMMA StartIsGood ==
    ASSUME Good(msg, says, got), startbgpcaps
    PROVE  Good(msg', says', got')
<1>1. msg.flags # {}
  BY DEF startbgpcaps, Closed
<1>2. CASE ~(IsOpen /\ Allowed({}))
  <2>1. msg' = Refuse(msg) /\ says' = says /\ got' = got
    BY <1>2 DEF startbgpcaps
  <2> QED
    BY <1>1, <2>1, RefusedIsGood
<1>3. CASE IsOpen /\ Allowed({})
  <2> DEFINE e == EndPending(msg)
             again == "F_WR" \in msg.flags /\ says.caps # <<>>
  <2>1. /\ msg' = [e EXCEPT !.flags = @ \cup {"F_PM"}, !.params = 0, !.pptr = 0]
        /\ says' = [says EXCEPT !.whole = @ \/ again]
        /\ got' = Nothing
    BY <1>3 DEF startbgpcaps
  <2>2. /\ Good(e, says, got) /\ e.flags # {}
        /\ "F_RD" \in e.flags <=> "F_RD" \in msg.flags
        /\ e.err = "ENOERR" => e.flags = msg.flags \ {"F_PM"}
    BY <1>1, <1>3, EndPendingIsGood DEF Allowed
  <2>3. DOMAIN says = {"caps", "own", "whole", "ends"}
    BY DEF Good
  <2>4. Shaped(msg)
    BY DEF Good
  <2> HIDE DEF e
  <2>5. Shaped(e)
    BY <2>2 DEF Good
  <2>6. /\ DOMAIN msg' = Fields /\ msg'.flags = e.flags \cup {"F_PM"} /\ msg'.err = e.err
        /\ msg'.buf = e.buf /\ msg'.plen = e.plen /\ msg'.marker = e.marker
        /\ msg'.length = e.length /\ msg'.pktlen = e.pktlen
        /\ msg'.params = 0 /\ msg'.pptr = 0
    BY <2>1, <2>5 DEF Fields, Shaped
  <2>7. Shaped(msg')
    BY <2>2, <2>5, <2>6 DEF Shaped
  <2>8. /\ DOMAIN says' = DOMAIN says /\ says'.caps = says.caps /\ says'.own = says.own
        /\ says'.ends = says.ends /\ (~says'.whole => ~says.whole /\ ~again)
    BY <2>1, <2>3
  <2>9. ASSUME Own(e, says.caps, got), ~again PROVE Own(msg', says.caps, Nothing)
    <3> DEFINE caps == says.caps
    <3>1. /\ caps \in Seq(Short) /\ Len(caps) \in Nat /\ e.err # "EBADPARAMLEN"
          /\ e.err = "ENOERR" => e.marker /\ \A i \in 0..BufSize - 1 : e.buf[i] \in Nat
      BY <2>9, LenProperties DEF Own
    <3>2. Read(caps, Nothing, 0)
      BY <3>1, SubSeqEmpty DEF Read, Nothing
    <3>3. ASSUME e.err = "ENOERR"
          PROVE  \E offs : Laid(msg'.buf, caps, offs) /\ Stands(msg', caps, offs, Nothing)
      <4>1. PICK offs : Laid(e.buf, caps, offs) /\ Stands(e, caps, offs, got)
        BY <2>9, <3>3 DEF Own
      <4>2. "F_PM" \notin e.flags
        BY <2>2, <3>3
      <4>3. /\ e.pktlen = Size(caps, offs) /\ e.plen = Size(caps, offs)
            /\ caps # <<>> => e.buf[1] = Size(caps, offs) - 2
            /\ "F_RD" \in e.flags => e.length = Size(caps, offs)
        BY <4>1, <4>2 DEF Stands
      <4>4. "F_RD" \notin e.flags => Size(caps, offs) = 0
        <5>1. ASSUME "F_RD" \notin e.flags PROVE caps = <<>>
          BY <1>1, <2>2, <2>4, <2>9, <5>1 DEF Shaped
        <5> QED
          BY <5>1 DEF Size
      <4>5. ~Nothing.null
        BY DEF Nothing
      <4>6. "F_RD" \in msg'.flags <=> "F_RD" \in e.flags
        BY <2>6
      <4>7. \E k : Read(caps, Nothing, k) /\ 0 = IF k = 0 THEN 0 ELSE offs[k]
        BY <3>2
      <4>8. Stands(msg', caps, offs, Nothing)
        BY <2>6, <4>3, <4>4, <4>5, <4>6, <4>7 DEF Stands
      <4> QED
        BY <2>6, <4>1, <4>8
    <3> QED
      BY <2>6, <3>1, <3>2, <3>3 DEF Own
  <2>10. DOMAIN Nothing = {"caps", "null"} /\ msg'.flags # {}
    BY <2>6 DEF Nothing
  <2>11. says'.own => says'.ends
    BY <2>2, <2>8 DEF Good
  <2>12. says'.own /\ ~says'.whole => Own(e, says.caps, got) /\ ~again
    BY <2>2, <2>8 DEF Good
  <2> HIDE DEF again
  <2>13. says'.own /\ ~says'.whole => Own(msg', says'.caps, Nothing)
    BY <2>8, <2>9, <2>12
  <2>14. Good(msg', says', Nothing)
    BY <2>3, <2>7, <2>8, <2>10, <2>11, <2>13 DEF Good
  <2> QED
    BY <2>1, <2>14
<1> QED
  BY <1>2, <1>3

\* What was written is what is read from here on.
LEMMA FinishIsGood ==
    ASSUME Good(msg, says, got), bgpfinish
    PROVE  Good(msg', says', got')
<1>1. msg.flags # {} /\ says' = says /\ got' = got
  BY DEF bgpfinish, Closed
<1>2. CASE ~Allowed({"F_WR"})
  BY <1>1, <1>2, RefusedIsGood DEF bgpfinish
<1>3. CASE Allowed({"F_WR"})
  <2> DEFINE e == EndPending(msg)
  <2>1. msg' = [e EXCEPT !.length = e.pktlen, !.flags = (@ \ {"F_WR"}) \cup {"F_RD"}]
    BY <1>3 DEF bgpfinish
  <2>2. /\ Good(e, says, got) /\ e.flags # {}
        /\ "F_RD" \in e.flags <=> "F_RD" \in msg.flags
        /\ e.err = "ENOERR" => e.flags = msg.flags \ {"F_PM"}
    BY <1>1, <1>3, EndPendingIsGood DEF Allowed
  <2>3. "F_RD" \notin msg.flags
    BY <1>3 DEF Good, Shaped, Allowed
  <2> HIDE DEF e
  <2>4. Shaped(e) /\ "F_RD" \notin e.flags
    BY <2>2, <2>3 DEF Good
  <2>5. /\ DOMAIN msg' = Fields /\ msg'.flags = (e.flags \ {"F_WR"}) \cup {"F_RD"}
        /\ msg'.err = e.err /\ msg'.buf = e.buf /\ msg'.plen = e.plen
        /\ msg'.marker = e.marker /\ msg'.length = e.pktlen /\ msg'.pktlen = e.pktlen
    BY <2>1, <2>4 DEF Fields, Shaped
  <2>6. Shaped(msg')
    BY <2>4, <2>5 DEF Shaped
  <2>7. ASSUME Own(e, says.caps, got) PROVE Own(msg', says.caps, got)
    <3> DEFINE caps == says.caps
    <3>1. got = Nothing /\ ~got.null
      BY <2>4, <2>7 DEF Own, Nothing
    <3>2. ASSUME e.err = "ENOERR", NEW offs, Stands(e, caps, offs, got)
          PROVE  Stands(msg', caps, offs, got)
      <4>1. "F_PM" \notin e.flags
        BY <2>2, <3>2
      <4>2. "F_PM" \notin msg'.flags /\ "F_RD" \in msg'.flags
        BY <2>5, <4>1
      <4> QED
        BY <2>5, <3>1, <3>2, <4>1, <4>2 DEF Stands
    <3> QED
      BY <2>5, <2>7, <3>2 DEF Own
  <2>8. msg'.flags # {}
    BY <2>5
  <2> QED
    BY <1>1, <2>2, <2>6, <2>7, <2>8 DEF Good
<1> QED
  BY <1>2, <1>3

LEMMA StepIsGood ==
    ASSUME IInv, [Next]_vars
    PROVE  IInv'
<1>1. Good(msg, says, got)
  BY DEF IInv
<1> SUFFICES Good(msg', says', got')
  BY DEF IInv
<1>2. ASSUME NEW r, r = Refuse(msg), msg.flags # {} PROVE Good(r, says, got)
  BY <1>1, <1>2, RefusedIsGood
<1>3. CASE UNCHANGED vars
  BY <1>1, <1>3 DEF vars
<1>4. CASE setbgpread
  BY <1>1, <1>4, ReadIsGood
<1>5. ASSUME NEW type \in {"OPEN", "OTHER"}, setbgpwrite(type)
      PROVE  Good(msg', says', got')
  BY <1>1, <1>5, WriteIsGood
<1>6. CASE bgpclose
  BY <1>6, UnusedIsGood DEF bgpclose
<1>7. CASE bgpfinish
  BY <1>1, <1>7, FinishIsGood
<1>8. CASE getbgpopen
  BY <1>2, <1>8 DEF getbgpopen, Closed
<1>9. CASE setbgpopen
  BY <1>1, <1>9, OpenIsGood
<1>10. CASE getbgpparams
  BY <1>2, <1>10 DEF getbgpparams, Closed
<1>11. CASE setbgpparams
  BY <1>1, <1>11, ParamsIsGood
<1>12. CASE startbgpcaps
  BY <1>1, <1>12, StartIsGood
<1>13. CASE nextbgpcap
  <2>1. CASE Allowed({"F_RD", "F_PM"})
    <3> DEFINE r == Next1(msg)
    <3>1. /\ msg' = r.msg /\ says' = says
          /\ got' = IF r.cap = <<>> THEN [got EXCEPT !.null = TRUE]
                                    ELSE [got EXCEPT !.caps = Append(@, r.cap)]
      BY <1>13, <2>1 DEF nextbgpcap
    <3>2. msg.err = "ENOERR" /\ {"F_RD", "F_PM"} \subseteq msg.flags /\ ~got.null
      BY <1>13, <2>1 DEF nextbgpcap, Allowed
    <3> QED
      BY <1>1, <3>1, <3>2, NextIsGood
  <2>2. CASE ~Allowed({"F_RD", "F_PM"})
    BY <1>2, <1>13, <2>2 DEF nextbgpcap, Closed
  <2> QED
    BY <2>1, <2>2
<1>14. CASE putbgpcap
  <2>1. CASE Allowed({"F_WR", "F_PM"})
    <3>1. PICK cap \in Caps :
            /\ msg.pptr + Len(cap) + PARAM_HEADER_SIZE <= BufSize
            /\ msg' = Put(msg, cap)
            /\ says' = IF msg'.err = "ENOERR" THEN [says EXCEPT !.caps = Append(@, cap)]
                                              ELSE says
      BY <1>14, <2>1 DEF putbgpcap
    <3>2. msg.err = "ENOERR" /\ {"F_WR", "F_PM"} \subseteq msg.flags /\ got' = got
      BY <1>14, <2>1 DEF putbgpcap, Allowed
    <3>3. LET u == Put(msg, cap)
          IN  Good(u, IF u.err = "ENOERR" THEN [says EXCEPT !.caps = Append(@, cap)]
                                          ELSE says, got)
      BY <1>1, <3>1, <3>2, PutIsGood
    <3> QED
      BY <3>1, <3>2, <3>3
  <2>2. CASE ~Allowed({"F_WR", "F_PM"})
    BY <1>2, <1>14, <2>2 DEF putbgpcap, Closed
  <2> QED
    BY <2>1, <2>2
<1>15. CASE endbgpcaps
  <2>1. msg' = EndCaps(msg) /\ says' = says /\ got' = got /\ msg.flags # {}
    BY <1>15 DEF endbgpcaps, Closed
  <2>2. CASE msg.err = "ENOERR" /\ "F_PM" \in msg.flags
    BY <1>1, <2>1, <2>2, EndCapsIsGood
  <2>3. CASE ~(msg.err = "ENOERR" /\ "F_PM" \in msg.flags)
    BY <1>2, <2>1, <2>3 DEF EndCaps
  <2> QED
    BY <2>2, <2>3
<1> QED
  BY <1>3, <1>4, <1>5, <1>6, <1>7, <1>8, <1>9, <1>10, <1>11, <1>12, <1>13, <1>14, <1>15
     DEF Next

(* Whatever calls were mixed, the capabilities of a message that this        *)
(* program writes lie one behind the other in one parameter, the lengths     *)
(* count them, and the iterator stands between two of them.                  *)
THEOREM Invariance == Spec => []IInv
<1>1. Init => IInv
  BY UnusedIsGood DEF Init, IInv
<1>2. IInv /\ [Next]_vars => IInv'
  BY StepIsGood
<1> QED
  BY <1>1, <1>2, PTL DEF Spec

(* A message that was finished without error says the length of its list in  *)
(* both places, has its marker and is read back without an error             *)
(* (bgp.c:863-968), for every set of capabilities.                           *)
THEOREM WhatIsWrittenIsReadable == Spec => []WrittenIsReadable
<1>1. IInv => WrittenIsReadable
  <2> SUFFICES ASSUME Good(msg, says, got), ~says.whole, says.own, "F_RD" \in msg.flags
               PROVE  /\ msg.err # "EBADPARAMLEN"
                      /\ msg.err = "ENOERR" /\ IsOpen =>
                             msg.marker /\ msg.plen = msg.pktlen /\ msg.length = msg.pktlen
    BY DEF IInv, WrittenIsReadable
  <2>1. Own(msg, says.caps, got)
    BY DEF Good
  <2>2. ASSUME NEW offs, Stands(msg, says.caps, offs, got)
        PROVE  msg.plen = msg.pktlen /\ msg.length = msg.pktlen
    BY <2>2 DEF Stands
  <2> QED
    BY <2>1, <2>2 DEF Own
<1> QED
  BY <1>1, Invariance, PTL

(* Of a message that this program wrote, nextbgpcap_r (bgp.c:863) returns    *)
(* the capabilities that were put, in their order and with their bytes, and  *)
(* says that there are no more only behind the last.                         *)
THEOREM OwnCapsAreInOrder == Spec => [](says.own => CapsAreInOrder)
<1>1. IInv => (says.own => CapsAreInOrder)
  <2> SUFFICES ASSUME Good(msg, says, got), says.own, ~says.whole, "F_RD" \in msg.flags
               PROVE  /\ IsPrefix(got.caps, says.caps)
                      /\ got.null /\ msg.err = "ENOERR" => got.caps = says.caps /\ says.ends
    BY DEF IInv, CapsAreInOrder
  <2> DEFINE caps == says.caps
  <2>1. Own(msg, caps, got) /\ says.ends
    BY DEF Good
  <2>2. caps \in Seq(Short) /\ Len(caps) \in Nat
    BY <2>1, LenProperties DEF Own
  <2>3. PICK k : k \in 0..Len(caps) /\ got.caps = SubSeq(caps, 1, k)
    BY <2>1 DEF Own, Read
  <2>4. IsPrefix(got.caps, caps)
    <3>1. 1 \in 1..Len(caps) + 1 /\ k \in 1 - 1..Len(caps)
      BY <2>2, <2>3
    <3>2. Len(SubSeq(caps, 1, k)) = k - 1 + 1 /\ SubSeq(caps, 1, k) \in Seq(Short)
      BY <2>2, <3>1, Piece
    <3>3. Len(got.caps) = k /\ got.caps \in Seq(Short)
      BY <2>2, <2>3, <3>2
    <3>4. SubSeq(got.caps, 1, Len(got.caps)) = got.caps
      BY <3>3, SubSeqFull
    <3> QED
      BY <2>2, <2>3, <3>3, <3>4 DEF IsPrefix
  <2>5. got.null /\ msg.err = "ENOERR" => got.caps = caps
    BY <2>1 DEF Own, Stands
  <2> QED
    BY <2>1, <2>4, <2>5
<1> QED
  BY <1>1, Invariance, PTL
=============================================================================
