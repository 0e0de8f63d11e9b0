---------------------------- MODULE MCBgpAsPath ----------------------------
(***************************************************************************)
(* A client that reads one whole path with nextaspath, over every pair of  *)
(* small AS_PATH and AS4_PATH shapes, next to the reconstruction rule of   *)
(* RFC 6793, 4.2.3, stated on whole path entries.                          *)
(***************************************************************************)
EXTENDS BgpAsPath, SequencesExt

CONSTANTS MaxSegs,   \* segments of an AS_PATH
          MaxSegs4,  \* segments of an AS4_PATH
          MaxLen     \* AS numbers of a segment

VARIABLES path, path4, real, iter, out, ended, bad
vars == <<path, path4, real, iter, out, ended, bad>>

\* Shapes: the AS numbers are told apart by their place in the message, from
\* base + 1 on, so that a lost, repeated or moved one always shows.
Shapes(n) == BoundedSeq([type : {AS_SEGMENT_SET, AS_SEGMENT_SEQ}, len : 0..MaxLen], n)

Number(shape, base) ==
    [s \in DOMAIN shape |->
        [type |-> shape[s].type,
         ases |-> [a \in 1..shape[s].len |-> base + 10 * s + a]]]

SmallPaths(n, base) ==
    {[segs |-> Number(shape, base), cut |-> c] : shape \in Shapes(n), c \in BOOLEAN}

Init ==
    /\ path \in SmallPaths(MaxSegs, 100)
    /\ path4 \in SmallPaths(MaxSegs4, 200)
    /\ real \in BOOLEAN
    /\ IF real THEN ~path.cut /\ ~path4.cut   \* startrealaspath_r fails otherwise
               ELSE path4 = EmptyPath         \* startaspath_r never looks at it
    /\ iter = IF real THEN Reconstruct(PathIter(path, FALSE), path, path4)
                      ELSE PathIter(path, FALSE)
    /\ out = <<>>
    /\ ended = FALSE
    /\ bad = FALSE

Read ==
    /\ ~ended
    /\ LET r == NextAsPath(iter)
       IN  /\ iter' = r.iter
           /\ out' = out \o r.got
           /\ bad' = r.bad
           /\ ended' = (r.got = <<>>)
    /\ UNCHANGED <<path, path4, real>>

\* Once it has returned NULL, nextaspath returns NULL when called again: this
\* step is the only one left then, and TLC reports a deadlock without it.
ReadAgain ==
    /\ ended
    /\ NextAsPath(iter).got = <<>>
    /\ UNCHANGED vars

Next == Read \/ ReadAgain

Spec == Init /\ [][Next]_vars

-----------------------------------------------------------------------------
\* The reference: a path is a sequence of entries, an entry being one AS of an
\* AS_SEQUENCE or a whole AS_SET.
SegEntries(seg) ==
    IF seg.type = AS_SEGMENT_SET
      THEN <<[type |-> seg.type, ases |-> seg.ases]>>
      ELSE [a \in DOMAIN seg.ases |-> [type |-> seg.type, ases |-> <<seg.ases[a]>>]]

Entries(p) == FlattenSeq([s \in DOMAIN p.segs |-> SegEntries(p.segs[s])])

Flat(entries) ==
    FlattenSeq([e \in DOMAIN entries |->
        [a \in DOMAIN entries[e].ases |->
            [type |-> entries[e].type, as |-> entries[e].ases[a]]]])

\* How many entries of AS_PATH come before those of AS4_PATH.
Prepended == Len(Entries(path)) - Len(Entries(path4))

Reference ==
    IF real /\ Prepended >= 0
      THEN Flat(SubSeq(Entries(path), 1, Prepended) \o Entries(path4))
      ELSE Flat(Entries(path))

Output == [i \in DOMAIN out |-> [type |-> out[i].type, as |-> out[i].as]]

\* The two shapes the iterator gets wrong: the entry just before the switch is
\* an AS_SET of several members, or an empty AS_SET is counted and never met.
SplitsSet ==
    /\ real /\ Prepended > 0
    /\ Len(Entries(path)[Prepended].ases) > 1
CountsEmptySet ==
    real /\ \E e \in ToSet(Entries(path)) : e.ases = <<>>

\* Reading to the end returns exactly the RFC 6793 path (the plain path for
\* startaspath), in order and without loss, for every AS_PATH and AS4_PATH but
\* the two shapes above: prepending, commuting and skipping empty segments
\* never drop, repeat or reorder an AS.  A stray byte is reported when, and only
\* when, the reader gets to it (bgp.c:1662-1796).
RebuildsPath ==
    /\ ended /\ ~SplitsSet /\ ~CountsEmptySet => Output = Reference
    /\ bad <=> ended /\ path.cut

\* What the comments of nextaspath_r say of the switch: it happens once enough
\* AS_PATH entries are prepended, the members of a set counting as one entry.
\* Does not hold: of a set that is the last of them only one AS is returned.
PrependsWholeEntries == ended /\ ~CountsEmptySet => Output = Reference

\* segno never goes back, and two consecutive elements share it only if they
\* are in the same segment of the same attribute: what the users of
\* as_pathent_t rely on to tell segments apart.
SegmentsToldApart ==
    \A i \in 1..(Len(out) - 1) :
        LET x == out[i]  y == out[i + 1]
        IN  /\ x.segno <= y.segno
            /\ x.segno = y.segno <=> x.as \div 10 = y.as \div 10
=============================================================================
