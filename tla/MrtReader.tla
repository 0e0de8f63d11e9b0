----------------------------- MODULE MrtReader -----------------------------
(***************************************************************************)
(* Reading MRT records.  A thread has two messages: `cur', the record being *)
(* read, and `pi', the peer index that the entries of a RIB refer to.  A    *)
(* record is what its bytes say: its type and subtype, a list of items      *)
(* (peers, RIB entries), and the part in which it is cut short, if any.     *)
(*                                                                         *)
(* A buffer or a table of offsets is the message's own fast one, numbered   *)
(* 0, or an allocation.  Both messages may hold the same allocation.  A call *)
(* strays that uses or frees an allocation that was freed, uses a table that *)
(* is not there, or goes on behind the end of a record or of a table.  What  *)
(* the program does after the first two is not modelled.                    *)
(***************************************************************************)
EXTENDS Integers, Sequences, SequencesExt, FiniteSetsExt

CONSTANTS Records,       \* what setmrtread finds for curmsg
          Indexes,       \* what is read into the peer index message itself
          FastPeers,     \* nelems(fastpitab)
          Careful        \* the client closes no record that it gave to setribpi

NoTable == [heap |-> 0, pos |-> <<-1>>]
NoRecord == [type |-> "none", sub |-> "none"]
Undecoded == "Undecoded"

-----------------------------------------------------------------------------
Ribs == {"RIB_GENERIC", "RIB_IPV4_UNICAST", "RIB_IPV4_MULTICAST",
         "RIB_IPV6_UNICAST", "RIB_IPV6_MULTICAST"}
RibsAddpath == {"RIB_GENERIC_ADDPATH", "RIB_IPV4_UNICAST_ADDPATH",
                "RIB_IPV4_MULTICAST_ADDPATH", "RIB_IPV6_UNICAST_ADDPATH",
                "RIB_IPV6_MULTICAST_ADDPATH"}
StateChanges == {"STATE_CHANGE", "STATE_CHANGE_AS4"}
Wide == {"MESSAGE_AS4", "STATE_CHANGE_AS4", "MESSAGE_AS4_LOCAL", "MESSAGE_AS4_ADDPATH",
         "MESSAGE_AS4_LOCAL_ADDPATH"}
Addpaths == {"MESSAGE_AS4_ADDPATH", "MESSAGE_LOCAL_ADDPATH", "MESSAGE_AS4_LOCAL_ADDPATH"}
Bgp4mp == StateChanges \cup Wide \cup Addpaths \cup {"MESSAGE", "MESSAGE_LOCAL"}

If(condition, flag) == IF condition THEN {flag} ELSE {}

\* masktab: the flags of a type and subtype, none if the two are not read.
mrtflags(r) ==
    CASE r.type = "TABLE_DUMP" -> IF r.sub \in {"IPV4", "IPV6"} THEN {"F_WRAPS_BGP"} ELSE {}
      [] r.type = "TABLE_DUMPV2" ->
           IF r.sub = "PEER_INDEX_TABLE" THEN {"F_IS_PI"}
           ELSE If(r.sub \in Ribs \cup RibsAddpath, "F_NEEDS_PI")
                \cup If(r.sub \in RibsAddpath, "F_ADDPATH")
      [] r.type = "BGP" ->
           CASE r.sub \in {"UPDATE", "OPEN", "NOTIFY", "KEEPALIVE"} -> {"F_WRAPS_BGP"}
             [] r.sub = "STATE_CHANGE" -> {"F_HAS_STATE"}
             [] r.sub \in {"NULL", "PREF_UPDATE", "SYNC"} -> {"F_VALID"}
             [] OTHER -> {}
      [] r.type \in {"BGP4MP", "BGP4MP_ET"} /\ r.sub \in Bgp4mp ->
           {"F_IS_BGP", IF r.sub \in StateChanges THEN "F_HAS_STATE" ELSE "F_WRAPS_BGP"}
           \cup If(r.sub \in Wide, "F_AS32") \cup If(r.sub \in Addpaths, "F_ADDPATH")
           \cup If(r.type = "BGP4MP_ET", "F_IS_EXT")
      [] OTHER -> {}

\* A peer takes room in its index, and an entry names a peer by its number.  An
\* index whose items are cut ends within its last peer.
ASSUME RecordsAssumption ==
    /\ FastPeers \in Nat
    /\ \A r \in Records \cup Indexes :
          /\ r.items \in Seq(Range(r.items))
          /\ "F_IS_PI" \in mrtflags(r) =>
                /\ r.count \in Nat /\ \A p \in Range(r.items) : p.size \in Nat \ {0}
                /\ r.cut = "item" => r.items # <<>>
          /\ "F_NEEDS_PI" \in mrtflags(r) => \A e \in Range(r.items) : e.idx \in Nat

-----------------------------------------------------------------------------
VARIABLES
    m,       \* curmsg and curpimsg
    freed,   \* allocations that a message points to and that were freed
    stray,   \* what the last call did that it must not: "freed", "missing", "beyond"
    untold,  \* the RIB in curmsg is one whose link failed without an error
    open,    \* the messages the client may use: read or set, and not closed
    got      \* what the iterations of each message returned since they started

vars == <<m, freed, stray, untold, open, got>>

Both == {"cur", "pi"}

Closed == [flags |-> {}, err |-> "ENOERR", rec |-> NoRecord, buf |-> 0, at |-> 0,
           peer_index |-> "none", pitab |-> NoTable, picount |-> 0]

Nothing == [items |-> <<>>, null |-> FALSE]

Init ==
    /\ m = [x \in Both |-> Closed] /\ got = [x \in Both |-> Nothing]
    /\ freed = {} /\ stray = {} /\ untold = FALSE /\ open = {}

Held(mm) == (UNION {{mm[x].buf, mm[x].pitab.heap} : x \in Both}) \ {0}

Fresh(mm) == Min(1..7 \ (Held(mm) \cup freed))

\* The CHECK macros on one message.
Refuse(msg) == [msg EXCEPT !.err = IF @ = "ENOERR" THEN "EINVOP" ELSE @]
Allowed(msg, need) == msg.err = "ENOERR" /\ need \subseteq msg.flags
Fail(msg, err) == [msg EXCEPT !.err = err]
Checked(msg, need, new) == IF Allowed(msg, need) THEN new ELSE Refuse(msg)

\* Message x becomes new, by a call that strays or does not, and nothing else changes.
Strays(x, new, how) ==
    /\ m' = [m EXCEPT ![x] = new] /\ stray' = how
    /\ freed' = freed \cap Held(m')
    /\ UNCHANGED <<untold, open>>

Becomes(x, new) == Strays(x, new, {})

-----------------------------------------------------------------------------
\* Peers.

WithHead(msg) == IF msg.rec.cut = "head" THEN Fail(msg, "EBADPEERIDXHDR") ELSE msg

endpeerents_(msg) == Checked(msg, {"F_PE"}, [msg EXCEPT !.flags = @ \ {"F_PE"}])
\* endribents sets the flag that it means to clear.
endribents_(msg) == Checked(msg, {"F_RE"}, [msg EXCEPT !.flags = @ \cup {"F_RE"}])

endpending(msg) ==
    CASE "F_RE" \in msg.flags -> endribents_(msg)
      [] "F_PE" \in msg.flags /\ "F_RE" \notin msg.flags -> endpeerents_(msg)
      [] OTHER -> msg

\* The error of getpeerents is kept in the message and does not stop the start.
startpeerents_(msg) ==
    Checked(msg, {"F_IS_PI"},
            [WithHead(endpending(msg)) EXCEPT !.flags = @ \cup {"F_PE"}, !.at = 0])

\* Where the items end: a peer takes as many cells as its addresses need.
Offsets(items) ==
    LET o[i \in 0..Len(items)] == IF i = 0 THEN 0 ELSE o[i - 1] + items[i].size
    IN  o
Offset(items, i) == Offsets(items)[i]

\* The peer decoded from offset o.
PeerAt(items, o) ==
    IF \E i \in DOMAIN items : Offset(items, i - 1) = o
      THEN items[CHOOSE i \in DOMAIN items : Offset(items, i - 1) = o].peer
      ELSE Undecoded

\* Variant of Table: every offset is one peer late.
TableLate(msg) ==
    LET items == msg.rec.items
    IN  [i \in 1..msg.rec.count |-> Offset(items, IF i > Len(items) THEN Len(items) ELSE i)]

\* The offsets setuppitable stores: those of the client's own iterator, which
\* stays at the end of the record when fewer peers are there than were announced.
Table(msg) ==
    LET items == msg.rec.items
    IN  [i \in 1..msg.rec.count |-> Offset(items, IF i > Len(items) THEN Len(items) ELSE i - 1)]

\* Peer number i of an index is cut short, or behind all that are there.
Behind(r, i) == i > Len(r.items) \/ (i = Len(r.items) /\ r.cut = "item")

\* setuppitable gets no memory for the table that it has to make.
NoRoom(pi, memory) ==
    /\ pi.pitab = NoTable /\ Allowed(pi, {"F_IS_PI"}) /\ pi.rec.cut # "head"
    /\ pi.rec.count > FastPeers /\ ~memory

\* setuppitable: message x refers to y from now on, whatever comes out of it.
\* Without memory the iteration over the peers of y stays started.
Linked(mm, x, y, memory) ==
    LET pi == mm[y]
        s  == startpeerents_(pi)
        h  == IF pi.rec.count > FastPeers THEN Fresh(mm) ELSE 0
        e  == endpeerents_(s)
    IN  [[mm EXCEPT ![x].peer_index = y] EXCEPT
            ![y] = CASE pi.pitab # NoTable -> pi
                     [] pi.pitab = NoTable /\ ~Allowed(pi, {"F_IS_PI"}) -> s
                     [] NoRoom(pi, memory) -> s
                     [] pi.pitab = NoTable /\ Allowed(pi, {"F_IS_PI"}) /\ e.err # "ENOERR" -> e
                     [] OTHER -> [e EXCEPT !.pitab = [heap |-> h, pos |-> Table(pi)],
                                           !.picount = pi.rec.count,
                                           !.at = Len(pi.rec.items)]]

\* Whether setuppitable succeeds.
Links(pi, memory) ==
    \/ pi.pitab # NoTable
    \/ Allowed(pi, {"F_IS_PI"}) /\ pi.rec.cut # "head" /\ ~NoRoom(pi, memory)

\* The loop that makes the table does not see the end of an index that ends within a
\* peer, and takes the number of peers from a bad header, which leaves it unset: it may
\* be any number, and too many to get memory for.
Overruns(pi, memory) ==
    /\ pi.pitab = NoTable /\ Allowed(pi, {"F_IS_PI"})
    /\ \/ pi.rec.cut = "head" /\ memory
       \/ pi.rec.cut = "item" /\ Behind(pi.rec, pi.rec.count) /\ ~NoRoom(pi, memory)

\* The messages become n, and curmsg is linked to the peer index if `link' holds.
\* Without memory the client's iteration over the peers was started over.
Linking(link, n, g, memory) ==
    LET pi == m["pi"]
    IN  /\ m' = IF link THEN Linked(n, "cur", "pi", memory) ELSE n
        /\ freed' = freed \cap Held(m')
        /\ stray' = If(link /\ Overruns(pi, memory), "beyond")
        /\ got' = IF link /\ NoRoom(pi, memory) THEN [g EXCEPT !["pi"] = Nothing] ELSE g
-----------------------------------------------------------------------------
\* Reading a record.

\* Variant of Read: a table of the record before is kept.
ReadKeepsTable(mm, x, r) ==
    [mm EXCEPT ![x] = [Closed EXCEPT !.flags = mrtflags(r) \cup {"F_RD"}, !.rec = r,
                           !.buf = IF r.big THEN Fresh(mm) ELSE 0,
                           !.pitab = mm[x].pitab, !.picount = mm[x].picount]]

\* setmrtreadfrom_r of a whole record r.  picount is left as it was.
Read(mm, x, r) ==
    [mm EXCEPT ![x] = [Closed EXCEPT !.flags = mrtflags(r) \cup {"F_RD"}, !.rec = r,
                           !.buf = IF r.big THEN Fresh(mm) ELSE 0,
                           !.picount = mm[x].picount]]

\* What it leaves of the message when the header is refused or the body is short:
\* the flags are those of the record before.
Unread(mm, x, r) ==
    {[mm[x] EXCEPT !.rec = NoRecord],
     [mm[x] EXCEPT !.rec = r, !.buf = IF r.big THEN Fresh(mm) ELSE 0]}

\* The client reads into messages it does not use.
setmrtread_r(x, r) ==
    /\ x \notin open /\ mrtflags(r) # {}
    /\ m' = Read(m, x, r) /\ open' = open \cup {x}
    /\ freed' = freed \cap Held(m') /\ got' = [got EXCEPT ![x] = Nothing]
    /\ stray' = {} /\ untold' = (untold /\ x # "cur")

\* setmrtread links any record to a peer index in use, and ignores the outcome.
setmrtread(r) ==
    LET link == m["pi"].flags # {}
    IN  /\ "cur" \notin open /\ mrtflags(r) # {}
        /\ \E memory \in BOOLEAN :
              /\ Linking(link, Read(m, "cur", r), [got EXCEPT !["cur"] = Nothing], memory)
              /\ untold' = (link /\ ~Links(m["pi"], memory) /\ "F_NEEDS_PI" \in mrtflags(r))
        /\ open' = open \cup {"cur"}

\* setmrtreadfrom links the records that need it, and returns the outcome: the
\* client does not use a record that could not be linked.
setmrtreadfrom(r) ==
    LET link == "F_NEEDS_PI" \in mrtflags(r) /\ "F_RD" \in m["pi"].flags
    IN  /\ "cur" \notin open /\ mrtflags(r) # {}
        /\ \E memory \in BOOLEAN :
              /\ Linking(link, Read(m, "cur", r), [got EXCEPT !["cur"] = Nothing], memory)
              /\ open' = IF link /\ ~Links(m["pi"], memory) THEN open ELSE open \cup {"cur"}
        /\ untold' = FALSE

\* A read that fails; the client uses the message no more.  Of a message without
\* flags nothing is left to see.
ReadFails(x, r) ==
    /\ x \notin open /\ m[x].flags # {}
    /\ \E new \in Unread(m, x, r) : Becomes(x, new)
    /\ UNCHANGED got

\* mrtclose_r: the buffer and the table of x are freed.  Nothing of a closed
\* message is looked at before it is read again, but for picount and the table.
mrtclose(x) ==
    LET mine == ({m[x].buf} \cup IF "F_IS_PI" \in m[x].flags THEN {m[x].pitab.heap} ELSE {})
                \ {0}
    IN  /\ x \in open
        /\ x = "pi" => "cur" \notin open \/ m["cur"].peer_index # "pi"
        /\ m' = [m EXCEPT ![x] = [Closed EXCEPT !.picount = m[x].picount, !.pitab = m[x].pitab]]
        /\ stray' = If(mine \cap freed # {}, "freed")
        /\ freed' = (freed \cup mine) \cap Held(m') /\ open' = open \ {x}
        /\ untold' = (untold /\ x # "cur")
        /\ got' = [got EXCEPT ![x] = Nothing]

-----------------------------------------------------------------------------
startpeerents(x) ==
    /\ x \in open
    /\ Becomes(x, startpeerents_(m[x]))
    /\ got' = [got EXCEPT ![x] = IF Allowed(m[x], {"F_IS_PI"}) THEN Nothing ELSE @]

\* The end is met only where a peer ends: behind the part of a peer that is there
\* comes a peer made of what follows the record, and then others.
nextpeerent(x) ==
    /\ x \in open
    /\ LET msg   == m[x]
           items == msg.rec.items
           at    == msg.at + 1
       IN  CASE ~Allowed(msg, {"F_PE"}) -> Becomes(x, Refuse(msg)) /\ UNCHANGED got
             [] /\ Allowed(msg, {"F_PE"}) /\ msg.rec.cut # "item"
                /\ msg.at >= Len(items) ->
                  /\ Becomes(x, msg)
                  /\ got' = [got EXCEPT ![x].null = TRUE]
             [] Allowed(msg, {"F_PE"}) /\ msg.rec.cut = "item" /\ Behind(msg.rec, at) ->
                  Strays(x, [msg EXCEPT !.at = Len(items)], {"beyond"}) /\ UNCHANGED got
             [] OTHER ->
                  /\ Becomes(x, [msg EXCEPT !.at = at])
                  /\ got' = [got EXCEPT ![x].items = Append(@, items[at])]

endpeerents(x) == x \in open /\ Becomes(x, endpeerents_(m[x])) /\ UNCHANGED got

\* getpicollector, getpiviewname and getpeerents.
getpi(x) ==
    /\ x \in open
    /\ \/ Becomes(x, Checked(m[x], {"F_IS_PI"}, WithHead(m[x])))
       \/ Becomes(x, Checked(m[x], {"F_IS_PI"}, m[x]))
    /\ UNCHANGED got

\* Variant of setribpi: the copy goes on with the iteration of the original.
setribpiPending ==
    /\ "cur" \in open /\ m["cur"].err = "ENOERR" /\ "F_IS_PI" \in m["cur"].flags
    /\ m' = [m EXCEPT !["pi"] = m["cur"]]
    /\ open' = IF m["cur"].buf # 0 /\ Careful THEN {"pi"} ELSE Both
    /\ freed' = freed \cap Held(m')
    /\ got' = [got EXCEPT !["pi"] = Nothing] /\ stray' = {} /\ UNCHANGED untold

\* setribpi copies the message: a buffer on the heap now has two owners.
setribpi ==
    /\ "cur" \in open
    /\ IF m["cur"].err = "ENOERR" /\ "F_IS_PI" \in m["cur"].flags
         THEN /\ m' = [m EXCEPT !["pi"] = endpending(m["cur"])]
              /\ open' = IF m["cur"].buf # 0 /\ Careful THEN {"pi"} ELSE Both
              /\ freed' = freed \cap Held(m')
              /\ got' = [got EXCEPT !["pi"] = Nothing]
         ELSE UNCHANGED <<m, open, freed, got>>
    /\ stray' = {} /\ UNCHANGED untold

\* setribpi_r, and setmrtpi_r, which looks at the flags only.  The client goes on
\* with the record if it could be linked.
setribpi_r(safe) ==
    /\ open = Both
    /\ "F_IS_PI" \in m["pi"].flags
    /\ IF safe THEN m["cur"].err = "ENOERR" /\ m["pi"].err = "ENOERR"
               ELSE "F_NEEDS_PI" \in m["cur"].flags
    /\ \E memory \in BOOLEAN :
          /\ Linking(TRUE, m, got, memory)
          /\ open' = IF Links(m["pi"], memory) THEN open ELSE {"pi"}
    /\ untold' = FALSE
-----------------------------------------------------------------------------
\* RIB entries.

Families == {"IPV4", "IPV6"}

\* getribents: the errors of either format before the first entry.
Entries(msg, counted) ==
    CASE msg.rec.type = "TABLE_DUMPV2" ->
           {CASE ~Allowed(msg, {"F_NEEDS_PI"})  -> Refuse(msg)
              [] msg.peer_index = "none"        -> Fail(msg, "ENEEDSPEERIDX")
              [] msg.rec.cut = "head"           -> Fail(msg, "EBADRIBENT")
              [] msg.rec.afi \notin Families       -> Fail(msg, "ERIBNOTSUP")
              [] OTHER                          -> msg}
      [] msg.rec.type = "TABLE_DUMP" ->
           \* The scan that counts the entries takes each family's for the other's:
           \* what it makes of them depends on bytes that are not modelled.
           {msg} \cup IF counted /\ msg.err = "ENOERR" /\ msg.rec.items # <<>>
                        THEN {Fail(msg, "EBADRIBENT")} ELSE {}
      [] OTHER -> {Refuse(msg)}

getribents(counted) ==
    /\ "cur" \in open
    /\ \E new \in Entries(m["cur"], counted) : Becomes("cur", new)
    /\ UNCHANGED got

startribents(counted) ==
    /\ "cur" \in open
    /\ \E new \in Entries(endpending(m["cur"]), counted) :
         Becomes("cur", [new EXCEPT !.flags = @ \cup {"F_RE"}, !.at = 0])
    /\ got' = [got EXCEPT !["cur"] = IF m["cur"].err = "ENOERR" THEN Nothing ELSE @]

LastIsCut(msg) == msg.rec.cut = "item" /\ msg.at + 1 = Len(msg.rec.items)

\* The peer of entry e by the peer index of msg, for nextribent_v2.
PeerOf(msg, e) ==
    LET pi == m[msg.peer_index]
    IN  PeerAt(pi.rec.items, pi.pitab.pos[e.idx + 1])

\* How using the peer index of msg strays: it reads a buffer and a table.
Misused(msg) ==
    LET pi == m[msg.peer_index]
    IN  If(pi.pitab = NoTable, "missing")
        \cup If({pi.buf, pi.pitab.heap} \cap freed # {}, "freed")

\* The record is given up where the program would use what is not there.
nextribent ==
    LET msg == m["cur"]
        e   == msg.rec.items[msg.at + 1]
        v2  == msg.rec.type = "TABLE_DUMPV2"
        bad == IF v2 /\ e.idx >= m[msg.peer_index].picount THEN "EBADPEERIDX" ELSE "EBADRIBENT"
        new == [msg EXCEPT !.at = @ + 1]
    IN  /\ "cur" \in open
        /\ CASE ~Allowed(msg, {"F_RE"}) -> Becomes("cur", Refuse(msg)) /\ UNCHANGED got
             [] Allowed(msg, {"F_RE"}) /\ msg.at = Len(msg.rec.items) ->
                  /\ Becomes("cur", msg)
                  /\ got' = [got EXCEPT !["cur"].null = TRUE]
             [] Allowed(msg, {"F_RE"}) /\ msg.at < Len(msg.rec.items)
                /\ (LastIsCut(msg) \/ bad = "EBADPEERIDX") ->
                  \E err \in {bad, IF LastIsCut(msg) THEN "EBADRIBENT" ELSE bad} :
                     Becomes("cur", Fail(msg, err)) /\ UNCHANGED got
             [] Allowed(msg, {"F_RE"}) /\ msg.at < Len(msg.rec.items)
                /\ ~(LastIsCut(msg) \/ bad = "EBADPEERIDX") /\ v2 /\ Misused(msg) # {} ->
                  /\ stray' = Misused(msg) /\ open' = open \ {"cur"}
                  /\ UNCHANGED <<m, freed, untold, got>>
             [] OTHER ->
                  /\ Strays("cur", new,
                            If(v2 /\ Behind(m[msg.peer_index].rec, e.idx + 1), "beyond"))
                  /\ got' = [got EXCEPT !["cur"].items =
                               Append(@, [entry |-> e, peer |->
                                   IF v2 THEN PeerOf(msg, e) ELSE e.peer])]

endribents == "cur" \in open /\ Becomes("cur", endribents_(m["cur"])) /\ UNCHANGED got

-----------------------------------------------------------------------------
\* Records that carry BGP messages.

\* The parts of a header in their order; a record is cut in one of them or in none.
Complete(r, parts) == r.cut \notin parts

\* getbgp4mpheader.
Bgp4mpHeader(msg) ==
    CASE ~Allowed(msg, {"F_RD", "F_IS_BGP"}) -> Refuse(msg)
      [] ~Complete(msg.rec, {"as", "iface"}) -> Fail(msg, "EBADBGP4MPHDR")
      [] msg.rec.afi \notin Families            -> Fail(msg, "EAFINOTSUP")
      [] ~Complete(msg.rec, {"addr"})        -> Fail(msg, "EBADBGP4MPHDR")
      [] "F_HAS_STATE" \in msg.flags /\ ~Complete(msg.rec, {"state"}) ->
           Fail(msg, "EBADBGP4MPHDR")
      [] OTHER -> msg

\* unwrapbgp4mp, which takes any record that wraps a BGP message for a BGP4MP one.
Bgp4mpUnwrapped(msg) ==
    CASE ~Allowed(msg, {"F_RD", "F_WRAPS_BGP"}) -> {Refuse(msg)}
      [] Allowed(msg, {"F_RD", "F_WRAPS_BGP"}) /\ "F_IS_BGP" \notin msg.flags ->
           {msg, Fail(msg, "EBADBGP4MPHDR"), Fail(msg, "EAFINOTSUP")}
      [] OTHER -> {Bgp4mpHeader(msg)}

\* getzebraheader.
ZebraHeader(msg) ==
    CASE msg.rec.type # "BGP" \/ msg.err # "ENOERR" -> Refuse(msg)
      [] ~Complete(msg.rec, {"peer"}) -> Fail(msg, "EBADZEBRAHDR")
      [] msg.flags \cap {"F_WRAPS_BGP", "F_HAS_STATE"} = {} -> Fail(msg, "EINVOP")
      [] ~Complete(msg.rec, {"local", "state"}) -> Fail(msg, "EBADZEBRAHDR")
      [] OTHER -> msg

\* unwrapzebra.
ZebraUnwrapped(msg) ==
    CASE msg.rec.type # "BGP" \/ ~Allowed(msg, {"F_WRAPS_BGP", "F_RD"}) -> Refuse(msg)
      [] ~Complete(msg.rec, {"peer", "local"}) -> Fail(msg, "EBADZEBRAHDR")
      [] OTHER -> msg

GetHeader ==
    /\ "cur" \in open
    /\ \E new \in {Bgp4mpHeader(m["cur"]), ZebraHeader(m["cur"]), ZebraUnwrapped(m["cur"])}
                  \cup Bgp4mpUnwrapped(m["cur"]) : Becomes("cur", new)
    /\ UNCHANGED got

Next ==
    \/ \E r \in Records : setmrtread(r) \/ setmrtreadfrom(r) \/ setmrtread_r("cur", r)
                          \/ ReadFails("cur", r)
    \/ \E r \in Indexes : setmrtread_r("pi", r) \/ ReadFails("pi", r)
    \/ \E x \in Both : mrtclose(x) \/ startpeerents(x) \/ nextpeerent(x) \/ endpeerents(x)
                       \/ getpi(x)
    \/ setribpi \/ \E safe \in BOOLEAN : setribpi_r(safe)
    \/ \E counted \in BOOLEAN : getribents(counted) \/ startribents(counted)
    \/ nextribent \/ endribents \/ GetHeader

Spec == Init /\ [][Next]_vars
-----------------------------------------------------------------------------
(* A peer index as it should be: as many peers as it announces.              *)
WellFormed(r) == r.cut = "no" /\ r.count = Len(r.items)

(* The entries of a RIB come in their order, each with the peer its index     *)
(* names in the peer index the record was linked to (mrt.c:965-1024), however *)
(* the two messages were read, linked and iterated before; the end is told    *)
(* without an error only behind the last entry.                               *)
EntriesNameTheirPeers ==
    LET msg == m["cur"]
        g   == got["cur"]
    IN  "cur" \in open /\ "F_RE" \in msg.flags /\ msg.err = "ENOERR" =>
          /\ Len(g.items) <= Len(msg.rec.items)
          /\ \A i \in DOMAIN g.items :
               LET e == msg.rec.items[i]
               IN  /\ g.items[i].entry = e
                   /\ msg.rec.type = "TABLE_DUMP" => g.items[i].peer = e.peer
                   /\ msg.rec.type = "TABLE_DUMPV2" /\ WellFormed(m["pi"].rec) =>
                        /\ e.idx < Len(m["pi"].rec.items)
                        /\ g.items[i].peer = m["pi"].rec.items[e.idx + 1].peer
          /\ g.null => Len(g.items) = Len(msg.rec.items)

(* An iteration over peers skips none, although linking a record to the peer  *)
(* index moves the same iterator (the FIXME at mrt.c:201): it goes on in      *)
(* order, or it fails, or a link that got no memory for its table (mrt.c:216) *)
(* started it over, which no error tells.  An index that ends within a peer   *)
(* is left out: no end is met there (mrt.c:635).                              *)
PeersInOrder ==
    \A x \in open :
        m[x].err = "ENOERR" /\ "F_PE" \in m[x].flags /\ m[x].rec.cut # "item" =>
            /\ got[x].items = SubSeq(m[x].rec.items, 1, m[x].at)
            /\ got[x].null => m[x].at = Len(m[x].rec.items)

(* However messages are linked, copied and closed (mrt.c:197-229, 470-480,    *)
(* 657-682), by a client that closes one only of two that share a buffer: no  *)
(* call uses or frees what was freed; a table that is not there is used only  *)
(* for a RIB whose link failed and setmrtread did not tell (mrt.c:303-310);   *)
(* a call reads behind a record, or fills a table behind its end, only for a   *)
(* peer index that is cut short or announces more peers than it has.          *)
NeverStrays ==
    /\ "freed" \notin stray
    /\ "missing" \in stray => untold
    /\ "beyond" \in stray =>
          \E x \in open : "F_IS_PI" \in m[x].flags /\ ~WellFormed(m[x].rec)
=============================================================================
