# isocore: a verification project

isocore is the C library of the Isolario project: it reads and writes BGP and
MRT messages, filters packets, keeps prefixes in Patricia tries and offers the
programs built on it streams, logs, JSON and a pool of threads.  This directory
holds TLA+ modules that model parts of it, TLC configurations that check them on
small instances, and proofs that TLAPS checks.  Paths like `src/src/bgp.c` are
those of the repository, seen from the directory above this one.

## 1. Inventory

| Part | State it keeps | Operations | What is hard | What makes it right |
|---|---|---|---|---|
| BGP reading, `bgp.c` | `bgp_msg_t`: flags, first error, buffer, one cursor (`uptr`/`uend`), one union of iterators, the offset table `offtab` | `setbgpread*`, `bgpclose`, the start/next/end calls of 14 iterations, attribute lookups | one cursor and one union are shared by all iterations; lookups walk the attributes in the middle of another iteration; errors are sticky | an iteration returns its items in order, once each; lookups return the attribute asked for and disturb nothing; the first error stays |
| BGP writing, `bgp.c` | the same, with the fields behind the one being written kept aside (`presbuf`) | `setbgpwrite`, start/put/end, `set*`, `bgpfinish` | the buffer moves when it grows; fields are moved around the one being written | the finished message holds what was put |
| BGP OPEN, `bgp.c`, `bgpparams.c` | parameter and capability pointers | `startbgpcaps`, next, put, end | two nested lists of lengths | every capability is returned once |
| BGP from MRT, `bgp.c` | a message being rebuilt and its offset table | `rebuildbgpfrommrt` | truncated MP_REACH_NLRI, 16 bit paths, the offset table filled while writing | the rebuilt message announces the route of the RIB entry |
| Attributes, `bgpattribs.c` | none | encoders and decoders | lengths with and without the extended bit | encoding and decoding agree |
| MRT, `mrt.c` | `mrt_msg_t`, and the peer index message it refers to | headers, peers, RIB entries, unwrapping | two messages refer to each other; the offset table of peers is filled through the client's own iterator | entries and peers belong together |
| Patricia trie, `patriciatrie.c` | a heap of nodes, a free list, a count | insert, remove, exact and best search, supernets, subnets | glue nodes, nodes that are reused | searches agree with the set of prefixes inserted |
| Filter machine, `filterintrin.c`, `filterpacket.c` | stack, constants, heap, tries, the packet and its pending iteration | opcodes, growth, abort | prefetched instructions, stacks that grow, a jump out of the machine on error, an iteration kept between instructions and filters | a filter accepts what its source says, in every run |
| Filter compiler, `filtercompiler.c`, `filterdump.c` | token, code | recursive descent | text | code means what the source says |
| Streams, `io.c` | one buffer and a library's state per stream | read, write, close for seven kinds of stream | short reads and writes at any point, data held back by the compressor, failures at the close | what is read is what was written; a close that reports no error lost nothing; calls return |
| JSON, `json.c` | one growing buffer, a sticky error; a reader's position | open, put, close values; read a token; indent | growth in the middle of a value; commas decided from the text alone; text cut anywhere | what is written is read back, or an error is told |
| Log, `log.c` | file and mode | open, print, close | an open that fails | |
| Pool, `pool.c` | queue, mutex, condition variable, threads | `pool_create`, `pool_dispatch`, `pool_join` | every interleaving of threads | jobs are handled once, in order; joining waits for them |
| Line parser, `parse.c` | line and token | | text | |
| Addresses, strings, numbers, dumps, sockets, C++ wrappers | none or pure I/O | | | unit tests reach them |

The parts meet in few places: a client opens a stream (`io.c`), reads MRT records
from it (`mrt.c`), unwraps or rebuilds a BGP message (`bgp.c`), filters it
(`filterpacket.c`, which reads the BGP message through the same lookups and
iterations, and tries through `patriciatrie.c`) and hands work to a pool
(`pool.c`).  Except for the pool nothing is concurrent: the hard behaviour is in
long sequences of legal calls on shared state.  `PROJECT.json` lists the parts
with what is modelled of each, and the hazards with the line where each bites.

## 2. Modules

| Module | What it is |
|---|---|
| `BgpAsPath` | the AS path iterator of `nextaspath_r` and the rule of `startrealaspath_r`, as operators on one record |
| `BgpUpdateReader` | the calls of `bgp.c` that read an UPDATE, one action each |
| `FieldCursor` | abstract: what reading a message promises |
| `BgpUpdateMeaning` | what a packet says, and the reader as an implementation of `FieldCursor` |
| `MCBgpAsPath`, `MCBgpUpdateReader` | the instances TLC checks |
| `BgpUpdateReader_proofs` | theorems on the reader |
| `WorkerPool` | the pool, one action for each critical section |
| `JobService` | abstract: what a pool promises |
| `MCWorkerPool`, `WorkerPool_proofs` | the instance and the theorems, among them that the pool implements `JobService` |
| `BgpUpdateWriter` | the calls of `bgp.c` that write an UPDATE, one action each for the calls that differ only in their field |
| `UpdateDoc` | abstract: a document of three lists |
| `BgpUpdateWriter_proofs` | the writer implements `UpdateDoc` and never strays |
| `PatriciaTrie` | nodes, insertion, removal, searches and walks of `patriciatrie.c` |
| `PrefixSet` | abstract: a set of prefixes |
| `PatriciaTrie_proofs` | the trie stays sound, answers as a set of prefixes would, and implements `PrefixSet` |
| `MCBgpUpdateWriter`, `MCPatriciaTrie` | the instances TLC checks |
| `BgpOpen` | reading and writing the parameters and capabilities of an OPEN |
| `BgpOpen_proofs` | what is written is readable, and read back as it was put |
| `BgpFromMrt` | an external dump of routes and `rebuildbgpfrommrt_r`, one attribute a step |
| `MrtReader` | the calls of `mrt.c` on a record and the peer index it is linked to |
| `MrtReader_proofs` | nothing that was freed is used, and iterations are in order |
| `FilterVm` | the filter machine, one instruction a step |
| `FilterVm_proofs` | the machine runs the plain program, and its stack fits |
| `FilterCompiler` | the grammar of filters and the code it emits, as operators; with `FilterVm` in `MCFilterVm` |
| `IoStream` | the streams of `io.c`, one turn of a loop a step, over an external device and compressor |
| `IoStream_proofs` | what is written is kept, what is read is what was written |
| `JsonText` | writing, reading and indenting JSON |
| `MCBgpOpen`, `MCBgpFromMrt`, `MCMrtReader`, `MCFilterVm`, `MCIoStream`, `MCJsonText` | the instances TLC checks |

How they compose: `BgpUpdateReader` uses the path iterator of `BgpAsPath`; `BgpUpdateMeaning` maps it
to `FieldCursor`; `MCFilterVm` runs on `FilterVm` what `FilterCompiler` emits, over messages that are what
the reader's iterations return and tries that are the sets `PrefixSet` says a trie is; `BgpFromMrt` reads its
own result back through the offset table, the way the reader does; `JsonText` and `IoStream` hold both ends, so
that what one writes the other reads.

Definitions keep the names of the code, without the `_r` of the reentrant
functions (those without the suffix call them on one message of the thread, each its own but for
`getbgpas4aggregator()`, which the reader models for that).
Operators whose comment begins with *Variant* are not part of any
specification: each is the definition after it with a plausible mistake in it,
kept to show that the properties notice (section 6).

### The reader

State of `BgpUpdateReader` and what it stands for:

* `pkt`: the message in `msg->buf`.  A field is a sequence of items and a bit,
  `cut`, for bytes behind the last item that cannot be one.  Section lengths of
  the message are taken as consistent (the packet is framed by its reader), so
  damage is a bad tail of a field, a bad tail of the attribute list, an address
  family the library does not read, or a stray byte of a path.
* `open`: between `setbgpread` and `bgpclose`.
* `msg.flags`, `msg.err`: the flags and the error.  The error is sticky; `Allowed`
  and `Refuse` are the CHECK macros.
* `msg.uit`: `uptr`/`ustart`/`uend` as a field and the number of items read.
* `msg.family`: the address family in `pfxbuf`, which the prefix and next hop
  iterations share.
* `msg.iter`: the union of path, next hop and community iterator.  Its members
  are records of different shape, so that reading it as the wrong member is not
  a state the type invariant allows on a message without error.
* `msg.offtab`: 0 for not searched, -1 for `OFFSET_NOT_FOUND`, else a position.
* `got`: what the last next call returned.

Each function that takes a message is an operator from a message to a message,
and each action applies one.  `Lookup` is `seekbgpattr`: the walk over the
attributes, the end of that walk and the restored iteration are one step, as
they are for the client.  The client may call anything at any time, within two
rules the code leaves to it: a next call is made for the iteration the cursor was
last given to (`Owns`), and among next hops no multiprotocol iteration is
started, which would share their buffer; and it starts multiprotocol iterations inside
others of the packets in `Nested` only (`MayNest`).

`getbgpattr` is every lookup by code; a call is a code and whether it is made on the
message of the thread.  `Sought` is the code it looks for, which is that of the call but
for `getbgpas4aggregator()`, which calls `getbgpaggregator_r` (`bgp.c:2091`).

Left out: add-path identifiers and AS width in bytes (the width is a flag of the
iterator), allocation failure in `setbgpread_r`, the OPEN flag `F_PM`.

### The pool

A step of `WorkerPool` is one critical section of the mutex, or what a thread does
outside.  `Sleep` is the test of the queue and the wait, atomic because the wait
releases the mutex; `WakeSpuriously` is the wakeup POSIX allows; `SeeTerminate`
and `Exit` are apart because the thread reads its own entry after the unlock.
Threads may fail to be created.  Dispatching is allowed to the owner until it
joins and to handlers always (`MayDispatch`); an owner that dispatches after
`pool_join` has lost its pool.  A `pool_dispatch` that cannot allocate changes
nothing and is no step.  `accepted`, `late` and `handled` are history.  The code
for transient workers is unreachable, `pool_create` being the only one to create
workers, and is left out.

### The writer

State of `BgpUpdateWriter` and what it stands for:

* `msg.cells`, `msg.pktlen`, `msg.bufsiz`: what `buf` holds behind the header.  A
  length, a route and an attribute take one cell each, so that a length written in
  the wrong place destroys something the invariants look at.
* `msg.alloc`, `msg.at`: which allocation is `buf`, and which one `uptr` and
  `ustart` point into.  `bgpensure` moves the first and not the second.
* `msg.pres`: `presbuf`, the cells behind the open field.
* `msg.stray`: the program used a pointer into a buffer that is gone, or wrote
  behind the end of one.  What it does afterwards is not modelled: the message can
  only be forgotten.

`Opened` and `Restored` are `bgppreserve` and `bgprestore` with the bookkeeping
around them; `bgpensure`, `StartField` and the operators built on them give sets of
messages, since an allocation may fail.  The client calls anything in any order
within three rules: it replaces a field (`setwithdrawn`, `setnlri`) while no field is
open, it writes messages of `MaxLen` cells at most, and it starts no field of a
message that is finished, which would read it: that is the reader's module.
`SetsNlri` says whether it calls `setnlri` where that does harm.

Left out: the encoding of a prefix in bytes, add-path, the attribute's own length,
the memory lost by closing a message with an open field.

### The trie

State of `PatriciaTrie`: `trie` is `patricia_trie_t` with its nodes (`head`, `node`,
`free`, `pages`, `nprefs`), `ret` what the last call returned, `lapsed` history: whether, since the
last clear, an absent prefix was removed or the count came round to 0.  A prefix is the
sequence of its bits.  Nodes are numbered in the order of their addresses in a page,
and the free list is the sequence of the nodes in it, so which node an insertion
takes is the one the code takes.

Insertion follows the code: descend (`Reached`), compare (`DifferBit`), climb
(`Climbed`), then one of three places.  A removal of a node with two children frees
it in place; what the link of the free list leaves in its prefix is any length up to
one beyond the longest and any of the client's addresses (`ForkRemoved`).  Searches
and walks read the state and are operators; a walk keeps the stack of the code, with
the slots that were never written, so that the two ways the code pops it
(`Popped`, `MisPopped`) can be told apart.

The client's prefixes have no bits set behind their length.  Three constants restrict
what it does, so that one run shows what holds and another what each case breaks:
`InsertsSupernets`, `RemovesForks`, `Repeats`.

Left out: payloads, the text interfaces, negative lengths in a node overwritten by a
link.

### OPEN parameters

`BgpOpen` holds the bytes: `msg.buf` from the parameter list on, `msg.plen` the length byte, `msg.params`
and `msg.pptr` the two pointers, as offsets.  Bytes go up to `ByteMax`, which stands for 255, so that a length
that does not fit its byte wraps.  A message is well formed by construction (`Lists`, `Encode`), has a
length too long in its last parameter, or is written by the client, through `putbgpcap` (a capability whose length does not
fit included), through `setbgpparams` (`RawLists`), or both.  `says` is what the list says, computed from the
list and not from the bytes; `got` what `nextbgpcap` returned.  `Junk` is what an earlier message left in the buffer.  A
`startbgpcaps` while writing and a list set over another are steps too.

Left out: what a capability means (`bgpparams.c`), which are conversions of its bytes.

### BGP from MRT

`route` is what a router announced; the dump, which is external, is what an MRT file keeps of it (`Dump`): attributes with
32 bit paths, or 16 bit ones in the legacy format, and MP_REACH whole, or cut down to its next hop.  The call starts in `Init`,
and each `Attribute` takes one attribute: copies it, narrows it (`Narrow`), completes MP_REACH with family and prefix, drops
MP_UNREACH, and notes the offset.  `Finish` ends the call.  Damaged dumps have headers that announce more than there is, segments cut short, and attributes twice.

Left out: how much room the message has, which the code does not ask (section 5).

### MRT

`m` holds `curmsg` and `curpimsg`.  A buffer or a table of peers is the message's own (0) or a numbered allocation; both
messages may hold the same one, since `setribpi` copies the message; `freed` are those that were given back
and are still pointed to.  `stray` says what the last call did that it must not: use or free one of those (`"freed"`), use a table that is
not there (`"missing"`), go on behind the end of a record or of the table (`"beyond"`).  `pitab` has the offsets of the peers found so far, which
`setuppitable` fills through the peer index message's own iterator.  `got` is what each iteration returned.  `masktab` is
`mrtflags`.  Where a record is cut (`cut`) every reading call notices in its own way, but for a peer index cut within its last
peer: nobody compares with the end there, so that `nextpeerent` returns what follows the record, again and again, as `setuppitable` does
until it has as many as were announced.

A link may find no memory for a table that does not fit in the message (`NoRoom`): then the peer index is named, there is no table,
and the iteration over the peers was started over and stays so.  With a bad header the number of peers is unset, and is any number.
`setribpi` tells both; `setmrtread` does not look (`mrt.c:303-310`), and `untold` says that the RIB in `curmsg` was read so.
A RIB entry whose peer index has no table is given up: the program would read a null pointer.

The client is careful (`Careful`) in one way without which the code strays: it closes no record it gave to `setribpi`
(section 5).  That is all it does: it goes on with a RIB that `setmrtread` read, whatever became of the link.  Left out: addresses, times, the writing calls, which are stubs.

### The filter

`s` is `filter_vm_t` with the iteration of its message; `s.pc`, `s.ip` and `s.np` are the program counter, the instruction
and the prefetched one; `Fetch`, `Predict` and `Goes` are the macros of `filterpacket.c` in the build with computed gotos.  `Stopped`
is the `longjmp` of `vm_abort` and what follows.  A message gives its iterations as lists, and fails at the end of those in
`bad`; tries are sets.  `prog` carries the code and, where the program was made from an expression with a meaning, the set of
messages it holds for (`passes`), computed from the expression and not from the code.  Constants (`K`), functions (`UserFns`) and
what lies in memory behind the code (`Behind`) are parameters.

`FilterCompiler` maps tokens to code, one operator for each rule of the grammar.  The lexer is left out, and of errors only that
there is one.

### Streams

An item the client writes becomes one unit of the file, a compressed stream ends with `END`.  The compressor is external: it consumes
its input until there is none or the output is full, and up to `io.latency` items wait inside (`io.held`).  The device may
take or give less than asked, and `MaxFaults` calls of it may fail, `errno` having any value.  `call` is the call in progress: a step is
one turn of its loop.  `z`, `bz2` and `xz` share their read and write loops and differ in how they end
(`FinishZ`, `FinishBz2`, `FinishXz`).

### JSON

`json` is the buffer with its text, `len` and `cap`; a growth may fail while `Memory` lasts.  The client opens and closes aggregates,
names fields and puts values, in the order the grammar allows, and looks at errors when it likes; `doc` is what it asked for.
`Read` is the parser applied until it is through, `jsonprettyp` the indentation, an action of its own.  A number is its characters, and
a boolean two symbols, its first letter and the rest, so that a text can be cut within either.  `strtod` is external: the parser takes
the longest number there is, and nothing if it is one of `Refused`, the denormals `%g` writes and glibc sets `errno` for.

## 3. Runs

| Run | Question | Bounds | Result |
|---|---|---|---|
| `aspath` | does `nextaspath` return the path of RFC 6793, 4.2.3, and tell segments apart? | paths of up to 3 segments against up to 2, up to 2 ASes each, both types, empty segments, stray bytes | holds, except for the shapes below |
| `reader` | do all iterations and lookups return what the packet says, with a truthful offset table, one current union member and a sticky error? | eight packets: dual stack, communities with a new speaker's path, everything damaged, an unread family, not an UPDATE, an old speaker's, aggregated, and one whose iterations are nested | holds, lookups by `getbgpas4aggregator()` excepted |
| `pool` | do threads, mutex and condition variable implement the service, does joining return, are jobs handled? | up to 3 threads, 3 jobs | holds |
| `writer` | is the message delivered the document the calls describe? | 2 items, 6 cells in `fastbuf` and in a message, 2 in `fastpresbuf` | holds |
| `trie` | is the trie a set of prefixes, and does every search and walk say what the set says, without enough memory, with repeated calls and a count that wraps, and is room allotted for the walks? | 4 prefixes of up to 3 bits, the default route among them, 4 nodes in pages of 2, a count of 2 bits | holds for clients that insert shorter prefixes first and remove no fork |
| `trie_supernet` | the same for a client that inserts a longer prefix first | 4 prefixes | violated: section 5 |
| `open` | are capabilities returned in order, and can what was written be read back? | lists of up to three parameters of up to two capabilities that fit in 7 bytes, 4 puts | holds |
| `frommrt` | is the UPDATE rebuilt the one that was announced, and its offset table true? | 11 routes in every form of dump, 4 damaged ones | holds |
| `mrt` | do entries come with their peers, in any order of calls on two messages, without using freed memory, and what if a link fails? | 9 records, 4 peer indexes of up to 2 peers, 1 of which fits in the table of the message, a bad and a cut one among them, memory or none at each link | holds, what `setmrtread` does not tell excepted |
| `vm` | does the machine pass what filters mean, in every run? | 2,028 programs: expressions of 26 leaves under negation, conjunction, disjunction and nested blocks, all of up to 3 words of no meaning, compiled ones; 4 messages, 2 runs | holds |
| `io` | do streams lose, repeat or reorder, do calls return? | 5 items, a buffer of 2, up to 3 items held back, 2 faults, 4 files | holds, except for the losses and the loop named |
| `json` | is what is written read back, whole, cut and indented, within its buffer? | documents of up to 4 tokens, a digit and a denormal among them, a buffer that grows at every other of them, 2 growths before memory is out | holds; a denormal is not read |

Why the bounds are enough.  The path iterator only compares counts and looks at
one segment at a time: three segments give one before, at and behind the switch,
and two ASes tell the first of a segment from another.  The reader never looks at
the value of an item, only whether there is one: fields of zero, one and two items
show the start, the middle and the end.  Packets are opened one
after the other, which is how a stale offset table would show.  One packet has nested
iterations, with a route, a path, communities and an MP_UNREACH_NLRI to start in the middle
of each of the others.  There is no bound
on the number of calls: the state space is finite.  In the pool three threads give
one that sleeps, one that runs and one that is between, and three jobs give one in
hand, one before and one behind the terminate request.  The pool may stop for good once it is freed or when no client
dispatches, so deadlock is not checked there; the clients of the reader, the writer
and the trie can always call something.

In the writer a message of six cells has room for two lengths and four items, so
that each field can be empty, or hold one item or two, with something behind it; two
cells of `fastpresbuf` make setting aside need an allocation or not.  `setbgpdata`
grows the buffer within these bounds, since it asks for more room than it uses.  In the
trie three bits give a glue node above two prefixes, one below a prefix, a fork below a prefix, and a
chain; four nodes are fewer than the four prefixes can need (a glue node above a glue node needs five, and is
left to the proofs), and a
page of two is refilled in the middle of an insertion.

In an OPEN seven bytes hold two parameters with a capability each and something behind them, and `ByteMax` is small enough
for a capability, a parameter and a list to be one too long.  A peer index of two peers and a table of one make the table move to the
heap, and a link of that one find no memory for it.  An index cut within its last peer, one with a bad header and one that announces a
peer it has not show each way to stray.  Two runs of a filter show what the first leaves in the machine, and every leaf occurs behind every other.  A stream's
buffer of two units is filled in the middle of an item, at its end, and behind it; three items held back
are more than it takes.  A JSON document of four tokens has a value behind each kind of token, in an array and in
an object, an aggregate in an aggregate, and a growth between any two.

Deadlock is not checked in `frommrt`, `io` and `vm`, where a call returns, a client closes its stream or has had its runs,
and that is all.

The refinements: `reader` checks `FieldCursor`'s specification
under a mapping that computes, from the concrete cursor, the items the pending
iteration has left, for the packets that are not `Nested`; `pool` checks `JobService`'s specification, the queue before
the terminate request being its pending jobs; `writer` checks `UpdateDoc`, a document
being read off the lengths in the buffer, the cursor and the cells set aside; the
`trie` run checks `PrefixSet`, the set being the prefixes of the nodes that can be
reached from the head.

`WalksAreRight` says of the walks for subnets and related prefixes what is true of
them: they are right where they meet no fork.  `SubnetsAreReturned` and
`RelatedAreReturned` say what the header says (section 5).

`LookupsAreRight` is checked on packets whose notable attributes are distinct.
With repetitions the answer depends on what was read before (a walk records the
last attribute it passed, a lookup stops at the first), and what remains true is
`SeekCoherent`, which the proofs establish for every packet.  Where none repeats, `LookupsAreRight` is proved as well.
It is about every lookup but `getbgpas4aggregator()`; `EveryLookupIsRight` is about all (section 5).

`CountIsRight`, that the count is the number of prefixes, is not so when calls repeat (section 5).  What remains
is `CountCovers`: until `lapsed` it is no less, which is what the array for the subnets is sized by, and `WalksAreRight` says that
this array has room for them.

`PeersInOrder` is about peer indexes that are not cut within a peer, and about what was returned since the iteration was last started, which
a link without memory does as well, with no error from `setmrtread`: peers that come again by this are in the order it claims.
`NeverStrays` excepts the two ways to stray the code has with a careful client: the table missing behind an untold link, and
reading or writing behind an end with a peer index that is not `WellFormed`.

`ReadsWhenWhole` says what the reader tells of a text cut anywhere: bad syntax where the cut leaves a word that is none (`Spoilt`), as
behind a sign or within `true`, and incomplete otherwise; of a document with a refused number it says that it is bad.

`CallsReturn` excepts one loop (`TurnsForever`), that of zlib and xz reading behind the end of the stream; `EveryCallReturns` excepts none
(section 5).

`CloseMeansWritten` excepts four losses, each where the code has it (`LossIsKnown`); with one of them taken out of
the exceptions, or with `EveryCloseMeansWritten` in its place, the run fails (section 5).  `EndIsTheEnd` is not claimed of descriptor
streams, which answer with less than asked whenever the device does, nor of files without an end.

## 4. Fairness

Two specifications assume any.  `FairSpec` of the pool has weak fairness of each thread
(`worker_routine`), of the creation loop and of the joining loop.  It says that
the operating system schedules threads, grants a mutex that is free often enough,
and that handlers return; without the last no join can return.  Spurious wakeups
and dispatches are not fair.  Weak fairness is enough: what a worker may do stays
possible until it does something, since only the one that holds the mutex moves
and its next step from `lock` depends on the queue only.

`Spec` of `IoStream` has weak fairness of `Step`, the turns of the loop of a call that was made: the device answers.
`CallsReturn` says that no loop turns for ever, whatever it answers, but for the one in `TurnsForever`.

## 5. What the runs found

* Inserting a prefix after one of its subnets puts a glue node of the prefix's own
  length above it, since the branch for this case repeats the condition of the one
  before.  Searches stop at that length and miss the prefix.  (`trie_supernet`)

What else came up is told by properties that no listed run checks.  Each is refuted in
a few seconds by the configuration named, with the property in place of its own:

| Property | Configuration | What the code does |
|---|---|---|
| `PrependsWholeEntries` | `aspath`, with `MaxSegs = 2`, `MaxSegs4 = 1` | `nextaspath_r` decrements its count of entries to prepend on the first member of an AS_SET and switches to AS4_PATH before the next element (`bgp.c:1783`), so a set of several members that is the last entry to prepend loses the others; a set without members is counted and never met. The comments say a set counts once and that the switch comes when enough entries are prepended. |
| `EveryLookupIsRight` | `reader` | `getbgpas4aggregator()` calls `getbgpaggregator_r` (`bgp.c:2091`) and returns AGGREGATOR, or nothing where there is only AS4_AGGREGATOR. |
| `OnlyOnePending` | `reader` | `startmpunreachnlri_r` and `startmpreachnlri_r` do not end the pending iteration, so two flags are set, while `endpending` says only one can be. `UnionIsCurrent`, checked on a packet with such nesting and proved for all, shows that the union is not misread in spite of it. |
| `NeverStrays` | `writer`, with `MaxLen = 8` | `bgpensure` moves the buffer and leaves `uptr` and `ustart` pointing into the old one (`bgp.c:240`), and `putbgpattrib_r` never calls it: a message longer than its first buffer is written outside of it. |
| `NlriHasNoLength` | `writer`, with `SetsNlri = TRUE` | `setnlri_r` writes a length before the NLRI, where the attributes end or their length is. Only an empty NLRI behind empty attributes survives. |
| `SubnetsAreReturned` | `trie` | Four of the walks pop the slot above the last one pushed (`*(sp--)`). |
| `RelatedAreReturned` | `trie` | `patgetrelatedofn` can return an array without end. |
| `FirstSubnetsAreSubnets` | `trie` | `patgetfirstsubnetsofn` does not compare what it returns with the prefix. |
| `TreeIsSound` | `trie_supernet`, with `InsertsSupernets = FALSE`, `RemovesForks = TRUE` | A removed node with two children is in the free list and in the trie (`patriciatrie.c:425-429`), although a node "can be free or not" (`patriciatrie.h:66`). |
| `CountIsRight` | `trie` | `patinsertn` counts a prefix that is there again, and `patremoven` takes one that is not there off the count, by which `patgetsubnetsofn` sizes its result. |
| `EveryCapabilityIsRead` | `open` | `nextbgpcap_r` compares the first capability of a second parameter with the end of the first (`bgp.c:885`) and reports an error behind a capability it returned; an empty CAPABILITY parameter is an error as well. |
| `NeverStrays` | `mrt`, with `Careful = FALSE` | Closing a record given to `setribpi` frees what the peer index still uses, and the next link or close uses it or frees it again. |
| `"missing" \notin stray`, `"beyond" \notin stray` | `mrt` | `setmrtread` does not look at what `setribpi` says: without memory for the table, or with a bad header, `nextribent_r` reads a null table (`mrt.c:303-310`). Nothing compares a peer with the end of a record that is cut within it (`mrt.c:599`, `635`), and `setuppitable` fills the table for as many peers as were announced (`mrt.c:213-229`). |
| `SettleRewinds` | `vm`, with `Programs <- Careless` | The settle flag, documented as rewinding the iterator (`filterintrin.h:119`), does nothing if a function of the machine used another iteration in between (`filterintrin.c:602-634`). |
| `EveryCloseMeansWritten` | `io`, with `Writers = {"z"}`, `{"bz2"}`, `{"xz"}` or `{"lz4"}` | zlib: `deflate(Z_FINISH)` is called once, and what does not fit in the buffer is lost without an error (`io.c:276`). bzip2: a failed last write sets a variable nobody reads (`io.c:520`). xz: errors are told as `errno`, some values of which read as success (`io.c:752`). LZ4: writing is not finished code. |
| `EveryCallReturns` | `io` | zlib and xz readers that met the end of a stream with bytes behind it ask the library again and again, which says that it is at the end (`io.c:199-221`, `677-697`): a read that asks for more than there is never returns. |
| `ReadsWhatIsWritten` | `json` | `strtod` sets ERANGE for a denormal, which `newjsonvalf` writes and `jsonparse` refuses (`json.c:408`). |
| `ReadsWhenWhole` | `json`, with `Strings <- EscapeLast` | The parser takes a quote for escaped if a backslash is before it (`json.c:427`), an escaped one included, so that a string that ends with a backslash never ends. |
| `NeverCrashes` | `json` | `jsonprettyp` does not look whether there is room for the last bracket (`json.c:380`). |

Seen while modelling, and in the modules as the code has it, or next to what they cover:

* OPEN: `setbgpparams_r` writes a length into the marker; `putbgpcap_r` asks for no room; calls behind the
  NULL of `nextbgpcap_r` return bytes behind the list.
* BGP from MRT: an IPv4 prefix that came with MP_REACH is announced twice (`bgp.c:583`), which `RebuildsTheRoute`
  allows; nothing bounds what is written; AGGREGATOR is not narrowed; `ismrttruncated` takes a whole IPv4 MP_REACH for a cut one.
* MRT: BGP4MP_MESSAGE_ADDPATH has no entry in `masktab`; the entry size of a legacy dump has the two families the wrong
  way round when entries are counted (`mrt.c:800`); `endribents_r` sets its flag (`mrt.c:1045`), where others clear theirs:
  what is returned is the same with either, so no property tells them apart.
* Filter: EXACT without an accessor is compiled and always fails; a register equal to a compiled constant goes with it at DISCARD;
  a predicted NOT at the end of the code looks at a word behind it, which the programs of `vm` are kept from; `vm_growk` reallocates the
  array in the machine (`filterintrin.c:75`); ASPENDS with an empty stack slides its window before its start.
* Streams: files that are cut end like whole ones; short reads of a descriptor pass for its end.
* JSON: `[,]` is accepted; names are not escaped.

## 6. Sensitivity

For each property of a passing run one *Variant* replaces the definition it
follows: a dropped `endpending`, a table that is not cleared, a flag that is not
reset, an error that is overwritten, a signal that is not sent, a terminate request
at the front of the queue, an offset counted from the wrong place, a loop left one turn early.  Each makes TLC refute the property under the run's own
configuration, so each property depends on the code it is about.  The pairs are
under "mutants" in `PROJECT.json`.

## 7. Proofs

`BgpUpdateReader_proofs` proves, for every set of packets that satisfies
`PacketsAssumption`, with nested iterations of any of them:

* `TypeCorrect`: `[]TypeOK`;
* `UnionCorrect`: `[]UnionIsCurrent`, on a message without error the flag of a
  pending iteration names the union member in use;
* `SeekCorrect`: `[]SeekCoherent`, the offset table tells the truth;
* `FirstErrorStays`: `FirstErrorWins`;
* `LookupsAlwaysRight`: `NothingRepeats => (Spec => []LookupsAreRight)`, of every lookup but `getbgpas4aggregator()`, if no
  packet holds two attributes of one notable code;
* `OneIsPending`: `Nested = {} => (Spec => []OnlyOnePending)`.

The invariant is `IInv == TypeOK /\ UnionIsCurrent /\ SeekCoherent`, and none of
the parts is inductive alone: that a cursor can be moved to the attribute the table
names needs the table to be truthful, and that `NextPath` leaves a path iterator
needs the union to hold one.  `Good(m)` is the invariant of one message; a lemma
per operator shows that it is kept, `Lookup` and `EndPending` first, then whatever
is built from them, and the step of each action is one application.

A truthful table is not yet a right lookup: `LookupFinds` adds that NULL without an error means that no attribute has the code, and
`OnlyOneIsFirst` that the attribute found is the first where none repeats; without `NothingRepeats` the claim is false (section 3).
`OneIsPending` adds `OnlyOnePending` to the invariant: `NoneBegun` says of the calls that read, look and end that they leave no iteration that was not
there, and a call that starts one ends what is pending first.  Of `Nested` packets it is false (section 5).

`WorkerPool_proofs` proves, for every number of threads and every set of jobs:

* `PoolTypeCorrect`: `[]TypeOK`;
* `NoWakeupIsLost`: `[]WorkConserving`;
* `FreeIsSafe`: `[]FreedIsUnused`;
* `JoinLeavesNoJob`: `[]JoinDrains`.

The invariant adds to `TypeOK` and `WorkConserving`: `Threads` (a thread is there
exactly if it was created, and those joined have exited), `Ending` (the terminate
request is in the queue once, from joining on, and nobody leaves before it is the
head) and `Accounted` (a job accepted is in the queue, in a worker's hands, or
handled).  `JoinDrains` follows because the head of the queue is the terminate
request by the time a thread has left.

It also proves `PoolIsAJobService`: `Spec => ImplementsJobService`, the refinement `pool` checks, for every number of
threads and every set of jobs.  It needs one invariant more, `SInv`: no job is in two places (`Serial`: queue, workers,
handled), and nothing is queued before `pool_create` returns (`Idle`).  Each action of the pool is then a step of the service: a
dispatch is `Accept`, or `Abandon` behind the terminate request, because the queue before the request is not moved by what is put behind it
(`CutOfAppend`); taking a job is `Start`, because the head of the queue is the head of that part (`CutOfTail`);
freeing is `Closed`, because a thread that has left saw the request at the head.  All others are stutters.

`FilterVm_proofs` proves `MachineRunsThePlainProgram`: `[]RunsThePlainProgram`, for every program, message, constant and
user function, and whatever lies behind the code.  The invariant adds to the word in `ip` the one in `np` (`AtWord`): it is the
word behind, or, behind the last one, a word that `ip` does not predict.  A lemma for each operator says that it touches
neither counter nor words (`Alike`), `GoesIsBetween` says that whatever comes next stands between two words again, and
`BreakIsInCode` that a branch does; each instruction is then one application of `DoKeeps`.

It also proves `StackAlwaysFits`: `Spec /\ []UnpacksArrays => []StackFits`, for every size and step of the stack, every list in a
message and every failure to grow.  Its invariant is `Fits`: the stack is a list no longer than its allocation, which has room for
one cell.  `KeepsTheStack` is the part of `Alike` about it, so that the same lemmas carry it, and `GrownIsEnough` says that
`vm_growstack`, called until the cells fit, makes room for them.  `UnpacksArrays` is what the code takes for granted of a program: when UNPACK finds an array in the heap, it is one.  The
model counts cells without a limit; in the code the size is an `unsigned short` (`filterintrin.c:49`), so the theorem is about stacks of fewer than 2^16 - 128 cells.

`IoStream_proofs` proves, for every buffer size, file, latency of a compressor and number of failures:

* `NothingElseIsLost`: `[]CloseMeansWritten`;
* `ReadInOrder`: `[]ReadsInOrder`;
* `ShortIsTheEnd`: `[]EndIsTheEnd`.

The invariant follows one unit through the layers.  Writing without a compressor, what was taken is on the device (`DirectWrites`); with
one, the device, the buffer and the compressor hold it in this order (`PackedWrites`), until an error is kept or xz takes one for success.  Reading, what was given
is the beginning of the file (`ReadSoFar`), and the buffer holds what follows it (`PackedReads`).  `CallsFit` bounds the buffer at
each turn of a loop, without which a turn that fills it says nothing.  `Content` is a minimum over the file, so `ContentIs` gives it by its elements.

`MrtReader_proofs` proves, for every set of records and peer indexes and every length of the fast table, if `Careful` holds:

* `NothingStrays`: `[]NeverStrays`;
* `PeersComeInOrder`: `[]PeersInOrder`;
* `PeersAreNamed`: `[]EntriesNameTheirPeers`.

`Careful` is a constant of the module: without it a client closes a record whose buffer the peer index still uses, and the first
property is false (section 5).  Memory may fail at every link, and headers and last peers may be bad.  Of `PeersInOrder` that leaves out, as the
property says, indexes cut within a peer, and it counts from where the iteration was last started, by the client or by a link without memory; of
`NeverStrays` the exceptions are those of section 3.  The invariant adds `Opened` (flags, tables and iterations of a message in use fit its record),
`Owned` (nobody in use holds what was freed, and no two hold the same), `Kept` (a linked record has a peer index in use, with its table unless `untold`) and
`Named` (entries returned so far have the peers their numbers name).  The offsets of the peers are a recursive function; `OffsetsFollow`
unfolds it and `OffsetsGrow` bounds it, both by the least number for which the claim fails.

`BgpUpdateWriter_proofs` proves, for every set of items, bodies and fields and all buffer sizes, under `MaxLen <= FastSize` and `~SetsNlri`:

* `NothingStrays`: `[]NeverStrays`;
* `AllFieldsAreFramed`: `[]FieldsAreFramed`;
* `WritesTheDocumentAlways`: `Spec => WritesTheDocument`, the refinement of `UpdateDoc`.

Both hypotheses exclude what the code does wrong: a message longer than `fastbuf` moves, and the cursor does not (`bgp.c:240`); `setnlri_r` writes a
length where there is none (section 5 has both, and `writer` stays within them).  The invariant is `Correct`: a message of which no call
failed `Holds` three lists.  Which cells they are in depends on the field that is open: what is behind it is set aside in `presbuf`, and the length in front of
it is not written yet.  `Lies(s, k, t)` says that `t` is in `s` behind `k` cells, and a dozen lemmas move it through copying, cutting and concatenation.
Each call then goes from one set of lists to another, which is the step of the document.

`PatriciaTrie_proofs` proves, for every set of prefixes, length of addresses, page size, amount of memory and width of the
count, with or without `Repeats`, under `~InsertsSupernets` and `~RemovesForks`:

* `TypeCorrect`: `[]TypeOK`;
* `TreeStaysSound`: `[]TreeIsSound`, and `StoredStaysFound`: `[]StoredIsFound`;
* `SearchesStayRight`: `[]SearchesAreRight`;
* `TheIteratorListsAll`: `[]IteratorIsRight`, the first part of `WalksAreRight`;
* `NodesDoNotMove`: `NodesStay`;
* `TheCountCovers`: `[]CountCovers`;
* `IsASetOfPrefixes`: `Spec => ImplementsPrefixSet`.

Both hypotheses exclude what the code does wrong: a prefix inserted after one of its subnets ends below glue of its own length
(`patriciatrie.c:296`), and a node with two children stays in the tree while it is in the free list (`patriciatrie.c:426`).  Memory may run out
at any point, between the new node and its glue included: the new node is then lost, and the set is what it was (`LostIs`).

The invariant says that there are a set `S` of nodes and a string of bits `a[n]` for each of them, glue included (`Sound`): each node hangs
from its parent on the side of its next bit and agrees with it so far (`Shape`), glue has two children (`Forked`), and no node of
`S` is in the free list, which has no node twice and none of a page to come (`Ledger`).  None of it is computed from the head down: `TreeIsInTree` shows afterwards that
`InTree` is `S`, as a node is reached in as many steps as there are shorter ones, and the bits of glue are those of any plain node below it (`PlainBelow`), so
that nothing has to be said of them when the node they came from leaves.

A descent is a recursive function.  `WayIs` turns it into a set of nodes closed under the step it takes, which ends because lengths grow
and are bounded (`Depths`), and `PathIs` lists the plain nodes it passes.  Everything that is found is then found by one lemma: a node whose bits agree with a prefix is
on the way to it, if the way goes on at all such nodes that are shorter (`OnTheWay`).  An insertion descends through glue of any
length, compares, and climbs; `PlaceIs` says that where it arrives the prefix is there, or hangs from a shorter node, or parts from the
node behind a bit above which nothing differs.  From there on it is a matter of links: `LeafAdded`, `GlueAdded`, `LeafCut`
and `NodeSpliced` say of a tree with one node more or less that it has the shape, and `BelowIs`, `BesideIs`, `ChainIs` and `LeafIs` that the code writes such trees.
The count is part of the invariant: each way to insert adds one to it and at most one prefix to the set (a prefix that is there again, and a node lost for want of its glue, add none),
and each removal of a prefix that is there takes one from both (`StillCovered`), so the count stays at or above the number of prefixes until `lapsed`.
That it is the number of prefixes is not claimed, as `Repeats` breaks it.

The walk for a subnet of a prefix never pops: it starts at the topmost node that agrees with the prefix (`StartIs`) and goes to the left until a
node is plain (`SupernetIs`), so the wrong pop of four walks (section 5) does not reach this one.
The iterator pops rightly.  Its invariant, `Walking`, is about the set of nodes visited: they are closed upwards, and their children are visited, or
current, or on the stack (`Frontier`); the list returned so far has the plain ones once each (`OnceEach`).  The slots in use are no more than the
bits of the node the walk is at (`Stacked`), which is why the stack of `MaxBitLen + 1` slots is enough.  Each step visits one
node more, so the walk ends, and then the children of every node visited are visited too: that is the tree (`WalkingEnds`).

`BgpOpen_proofs` proves, for every set of capabilities, every size of a byte and of the buffer:

* `WhatIsWrittenIsReadable`: `[]WrittenIsReadable`;
* `OwnCapsAreInOrder`: `[](says.own => CapsAreInOrder)`, the half of `CapsAreInOrder` about messages that this program wrote.

The invariant `Good` says that capabilities that were put are `Laid` one behind the other behind one header, at offsets that grow by their lengths, that
the lengths and pointers of the message agree with the last of them (`Stands`), and that an iteration over the message stands at one of the offsets.  It holds
of a message without error in which no list was set over another (`says.whole`).  A list that does not fit its byte is an error of `endbgpcaps`, and so is a capability;
hence the byte written is the length, and the reader, which trusts it, neither skips nor reads behind (`PlaceIs`, `BytesAre`).  Of messages from elsewhere, with several
parameters, `CapsAreInOrder` is only model-checked: their bytes are a flattened list of lists, which is recursive over data.

Assumptions: `PacketsAssumption` (packets have the shape of the model and NEXT_HOP
holds one address), `NestedAssumption` (nested packets are packets), `MaxThreadsAssumption`,
`TerminateAssumption` (the terminate request is not a job),
`ProgramsAssumption` (no program ends with a NOT that the word before predicts: section 5),
`BytesAssumption`, `BufAssumption` (the buffer holds more than two lists), `CapsAssumption` (a client's capability has its header and the length it says),
`JunkAssumption`, `StackAssumption`, `MessagesAssumption`, `StreamAssumption`, `RecordsAssumption` (peers have a size, entries a number, a cut peer is there in part),
`ItemsAssumption` (what a client writes is not a length), `SizesAssumption`, `DataAssumption`, `BodiesAssumption`,
`TrieAssumption` (a page has a node, a prefix is no longer than an address, the count can tell 0 from 1).

Only model-checked: the refinement of `FieldCursor`; the three liveness properties, which are out of
TLAPS's reach; `CapsAreInOrder` of messages from elsewhere; of `WalksAreRight` the coverage, which is a sum
of powers of two over a list, and the walks with the wrong pop, which are right where they never pop; all properties of `BgpAsPath`, `BgpFromMrt` and `JsonText`;
and of `FilterVm` `AccessIsCoherent` and `ResultIsMeaning`, which hold of the programs a compiler emits and not of all.  What `JsonText` reads is
recursive over the text, which keeps it out of TLAPS's reach as well.  `CountIsRight` and the other properties that refute the comments on
the walks are checked by the configurations of section 5.

## 8. Plan

1. Done: the reader, the pool, the writer, the trie, OPEN, MRT reading and rebuilding, the filter, the streams, JSON;
   theorems on the reader, the pool, the writer, the trie, OPEN, MRT reading, the machine and the streams.
2. Next proofs: the refinement of `FieldCursor`, the walks of the trie that do not pop.
3. Reading back what was written: the writer's `bgpfinish` composed with the reader.

## 9. Not modelled

* Attribute encoding (`bgpattribs.c`) and capabilities (`bgpparams.c`): each call converts bytes and keeps no state; a unit test
  reaches every case.  Their lengths are modelled where calls combine them.
* `mrt.c`'s writing calls: `setmrtheader` and `setribents` are empty (`mrt.c:437`, `846`).
* The filter's lexer and the line parser (`parse.c`): text, with one token of lookahead.
* `filterdump.c`, `dumppacket.c`, `hexdump.c`: formatting.
* `log.c`: two variables that are set once, and output.
* Addresses, strings, numbers, `u128_t`, byte order, sockets, terminals, C++ wrappers: conversions, arithmetic and system calls
  without state of their own.
