------------------------------ MODULE IoStream ------------------------------
(***************************************************************************)
(* The I/O streams: memory, stdio, Unix descriptors, and the four that     *)
(* compress, zlib, bzip2, xz and LZ4.  A client writes the items 1, 2, 3   *)
(* and so on, closes the stream, opens what it wrote and reads it back; or *)
(* it reads a file it was given.                                           *)
(*                                                                         *)
(* The compressors are external, and modelled by their contract: an item   *)
(* becomes one unit of the file, a stream ends with the unit END, a call   *)
(* consumes its input until there is none or the output is full, and up to *)
(* `latency' items may wait inside the compressor.  So is the device: a    *)
(* write may take a part of what it is given or fail, a read may return    *)
(* less than it was asked for or fail, and close may fail.  One step is    *)
(* one iteration of a loop, with at most one call of the device.           *)
(***************************************************************************)
EXTENDS Integers, Sequences, SequencesExt, FiniteSetsExt

CONSTANTS Writers,    \* kinds of stream the client writes
          Readers,    \* kinds of stream the client reads a given file from
          Files,      \* given files, compressed
          Appended,   \* given files with something behind the end of the stream
          BufSiz,     \* units in the buffer of a stream
          MemSize,    \* units in the memory of a memory stream
          Latencies,  \* items that may wait in a compressor
          MaxItems,   \* bound: items the client writes
          MaxFaults   \* bound: calls of the device that fail

Packers == {"z", "bz2", "xz"}   \* the three with the same loops
Kinds == Packers \cup {"lz4", "fd", "file", "mem"}

END == 0
BAD == -1   \* what does not decompress
JUNK == -2  \* a byte of memory that nobody wrote

ASSUME StreamAssumption ==
    /\ Writers \subseteq Kinds /\ Readers \subseteq Kinds
    /\ BufSiz \in Nat \ {0} /\ MemSize \in Nat /\ Latencies \subseteq Nat
    /\ \A f \in Files \cup Appended : f \in Seq(Nat \cup {BAD})

VARIABLES kind,   \* the stream
          mode,   \* "w", then "closed"; "r", then "over"
          io,     \* its state
          file,   \* the units on the device
          call,   \* the call that is running
          seen    \* what the client saw, and what the device did

vars == <<kind, mode, io, file, call, seen>>

Compresses(k) == k \in Packers \cup {"lz4"}

\* What a stream holds: everything up to its end.
Content(f) ==
    SubSeq(f, 1, Min({i \in DOMAIN f : f[i] \in {END, BAD}} \cup {Len(f) + 1}) - 1)

Opened(lat) == [err |-> 0, buf |-> <<>>, held |-> <<>>, ended |-> FALSE,
                pos |-> 0, latency |-> lat]

Idle == [op |-> "none", src |-> <<>>, want |-> 0]

Init ==
    /\ kind \in Kinds /\ call = Idle
    /\ \E lat \in Latencies : io = Opened(lat)
    /\ \/ kind \in Writers /\ mode = "w" /\ file = <<>>
       \/ /\ kind \in Readers /\ mode = "r"
          /\ file \in IF Compresses(kind) THEN Files \cup Appended
                      ELSE {Content(f) : f \in Files}
    /\ seen = [taken |-> <<>>, given |-> <<>>, short |-> FALSE, result |-> 0,
               faults |-> 0, late |-> FALSE, lied |-> FALSE]

-----------------------------------------------------------------------------
(* The device *)
MayFail == seen.faults < MaxFaults
Room == BufSiz - Len(io.buf)

\* The codes of a failure of the device: xz stores errno, which a short write
\* leaves as it was (0: LZMA_OK) and which may be 1 (EPERM: LZMA_STREAM_END).
Codes(short) ==
    CASE kind = "z" -> {-1}    \* Z_ERRNO
      [] kind = "bz2" -> {-6}  \* BZ_IO_ERROR
      [] kind \in {"xz", "lz4"} -> IF short THEN {0, 5} ELSE {1, 5}
      [] OTHER -> {1}

\* What became of a write of some units: how many were taken, and the code.
Wholly(units) == [n |-> Len(units), code |-> 0]
Failures(units) ==
    {out \in [n : 0..Len(units) - 1, code : Codes(FALSE) \cup Codes(TRUE)] :
        MayFail /\ out.code \in Codes(out.n > 0)}

Lands(units, out) == file' = file \o SubSeq(units, 1, out.n)

\* What was seen, and that a call of the device failed.
Fault(code) ==
    [seen EXCEPT !.faults = @ + 1, !.late = mode = "w" /\ call.op = "finish",
                 !.lied = @ \/ (code \in {0, 1} /\ kind \in {"xz", "lz4"})]
Short(now) == [now EXCEPT !.short = TRUE]

-----------------------------------------------------------------------------
(* Writing *)
\* The n items to be written next.
Batch(n) == [i \in 1..n |-> Len(seen.taken) + i]

\* The compressor: `in' are the units it is given, behind those that wait.
\* It keeps up to io.latency of them and puts the others into the buffer.
Compressed(in) ==
    LET all == io.held \o in
        n == Min({Room, Max({0, Len(all) - io.latency})})
        kept == Min({Len(all) - n, io.latency})
    IN  [buf |-> io.buf \o SubSeq(all, 1, n),
         held |-> SubSeq(all, n + 1, n + kept),
         left |-> SubSeq(all, n + kept + 1, Len(all))]

\* A write that returns: what it left of its input was not taken.
WriteReturns(left, now) ==
    /\ call' = Idle
    /\ seen' = [now EXCEPT !.taken = @ \o SubSeq(call.src, 1, Len(call.src) - Len(left)),
                           !.short = @ \/ left # <<>>]

Write(n) ==
    /\ mode = "w" /\ call.op = "none" /\ n \in 1..MaxItems - Len(seen.taken)
    /\ kind \in Packers
    /\ IF io.err # 0
       THEN seen' = Short(seen) /\ UNCHANGED call
       ELSE call' = [op |-> "write", src |-> Batch(n), want |-> 0] /\ UNCHANGED seen
    /\ UNCHANGED <<kind, mode, io, file>>

\* The part of the input of the running call that was not consumed yet is
\* call.src; what was is in seen.taken.
WriteFlush ==
    /\ call.op = "write" /\ Room = 0
    /\ \/ /\ io' = [io EXCEPT !.buf = <<>>] /\ Lands(io.buf, Wholly(io.buf))
          /\ UNCHANGED <<call, seen>>
       \/ \E out \in Failures(io.buf) :
             /\ Lands(io.buf, out) /\ io' = [io EXCEPT !.err = out.code]
             /\ WriteReturns(call.src, Fault(out.code))
    /\ UNCHANGED <<kind, mode>>

WriteCompress ==
    /\ call.op = "write" /\ Room > 0
    /\ LET c == Compressed(call.src) IN
       /\ io' = [io EXCEPT !.buf = c.buf, !.held = c.held]
       /\ IF c.left = <<>> THEN WriteReturns(<<>>, seen)
          ELSE /\ call' = [call EXCEPT !.src = c.left]
               /\ seen' = [seen EXCEPT !.taken =
                               @ \o SubSeq(call.src, 1, Len(call.src) - Len(c.left))]
    /\ UNCHANGED <<kind, mode, file>>

\* io_fdwrite, io_fwrite: one call of the device, whatever the error was.
WriteDirect(n) ==
    /\ mode = "w" /\ call.op = "none" /\ n \in 1..MaxItems - Len(seen.taken)
    /\ kind \in {"fd", "file"}
    /\ \E out \in {Wholly(Batch(n))} \cup Failures(Batch(n)) :
          /\ Lands(Batch(n), out)
          /\ io' = [io EXCEPT !.err = IF out.n = n THEN @
                                      ELSE IF kind = "fd" /\ out.n > 0 THEN @ ELSE 1]
          /\ seen' = [(IF out.n < n THEN Short(Fault(out.code)) ELSE seen) EXCEPT
                          !.taken = @ \o Batch(out.n)]
    /\ UNCHANGED <<kind, mode, call>>

\* io_mwrite: up to the end of the memory, with no error when it is reached.
WriteMemory(n) ==
    /\ call.op = "none" /\ kind = "mem" /\ mode \in {"w", "r"}
    /\ n \in 1..MaxItems - Len(seen.taken)
    /\ IF mode = "w" /\ io.err = 0
       THEN LET m == Min({n, MemSize - Len(file)}) IN
            /\ file' = file \o Batch(m) /\ UNCHANGED io
            /\ seen' = [seen EXCEPT !.taken = @ \o Batch(m), !.short = @ \/ m < n]
       ELSE /\ io' = [io EXCEPT !.err = 1]    \* IO_MEM_ERRBIT
            /\ seen' = Short(seen) /\ UNCHANGED file
    /\ UNCHANGED <<kind, mode, call>>

\* io_lz4write: items gather in the buffer.  When it is full they are to be
\* compressed into the room already used of the other buffer, where they never
\* fit: the code is 1, which is none of LZ4's and does not stop later calls.
WriteLz4(n) ==
    /\ mode = "w" /\ call.op = "none" /\ kind = "lz4"
    /\ n \in 1..MaxItems - Len(seen.taken)
    /\ LET m == Min({n, BufSiz - Len(io.held)}) IN
       /\ io' = [io EXCEPT !.held = @ \o Batch(m), !.err = IF m < n THEN 1 ELSE @]
       /\ seen' = [seen EXCEPT !.taken = @ \o Batch(m), !.short = @ \/ m < n]
    /\ UNCHANGED <<kind, mode, file, call>>

-----------------------------------------------------------------------------
(* Closing *)
Closes(res, now) ==
    /\ call' = Idle /\ mode' = IF mode = "w" THEN "closed" ELSE "over"
    /\ \/ seen' = [now EXCEPT !.result = res]
       \/ /\ MayFail /\ kind # "mem"    \* close fails
          /\ \E code \in IF kind = "lz4" THEN {-6} ELSE Codes(FALSE) :
                seen' = [now EXCEPT !.result = code, !.faults = seen.faults + 1]
    /\ UNCHANGED kind

\* Closing has something to finish unless an error came first.
Finishes == mode = "w" /\ kind \in Packers /\ io.err = 0

CloseNow ==
    /\ mode \in {"w", "r"} /\ call.op = "none"
    /\ ~Finishes /\ (kind = "lz4" => mode = "r")
    /\ Closes(IF kind \in {"fd", "file"} THEN 0 ELSE io.err, seen)
    /\ UNCHANGED <<io, file>>

Close ==
    /\ call.op = "none" /\ Finishes
    /\ call' = [Idle EXCEPT !.op = "finish"]
    /\ UNCHANGED <<kind, mode, io, file, seen>>

\* One call of the compressor that is to finish: what waits, then END.
Finished ==
    LET all == io.held \o IF io.ended THEN <<>> ELSE <<END>>
        n == Min({Room, Len(all)})
    IN  [io EXCEPT !.buf = @ \o SubSeq(all, 1, n),
                   !.held = SubSeq(io.held, n + 1, Len(io.held)),
                   !.ended = n = Len(all)]

Emptied(state) == [state EXCEPT !.buf = <<>>]

\* io_zclose calls the compressor once, and writes what it got only when that
\* was the end.
FinishZ ==
    /\ call.op = "finish" /\ kind = "z"
    /\ io' = Finished
    /\ IF Finished.ended
       THEN \/ Lands(Finished.buf, Wholly(Finished.buf)) /\ Closes(0, seen)
            \/ \E out \in Failures(Finished.buf) :
                  Lands(Finished.buf, out) /\ Closes(-1, Fault(-1))
       ELSE UNCHANGED file /\ Closes(0, seen)

\* io_bz2finish: a full buffer is written first; a failure of the write behind
\* the compressor stays in a local variable.
FinishBz2 ==
    /\ call.op = "finish" /\ kind = "bz2"
    /\ IF Room = 0
       THEN \/ /\ Lands(io.buf, Wholly(io.buf)) /\ io' = Emptied(io)
               /\ UNCHANGED <<kind, mode, call, seen>>
            \/ \E out \in Failures(io.buf) :
                  Lands(io.buf, out) /\ UNCHANGED io /\ Closes(-6, Fault(-6))
       ELSE \/ /\ Lands(Finished.buf, Wholly(Finished.buf)) /\ io' = Emptied(Finished)
               /\ IF Finished.ended THEN Closes(0, seen)
                  ELSE UNCHANGED <<kind, mode, call, seen>>
            \/ \E out \in Failures(Finished.buf) :
                  /\ Lands(Finished.buf, out) /\ io' = Finished
                  /\ Closes(0, Fault(-6))

\* Variant of FinishXz: one call finishes.
FinishXzOnce ==
    /\ call.op = "finish" /\ kind = "xz"
    /\ io' = Emptied(Finished)
    /\ \/ Lands(Finished.buf, Wholly(Finished.buf)) /\ Closes(0, seen)
       \/ \E out \in Failures(Finished.buf) :
             Lands(Finished.buf, out) /\ Closes(out.code, Fault(out.code))

\* io_xzclose: a failure replaces the code of the compressor by errno, and the
\* loop goes on at LZMA_OK and is content with LZMA_STREAM_END.
FinishXz ==
    /\ call.op = "finish" /\ kind = "xz"
    /\ io' = Emptied(Finished)
    /\ \/ /\ Lands(Finished.buf, Wholly(Finished.buf))
          /\ IF Finished.ended THEN Closes(0, seen)
             ELSE UNCHANGED <<kind, mode, call, seen>>
       \/ \E out \in Failures(Finished.buf) :
             /\ Lands(Finished.buf, out)
             /\ IF out.code = 0 THEN seen' = Fault(0) /\ UNCHANGED <<kind, mode, call>>
                ELSE Closes(IF out.code = 1 THEN 0 ELSE out.code, Fault(out.code))

\* io_lz4finish: the end of the frame, behind nothing of what was gathered.
CloseLz4 ==
    /\ mode = "w" /\ call.op = "none" /\ kind = "lz4"
    /\ \/ Lands(<<END>>, Wholly(<<END>>)) /\ Closes(io.err, seen)
       \/ \E out \in Failures(<<END>>) : Lands(<<END>>, out) /\ Closes(out.code, Fault(out.code))
    /\ UNCHANGED io

\* The client opens what it wrote.
OpenAgain ==
    /\ mode = "closed" /\ mode' = "r"
    /\ io' = Opened(0) /\ seen' = [seen EXCEPT !.short = FALSE]
    /\ UNCHANGED <<kind, file, call>>

-----------------------------------------------------------------------------
(* Reading *)
ReadReturns(now) == call' = Idle /\ seen' = now
Given(units) == [seen EXCEPT !.given = @ \o units]
Behind(n) == SubSeq(file, io.pos + 1, Min({io.pos + n, Len(file)}))

\* Variant of Read: every call begins with an empty buffer.
ReadAnew(n) ==
    /\ mode = "r" /\ call.op = "none" /\ kind \in Packers
    /\ IF io.err # 0 THEN seen' = Short(seen) /\ UNCHANGED <<call, io>>
       ELSE /\ call' = [op |-> "read", src |-> <<>>, want |-> n] /\ UNCHANGED seen
            /\ io' = Emptied(io)
    /\ UNCHANGED <<kind, mode, file>>

Read(n) ==
    /\ mode = "r" /\ call.op = "none" /\ kind \in Packers
    /\ IF io.err # 0 THEN seen' = Short(seen) /\ UNCHANGED call
       ELSE call' = [op |-> "read", src |-> <<>>, want |-> n] /\ UNCHANGED seen
    /\ UNCHANGED <<kind, mode, io, file>>

\* Variant of ReadFill: less than a whole buffer is the end.
ReadFillOrEnd ==
    /\ call.op = "read" /\ io.buf = <<>>
    /\ \E n \in 0..Len(Behind(BufSiz)) :
          /\ io' = [io EXCEPT !.buf = Behind(n), !.pos = @ + n]
          /\ IF n < BufSiz THEN ReadReturns(Short(seen)) ELSE UNCHANGED <<call, seen>>
    /\ UNCHANGED <<kind, mode, file>>

\* The buffer is empty: the device is read; at its end the call returns, with
\* no error, wherever the stream is.
ReadFill ==
    /\ call.op = "read" /\ io.buf = <<>>
    /\ \/ /\ \E n \in 1..Len(Behind(BufSiz)) :
                io' = [io EXCEPT !.buf = Behind(n), !.pos = @ + n]
          /\ UNCHANGED <<call, seen>>
       \/ Behind(1) = <<>> /\ ReadReturns(Short(seen)) /\ UNCHANGED io
       \/ /\ MayFail
          /\ \E code \in Codes(FALSE) :
                /\ io' = [io EXCEPT !.err = code]
                /\ ReadReturns(Short(Fault(code)))
    /\ UNCHANGED <<kind, mode, file>>

\* Variant of BehindEnd: bzip2 repeats that it is at the end.
BehindEndAgain == UNCHANGED <<io, call, seen>>

\* Units behind a stream that has ended: bzip2 refuses to be called, the others
\* repeat that they are at the end, and the loop goes on.
BehindEnd ==
    IF kind = "bz2" THEN io' = [io EXCEPT !.err = -1] /\ ReadReturns(Short(seen))
    ELSE UNCHANGED <<io, call, seen>>

DataError == CASE kind = "z" -> -3 [] kind = "bz2" -> -4 [] OTHER -> 9

ReadDecode ==
    /\ call.op = "read" /\ io.buf # <<>>
    /\ LET items == IF io.ended THEN <<>> ELSE Content(io.buf)
           n     == Min({Len(items), call.want})
           rest  == SubSeq(io.buf, n + 1, Len(io.buf))
           some  == Given(SubSeq(items, 1, n))
       IN  CASE n = call.want -> ReadReturns(some) /\ io' = [io EXCEPT !.buf = rest]
             [] n < call.want /\ rest = <<>> ->
                  /\ call' = [call EXCEPT !.want = @ - n] /\ seen' = some
                  /\ io' = [io EXCEPT !.buf = rest]
             [] n < call.want /\ io.ended -> BehindEnd
             [] n < call.want /\ ~io.ended /\ rest # <<>> /\ rest[1] = END ->
                  /\ io' = [io EXCEPT !.buf = SubSeq(rest, 2, Len(rest)), !.ended = TRUE]
                  /\ IF kind = "bz2" THEN ReadReturns(Short(some))
                     ELSE call' = [call EXCEPT !.want = @ - n] /\ seen' = some
             [] OTHER ->
                  /\ io' = [io EXCEPT !.buf = rest, !.err = DataError]
                  /\ ReadReturns(Short(some))
    /\ UNCHANGED <<kind, mode, file>>

\* io_fdread, io_fread: the descriptor may give less than there is.
ReadDirect(n) ==
    /\ mode = "r" /\ call.op = "none" /\ kind \in {"fd", "file"}
    /\ \/ \E got \in IF kind = "fd" THEN {Behind(k) : k \in 1..n} ELSE {Behind(n)} :
             /\ seen' = [Given(got) EXCEPT !.short = @ \/ Len(got) < n]
             /\ io' = [io EXCEPT !.pos = @ + Len(got)]
       \/ MayFail /\ io' = [io EXCEPT !.err = 1] /\ seen' = Short(Fault(1))
    /\ UNCHANGED <<kind, mode, file, call>>

ReadMemory(n) ==
    /\ call.op = "none" /\ kind = "mem" /\ mode \in {"w", "r"}
    /\ IF mode = "r" /\ io.err = 0
       THEN /\ seen' = [Given(Behind(n)) EXCEPT !.short = @ \/ Len(Behind(n)) < n]
            /\ io' = [io EXCEPT !.pos = @ + Len(Behind(n))]
       ELSE /\ io' = [io EXCEPT !.err = 1]    \* IO_MEM_ERRBIT
            /\ seen' = Short(seen)
    /\ UNCHANGED <<kind, mode, file, call>>

\* io_lz4open: the buffer counts as full when the stream is opened.
Unread == BufSiz - io.pos

\* io_lz4read: when the buffer has been read, its refill asks the device for no bytes and takes that for
\* the end; what the stream does after that is not modelled.
ReadLz4(n) ==
    /\ mode = "r" /\ call.op = "none" /\ kind = "lz4"
    /\ LET m == Min({n, Unread}) IN
       /\ seen' = [Given([i \in 1..m |-> JUNK]) EXCEPT !.short = m < n]
       /\ io' = [io EXCEPT !.pos = @ + m]
       /\ mode' = IF m = Unread THEN "over" ELSE mode
    /\ UNCHANGED <<kind, file, call>>

-----------------------------------------------------------------------------
Step == WriteFlush \/ WriteCompress \/ FinishZ \/ FinishBz2 \/ FinishXz
        \/ ReadFill \/ ReadDecode

Next ==
    \/ \E n \in 1..BufSiz + 1 :
          \/ Write(n) \/ WriteDirect(n) \/ WriteMemory(n) \/ WriteLz4(n)
          \/ Read(n) \/ ReadDirect(n) \/ ReadMemory(n) \/ ReadLz4(n)
    \/ Close \/ CloseNow \/ CloseLz4 \/ OpenAgain
    \/ Step

\* A call that was made goes on running: the device answers.
Spec == Init /\ [][Next]_vars /\ WF_vars(Step)
-----------------------------------------------------------------------------
(* A stream whose writes took everything and whose close returns no error left *)
(* all of it on the device, with its end (io_t.c:46-80 writes, closes and      *)
(* reads back).                                                                *)
EveryCloseMeansWritten ==
    mode = "closed" /\ ~seen.short /\ seen.result = 0 =>
        file = seen.taken \o IF Compresses(kind) THEN <<END>> ELSE <<>>

(* What a close that returns no error may lose in this code: the end of a      *)
(* zlib stream that does not fit into the buffer (io.c:276), a bzip2 stream    *)
(* whose last write fails (io.c:520), an xz stream when errno reads as success *)
(* (io.c:752), and whatever was written to LZ4 (io.c:1071).                     *)
LossIsKnown ==
    \/ kind = "z" /\ ~io.ended
    \/ kind = "bz2" /\ seen.late
    \/ kind = "xz" /\ seen.lied
    \/ kind = "lz4"

(* A close that returns no error loses nothing else, wherever the device fails *)
(* and however the compressor holds back what it is given (io.c:224-294,       *)
(* 453-545, 700-775).                                                          *)
CloseMeansWritten == LossIsKnown \/ EveryCloseMeansWritten

(* What was read is the beginning of what the stream holds, in pieces of any   *)
(* size and with short reads of the device: no item twice, none skipped, none  *)
(* past the end (io.c:55-152, 189-222, 416-451, 668-698).                      *)
ReadsInOrder == kind # "lz4" => IsPrefix(seen.given, Content(file))

(* A read that returns less than it was asked for, with no error, is the end   *)
(* of the stream.  A descriptor answers with less whenever it likes            *)
(* (io.c:134), and a file that is cut ends like a whole one (io.c:206).        *)
EndIsTheEnd ==
    /\ mode = "r" /\ call.op = "none" /\ seen.short /\ io.err = 0
    /\ kind \notin {"fd", "lz4"} /\ (Compresses(kind) => END \in Range(file))
    => seen.given = Content(file)

(* The read that this code never ends: zlib and xz say again and again that    *)
(* they are at the end, and the loop waits for the output to be filled, once   *)
(* all of the stream was given and the file goes on behind it (io.c:199-221,   *)
(* 677-697).                                                                   *)
TurnsForever ==
    /\ kind \in {"z", "xz"} /\ call.op = "read" /\ seen.given = Content(file)
    /\ END \in Range(SubSeq(file, 1, Len(file) - 1))

(* Every other call returns, in every loop of the three compressed streams,    *)
(* whatever the device and the file do, bzip2 also when the file goes on       *)
(* behind the end of the stream (io.c:198-255, 425-527, 677-770).              *)
CallsReturn == call.op # "none" ~> call.op = "none" \/ TurnsForever

(* Does not hold: zlib and xz files with something behind the end.             *)
EveryCallReturns == call.op # "none" ~> call.op = "none"
=============================================================================
