---------------------------- MODULE ReplayWriter ----------------------------
(***************************************************************************)
(* runner/replay_writer.c: the bounded ring between the simulation, which  *)
(* records inputs and checkpoints and must never wait for a disk, and the  *)
(* worker that writes the report.  One producer, one consumer, no lock:    *)
(* write_pos and read_pos are the only words both use.  A byte of the ring *)
(* is named by the command and the offset it belongs to, so a byte that    *)
(* the producer overwrites too early is told apart from the right one.     *)
(***************************************************************************)
EXTENDS Integers, Sequences, SequencesExt

CONSTANTS
  Size,         \* QUEUE_BYTES
  Header,       \* sizeof(Command)
  Payload,      \* sizes of a payload, the oversized included
  MaxCommands   \* bound on accepted commands

ASSUME RingFits == Size \in Nat /\ Header \in 1..(Size - 1) /\ Payload \subseteq Nat

\* LINE and FRAME both add one row; nothing in the runner sends REMOVE.
Op == {"BEGIN", "SNAPSHOT", "LINE", "END"}
Place == 0..(Size - 1)

\* What the callers send: END has no payload, and BEGIN's is never empty.
Sizes(op) == CASE op = "BEGIN" -> Payload \ {0} [] op = "END" -> {0} [] OTHER -> Payload

VARIABLES
  bytes, write_pos, read_pos,  \* the ring
  stop, error,
  head, ppc, cmd, k,           \* producer: enqueue's place, its command, the byte it writes next
  tail, pc, c,                 \* worker: its place and the command it decoded
  dirty, due,                  \* unflushed rows; the 100 ms since the last flush have passed
  open, text, sink, saved, sinkSaved,  \* the report: rows written and flushed, snapshots written and flushed
  sent, done, dropped,         \* history: accepted commands, how many are finished; a call that was refused
  flushed                      \* history: the rows a successful fflush or fclose has covered

producer == <<head, ppc, cmd, k>>
report == <<open, text, sink, saved, sinkSaved, flushed>>
vars == <<bytes, write_pos, read_pos, stop, error, producer, tail, pc, c, dirty, due, report, sent, done, dropped>>

NoCommand == [op |-> "END", size |-> 0]

Init ==
  /\ bytes = [p \in Place |-> <<0, 0>>] /\ write_pos = 0 /\ read_pos = 0
  /\ stop = 0 /\ error = "OK"
  /\ head = 0 /\ ppc = "idle" /\ cmd = NoCommand /\ k = 0
  /\ tail = 0 /\ pc = "poll" /\ c = NoCommand
  /\ dirty = 0 /\ due = 0
  /\ open = 0 /\ text = <<>> /\ sink = 0 /\ saved = 0 /\ sinkSaved = 0
  /\ sent = <<>> /\ done = 0 /\ dropped = 0 /\ flushed = 0

\* fail: the first error stays.
Fail(e) == error' = IF error = "OK" THEN e ELSE error

-----------------------------------------------------------------------------
(* The producer: enqueue and the operations that call it.                  *)

\* Free bytes, one of which is never used.
Room == ((read_pos + Size - head) - 1) % Size

Enqueue(op, n) ==
  /\ ppc = "idle" /\ stop = 0 /\ Len(sent) < MaxCommands
  /\ IF error # "OK" THEN dropped' = 1 /\ UNCHANGED <<cmd, k, ppc, error>>
     ELSE IF Header + n >= Size THEN Fail("INVALID") /\ dropped' = 1 /\ UNCHANGED <<cmd, k, ppc>>
     ELSE IF Header + n > Room THEN Fail("FULL") /\ dropped' = 1 /\ UNCHANGED <<cmd, k, ppc>>
     ELSE cmd' = [op |-> op, size |-> n] /\ k' = 0 /\ ppc' = "put" /\ UNCHANGED <<error, dropped>>
  /\ UNCHANGED <<bytes, write_pos, read_pos, stop, head, tail, pc, c, dirty, due, report, sent, done>>

\* put, a byte at a time, first the header and then the parts.
Put ==
  /\ ppc = "put" /\ k < Header + cmd.size
  /\ bytes' = [bytes EXCEPT ![(head + k) % Size] = <<Len(sent) + 1, k>>] /\ k' = k + 1
  /\ UNCHANGED <<write_pos, read_pos, stop, error, head, ppc, cmd, tail, pc, c, dirty, due, report, sent, done, dropped>>

\* A part that is NULL although it has a size.
PutInvalid ==
  /\ ppc = "put" /\ k = Header /\ cmd.size > 0
  /\ Fail("INVALID") /\ dropped' = 1 /\ ppc' = "idle" /\ k' = 0 /\ cmd' = NoCommand
  /\ UNCHANGED <<bytes, write_pos, read_pos, stop, head, tail, pc, c, dirty, due, report, sent, done>>

Publish ==
  /\ ppc = "put" /\ k = Header + cmd.size
  /\ head' = (head + k) % Size /\ write_pos' = head' /\ sent' = Append(sent, cmd)
  /\ ppc' = "idle" /\ k' = 0 /\ cmd' = NoCommand
  /\ UNCHANGED <<bytes, read_pos, stop, error, tail, pc, c, dirty, due, report, done, dropped>>

\* GenesisReplayWriterDestroy: stop, then wait for the thread.
Destroy ==
  /\ ppc = "idle" /\ stop = 0
  /\ stop' = 1 /\ ppc' = "wait"
  /\ UNCHANGED <<bytes, write_pos, read_pos, error, head, cmd, k, tail, pc, c, dirty, due, report, sent, done, dropped>>

Joined ==
  /\ ppc = "wait" /\ pc = "exit"
  /\ ppc' = "gone"
  /\ UNCHANGED <<bytes, write_pos, read_pos, stop, error, head, cmd, k, tail, pc, c, dirty, due, report, sent, done, dropped>>

-----------------------------------------------------------------------------
(* The worker.                                                             *)

\* The bytes of the command at the tail, as the worker would read them now.
At(off, n) == [i \in 1..n |-> bytes[((tail + off + i) - 1) % Size]]
Whole(id, off, n) == At(off, n) = [i \in 1..n |-> <<id, off + i - 1>>]

\* get of the header; a header that is not the next command's is some other
\* command's, or none at all.
Poll ==
  /\ pc = "poll"
  /\ IF write_pos # tail
     THEN /\ pc' = "run"
          /\ LET id == bytes[tail][1]
             IN  c' = IF id \in 1..Len(sent) /\ Whole(id, 0, Header) THEN sent[id] ELSE [op |-> "BAD", size |-> 0]
     ELSE pc' = "drained" /\ UNCHANGED c
  /\ UNCHANGED <<bytes, write_pos, read_pos, stop, error, producer, tail, dirty, due, report, sent, done, dropped>>

\* Mutant: leaves as soon as it is told to stop.
Drained_NoRecheck ==
  /\ pc = "drained"
  /\ pc' = IF stop = 1 \/ error # "OK" THEN "closing" ELSE "flush"
  /\ UNCHANGED <<bytes, write_pos, read_pos, stop, error, producer, tail, c, dirty, due, report, sent, done, dropped>>

\* Nothing to do: read stop and error first, and write_pos again after them.
Drained ==
  /\ pc = "drained"
  /\ pc' = IF stop = 1 \/ error # "OK" THEN "recheck" ELSE "flush"
  /\ UNCHANGED <<bytes, write_pos, read_pos, stop, error, producer, tail, c, dirty, due, report, sent, done, dropped>>

Recheck ==
  /\ pc = "recheck"
  /\ pc' = IF write_pos = tail THEN "closing" ELSE "poll"
  /\ UNCHANGED <<bytes, write_pos, read_pos, stop, error, producer, tail, c, dirty, due, report, sent, done, dropped>>

\* A row of the report names the bytes it was made of and the part of the
\* state file it refers to (0: none).
Row(n) == [data |-> At(Header, c.size), part |-> n]

\* Both files are fully buffered: any write may push what is in its buffer to
\* the sink, and neither file waits for the other.
Spill ==
  /\ sink' \in {sink, Len(text')}
  /\ sinkSaved' \in {sinkSaved, saved'}
  /\ UNCHANGED flushed

Write ==
  \/ /\ c.op = "BEGIN"
     /\ open' = 1 /\ text' = <<Row(0)>> /\ sink' \in {0, 1} /\ saved' = 0 /\ sinkSaved' = 0 /\ flushed' = 0
  \/ c.op = "SNAPSHOT" /\ text' = Append(text, Row(saved + 1)) /\ saved' = saved + 1 /\ UNCHANGED open /\ Spill
  \/ c.op = "LINE" /\ text' = Append(text, Row(0)) /\ UNCHANGED <<open, saved>> /\ Spill
  \/ /\ c.op = "END"
     /\ open' = 0 /\ sink' = Len(text) /\ sinkSaved' = saved /\ flushed' = sink' /\ UNCHANGED <<text, saved>>

\* A command that fails may have pushed either file's bytes; BEGIN and END
\* close both files whether or not that works.
Fails ==
  /\ open' = IF c.op \in {"BEGIN", "END"} THEN 0 ELSE open
  /\ sink' \in {sink, Len(text)} /\ sinkSaved' \in {sinkSaved, saved}
  /\ UNCHANGED <<text, saved, flushed>>

\* Mutant: gives the payload's bytes back before it uses them.
Run_EarlyRelease(ok) ==
  /\ pc = "run" /\ ok = 1
  /\ IF read_pos = tail
     THEN /\ read_pos' = (tail + Header + c.size) % Size
          /\ UNCHANGED <<pc, error, report>>
     ELSE /\ IF c.op \in {"BEGIN", "END"} \/ (c.op \in Op /\ open = 1)
             THEN Write /\ pc' = "release" /\ UNCHANGED error
             ELSE Fail("IO") /\ pc' = "closing" /\ Fails
          /\ UNCHANGED read_pos
  /\ UNCHANGED <<bytes, write_pos, stop, producer, tail, c, dirty, due, sent, done, dropped>>

\* The command is carried out, or the disk refuses, or the report is not open.
Run(ok) ==
  /\ pc = "run"
  /\ IF ok = 1 /\ (c.op \in {"BEGIN", "END"} \/ (c.op \in Op /\ open = 1))
     THEN Write /\ pc' = "release" /\ UNCHANGED error
     ELSE Fail("IO") /\ pc' = "closing" /\ Fails
  /\ UNCHANGED <<bytes, write_pos, read_pos, stop, producer, tail, c, dirty, due, sent, done, dropped>>

Release ==
  /\ pc = "release"
  /\ tail' = (tail + Header + c.size) % Size /\ read_pos' = tail' /\ dirty' = open
  /\ pc' = "flush" /\ c' = NoCommand /\ done' = done + 1
  /\ UNCHANGED <<bytes, write_pos, stop, error, producer, due, report, sent, dropped>>

\* Mutant: flushes only what a stopping producer left.
Flush_AtStop ==
  /\ pc = "flush"
  /\ IF dirty = 1 /\ due = 1 /\ stop = 1
     THEN pc' = "flushText" /\ sinkSaved' = saved /\ UNCHANGED sink
     ELSE pc' = "poll" /\ UNCHANGED <<sink, sinkSaved>>
  /\ UNCHANGED <<bytes, write_pos, read_pos, stop, error, producer, tail, c, dirty, due, open, text, saved, flushed, sent, done, dropped>>

\* Every 100 ms: fflush(states), then fflush(text).
Flush ==
  /\ pc = "flush"
  /\ IF dirty = 1 /\ due = 1
     THEN pc' = "flushText" /\ sinkSaved' = saved /\ UNCHANGED sink
     ELSE pc' = "poll" /\ UNCHANGED <<sink, sinkSaved>>
  /\ UNCHANGED <<bytes, write_pos, read_pos, stop, error, producer, tail, c, dirty, due, open, text, saved, flushed, sent, done, dropped>>

FlushText ==
  /\ pc = "flushText"
  /\ sink' = Len(text) /\ flushed' = sink' /\ dirty' = 0 /\ due' = 0 /\ pc' = "poll"
  /\ UNCHANGED <<bytes, write_pos, read_pos, stop, error, producer, tail, c, open, text, saved, sinkSaved, sent, done, dropped>>

FlushFails ==
  /\ pc = "flushText" \/ (pc = "flush" /\ dirty = 1 /\ due = 1)
  /\ Fail("IO") /\ pc' = "closing"
  /\ UNCHANGED <<bytes, write_pos, read_pos, stop, producer, tail, c, dirty, due, report, sent, done, dropped>>

\* close_files: both are tried, the states first; a failing fclose is an error.
Close(ok) ==
  /\ pc = "closing"
  /\ pc' = "exit" /\ open' = 0
  /\ IF open = 0 THEN UNCHANGED <<error, sink, sinkSaved, flushed>>
     ELSE IF ok = 1 THEN UNCHANGED error /\ sink' = Len(text) /\ sinkSaved' = saved /\ flushed' = sink'
     ELSE Fail("IO") /\ sink' \in {sink, Len(text)} /\ sinkSaved' \in {sinkSaved, saved} /\ UNCHANGED flushed
  /\ UNCHANGED <<bytes, write_pos, read_pos, stop, producer, tail, c, dirty, due, text, saved, sent, done, dropped>>

Tick ==
  /\ due = 0 /\ due' = 1
  /\ UNCHANGED <<bytes, write_pos, read_pos, stop, error, producer, tail, pc, c, dirty, report, sent, done, dropped>>

-----------------------------------------------------------------------------
Simulation == (\E op \in Op : \E n \in Sizes(op) : Enqueue(op, n)) \/ Put \/ PutInvalid \/ Publish \/ Destroy
Worker ==
  Poll \/ Drained \/ Recheck \/ Release \/ Flush \/ FlushText \/ \E ok \in {0, 1} : Run(ok) \/ Close(ok)
Next == Simulation \/ Joined \/ Worker \/ FlushFails \/ Tick \/ (ppc = "gone" /\ UNCHANGED vars)

\* The worker thread runs and time passes; a call in enqueue returns.  The
\* simulation may hang between two calls for ever.
Spec ==
  /\ Init /\ [][Next]_vars
  /\ WF_vars(Worker) /\ WF_vars(Tick) /\ WF_vars(Put \/ Publish) /\ WF_vars(Joined)

-----------------------------------------------------------------------------
\* The worker works on the accepted commands one after the other, and every
\* byte of a command, across the end of the ring as well, stays as it was put
\* until its I/O has finished.
CommandsIntact ==
  pc \in {"run", "release"} =>
    /\ done < Len(sent) /\ c = sent[done + 1]
    /\ Whole(done + 1, 0, Header + c.size)

\* What is in the files can be relied on.  "Sidecars reach stdio's sink before
\* records that refer to them": a row that a flush has delivered has its state
\* delivered, wherever the process dies (a row that left a full buffer by
\* itself may be ahead of its state until the next flush).  And when Destroy
\* answers without an error every call was accepted, carried out and flushed.
ReportTruthful ==
  /\ \A i \in 1..flushed : text[i].part <= sinkSaved
  /\ ppc = "gone" /\ error = "OK" => dropped = 0 /\ done = Len(sent) /\ sink = Len(text) /\ sinkSaved = saved

\* "A hung simulation still leaves its last queued input in this flush": what
\* was accepted reaches the files although nothing more is sent, unless the
\* recording has failed.
LastInputFlushed ==
  \A n \in 1..MaxCommands :
    (Len(sent) >= n) ~> ((done >= n /\ sink = Len(text) /\ sinkSaved = saved) \/ error # "OK")
=============================================================================
