------------------------------ MODULE CdDrive ------------------------------
(***************************************************************************)
(* The Sega CD's drive (CDD): commands that take effect at a deadline, a   *)
(* mechanism that moves at 75 frames a second, seeks, scans and skips.     *)
(* Operators on its state; times are absolute sub clocks and a deadline of *)
(* 0 is none.  The geometry of a skip (turns to sectors) is reduced to a   *)
(* fixed number of sectors per turn, and the digits of a packet and of its *)
(* reply to the numbers they stand for.                                    *)
(***************************************************************************)
EXTENDS Integers, Sequences, FiniteSetsExt

CONSTANTS
  Clock,         \* 12,500,000 clocks per second
  FrameRate,     \* 75 frames per second
  CommandDelay,  \* CLOCK / 10000: from a packet to its execution
  SeekBase,      \* CLOCK / 10: the shortest seek
  SeekRate,      \* 75000 sectors per second of the rest of a seek
  SkipRate,      \* 10000 turns per second of a skip
  Turn,          \* sectors per turn of a skip
  ScanStep,      \* 10 sectors per frame of a scan
  Preroll,       \* 3 sectors before a seek's target
  Toc,           \* tracks: [index00, start, data]
  Leadout        \* the first sector after the last track

Drive(st) ==
  [status |-> st, lba |-> 0, motor |-> 0, tray |-> 0, scan |-> 0, hock |-> 0, fault |-> 0,
   commandAt |-> 0, pending |-> <<>>, seekAt |-> 0, seekTo |-> 0, after |-> "STOP",
   skipAt |-> 0, skip |-> <<>>, faderAt |-> 0, origin |-> 0, frames |-> 0,
   report |-> 0, valid |-> 0, rx |-> <<st, 0, 0>>, cycles |-> 0]

TrackAt(lba) == Max({1} \cup {n \in 2..Len(Toc) : lba >= Toc[n].index00})

Loaded(d) == d.tray = 0 /\ Len(Toc) > 0

\* A reply is latched; mechanical motion later does not change it.
ReplyAs(d, st) == [d EXCEPT !.rx = <<st, d.report, IF d.valid = 1 /\ Loaded(d) THEN d.lba ELSE 0>>]
Reply(d) == ReplyAs(d, d.status)

CddReset(d) == Reply([Drive("STOP") EXCEPT !.cycles = d.cycles])

CancelSkip(d) == [d EXCEPT !.skipAt = 0, !.skip = <<>>]
Still(d, st) == [CancelSkip(d) EXCEPT !.status = st, !.scan = 0, !.seekAt = 0]

-----------------------------------------------------------------------------
CeilDiv(a, b) == ((a + b) - 1) \div b

Bounded(lba) == Max({Toc[1].index00, Min({lba, Leadout - 1})})

\* The address a skip reaches after n of its turns.
Skipped(k, n) == Bounded(IF k.inward = 1 THEN k.from - n * Turn ELSE k.from + n * Turn)

SkipDeadline(k) == k.origin + CeilDiv((k.step + 1) * Clock, SkipRate)

StepSkip(d) ==
  LET k == [d.skip EXCEPT !.step = @ + 1]
      lba == Skipped(k, k.step)
      target == Skipped(k, k.count)
  IN IF k.step >= k.count \/ lba = target THEN [CancelSkip(d) EXCEPT !.lba = target, !.status = "PAUSE"]
     ELSE [d EXCEPT !.lba = lba, !.skip = k, !.skipAt = SkipDeadline(k)]

-----------------------------------------------------------------------------
\* Commands.  A packet is [form, command, arg, inward]; a form other than
\* "OK" is the answer to a bad checksum or a malformed packet.
Seek(d, command, to) ==
  LET target == Max({to - Preroll, Toc[1].index00})
      distance == IF target > d.lba THEN target - d.lba ELSE d.lba - target
  IN IF to >= Leadout THEN ReplyAs(d, "ERROR")
     ELSE Reply([Still(d, "SEEK") EXCEPT !.seekTo = target, !.after = IF command = 3 THEN "PLAY" ELSE "PAUSE",
                   !.seekAt = d.cycles + SeekBase + (distance * Clock) \div SeekRate, !.report = 2, !.valid = 1])

Skip(d, count, inward) ==
  LET k == [inward |-> inward, from |-> d.lba, count |-> count, step |-> 0, origin |-> d.cycles]
      e == [Still(d, "PAUSE") EXCEPT !.report = IF @ \in {4, 5} THEN 0 ELSE @]
  IN IF d.status \notin {"PLAY", "PAUSE", "LEADOUT"} THEN ReplyAs(d, "ERROR")
     ELSE IF count = 0 THEN Reply(e)
     ELSE IF Skipped(k, count) = d.lba THEN Reply(e)
     ELSE Reply([e EXCEPT !.skip = k, !.skipAt = SkipDeadline(k), !.status = "TRACKING"])

Execute(d) ==
  LET p == d.pending IN
  IF p.form # "OK" THEN ReplyAs(d, p.form)
  ELSE IF p.command = 0 THEN Reply(d)
  ELSE IF p.command = 12
       THEN Reply([CancelSkip(d) EXCEPT !.tray = 0, !.motor = 1, !.status = IF Len(Toc) > 0 THEN "STOP" ELSE "NO_DISC"])
  ELSE IF p.command = 13 THEN Reply([Still(d, "OPEN") EXCEPT !.tray = 1, !.motor = 0])
  ELSE IF ~Loaded(d) THEN Reply(IF d.tray = 1 THEN d ELSE [d EXCEPT !.status = "NO_DISC"])
  ELSE CASE p.command = 1 -> Reply([Still(d, "STOP") EXCEPT !.motor = 1, !.report = 0, !.valid = 0])
         [] p.command = 2 ->
              IF p.arg > 5 THEN ReplyAs(d, "ERROR")
              ELSE LET start == p.arg = 4 /\ d.status = "STOP"
                   IN Reply([d EXCEPT !.motor = IF start THEN 1 ELSE @, !.status = IF start THEN "READ_TOC" ELSE @,
                                      !.report = p.arg, !.valid = 1])
         [] p.command \in {3, 4} -> Seek(d, p.command, p.arg)
         [] p.command = 6 -> Reply(Still(d, "PAUSE"))
         [] p.command = 7 -> Reply([Still(d, "PLAY") EXCEPT !.report = 2, !.valid = 1])
         [] p.command \in {8, 9} ->
              Reply([Still(d, "SCAN") EXCEPT !.scan = IF p.command = 8 THEN ScanStep ELSE -ScanStep])
         [] p.command = 10 -> Skip(d, p.arg, p.inward)
         [] OTHER -> ReplyAs([d EXCEPT !.fault = p.command], "ERROR")

-----------------------------------------------------------------------------
\* Register 37 turns the host clock (HOCK) on and off and withdraws (DTS) a
\* waiting packet; register 4B submits a packet, which waits for
\* CommandDelay and replaces one still waiting.
WriteHock(d, on, dts) ==
  LET e == IF (d.hock = 1 /\ on = 0) \/ dts = 1 THEN [d EXCEPT !.commandAt = 0, !.pending = <<>>] ELSE d
  IN IF d.hock = 0 /\ on = 1 THEN [e EXCEPT !.hock = 1, !.origin = d.cycles, !.frames = 1] ELSE [e EXCEPT !.hock = on]

Submit(d, packet) ==
  IF d.hock = 1 THEN [d EXCEPT !.pending = packet, !.commandAt = d.cycles + CommandDelay] ELSE d

WriteFader(d) == [d EXCEPT !.faderAt = d.cycles + CommandDelay]

\* Mutant: every frame is rounded up by itself.
FrameTime_Drifts(d) == d.origin + d.frames * CeilDiv(Clock, FrameRate)

\* Frame n of the host clock, rounded up from its exact time.
FrameTime(d) ==
  d.origin + (d.frames \div FrameRate) * Clock + CeilDiv((d.frames % FrameRate) * Clock, FrameRate)

Deadlines(d) ==
  ({d.commandAt, d.seekAt, d.skipAt, d.faderAt} \ {0}) \cup (IF d.hock = 1 THEN {FrameTime(d)} ELSE {})

\* A frame moves the mechanism.  A sector is delivered in PLAY before the lead-out.
Delivers(d) == d.status = "PLAY" /\ d.lba < Leadout

Frame(d) ==
  LET e == [d EXCEPT !.frames = @ + 1] IN
  CASE d.status = "STOP" /\ d.motor = 1 -> [e EXCEPT !.status = IF Loaded(d) THEN "READ_TOC" ELSE "NO_DISC", !.lba = 0]
    [] d.status = "READ_TOC" -> [e EXCEPT !.status = "PAUSE", !.lba = 0]
    [] d.status = "PLAY" -> IF Delivers(d) THEN [e EXCEPT !.lba = @ + 1] ELSE [e EXCEPT !.status = "LEADOUT"]
    [] d.status = "SCAN" ->
         IF d.lba + d.scan >= Leadout THEN [e EXCEPT !.lba = Leadout, !.status = "LEADOUT"]
         ELSE [e EXCEPT !.lba = Max({0, @ + d.scan})]
    [] OTHER -> e

\* What falls due at one instant, in the order of segacd_cdd_advance: the
\* command, the seek, the skip, the fader transfer; then the frame.
CommandDue(d) == IF d.commandAt # d.cycles THEN d ELSE [Execute([d EXCEPT !.commandAt = 0]) EXCEPT !.pending = <<>>]
SeekDue(d) ==
  IF d.seekAt # d.cycles THEN d ELSE [d EXCEPT !.seekAt = 0, !.lba = d.seekTo, !.status = d.after]
SkipDue(d) == IF d.skipAt # d.cycles THEN d ELSE StepSkip(d)
FaderDue(d) == IF d.faderAt # d.cycles THEN d ELSE [d EXCEPT !.faderAt = 0]
Due(d, at) == FaderDue(SkipDue(SeekDue(CommandDue([d EXCEPT !.cycles = at]))))

FrameDue(d) == d.hock = 1 /\ FrameTime(d) = d.cycles
=============================================================================
