---------------------------- MODULE DeviceClock ----------------------------
(***************************************************************************)
(* The Sega CD's devices on the sub clock: segacd_advance_io runs PCM, CD  *)
(* audio, the CDC's decoder pulse, the stamp (graphics) unit, the DMA      *)
(* engine, the drive and the interval timer over a span of clocks, and the *)
(* coordinator asks for the next instant at which a processor could see a  *)
(* change (event_time) so that it may run whole spans at once.             *)
(***************************************************************************)
EXTENDS Cdc, CdDrive, Cdda

CONSTANTS
  PcmPeriod,    \* 384 clocks per PCM sample
  DmaPeriod,    \* 6 clocks per DMA word
  TimerDivisor, \* 384 clocks per timer unit
  Pulse,        \* clocks of the decoder's interrupt pulse
  Discs,        \* what the sectors of the possible discs read as
  Programs,     \* what sub programs do, by name: [packets, faders, reloads, drawings, dma, until]
  Inits,        \* the device states each of them may start in
  Full,         \* the fader field after a reset
  MaxWrites,    \* bound on the accesses of a behaviour
  Spans         \* spans of one advance

VARIABLES
  s,       \* the devices
  disc,    \* the disc in the drive
  program, \* the sub program, in DOMAIN Programs
  writes,  \* accesses so far
  gap      \* ghost: the host clock was stopped

vars == <<s, disc, program, writes, gap>>

NoLog == [pcm |-> <<>>, audio |-> <<>>, memory |-> <<>>]

\* The devices after segacd_reset, apart from the drive.
ResetDevices(drive) ==
  [drive |-> drive, cdda |-> CddaReset(Full), cddaError |-> "OK", cdc |-> Idle,
   dec |-> [enabled |-> 0, clocks |-> 0, irq |-> 0], destination |-> 0,
   dma |-> [active |-> 0, phase |-> 0, last |-> "OK"],
   stamp |-> [busy |-> 0, line |-> 0, lines |-> 0, lineClocks |-> 0, remaining |-> 0],
   mode |-> [m1 |-> 0, ret |-> 1, dmna |-> 0], reload |-> 0, timerAt |-> drive.cycles,
   pending |-> {}, media |-> 0, pcm |-> 0, log |-> NoLog]

-----------------------------------------------------------------------------
\* Sectors.
Decode(d) == IF d.dec.enabled = 1 THEN [d EXCEPT !.dec.clocks = Pulse, !.dec.irq = 1,
                                                 !.log.memory = Append(@, "sector")] ELSE d

DataSector(d, lba, read) ==
  LET e == [d EXCEPT !.cdda = ClearQueue(@)]
      pregap == lba < Toc[TrackAt(lba)].start
  IN IF pregap /\ read \in {"BAD_SYNC", "UNSUPPORTED"} THEN e
     ELSE IF read = "UNSUPPORTED" THEN [e EXCEPT !.media = 2] ELSE Decode(e)

AudioSector(d, lba) ==
  LET c == Play(d.cdda) IN
  IF d.cddaError # "OK" THEN d
  ELSE [d EXCEPT !.cdda = Push(c, lba), !.cddaError = PushResult(c)]

DeliverSector(d, lba, on) ==
  IF d.media # 0 THEN d
  ELSE IF on[lba] = "MISSING" THEN [d EXCEPT !.media = 1]
  ELSE IF Toc[TrackAt(lba)].data = 1 THEN DataSector(d, lba, on[lba]) ELSE AudioSector(d, lba)

-----------------------------------------------------------------------------
\* The devices over a span, in the order of segacd_advance_io.
SubOwns(d) == d.mode.m1 = 0 /\ d.mode.ret = 0

\* PCM plays the samples its RAM holds now: those of the words sent so far.
AdvancePcm(d, n) ==
  LET total == d.pcm + n
      words == Len(SelectSeq(d.log.memory, LAMBDA e : e = "word"))
  IN [d EXCEPT !.pcm = total % PcmPeriod,
               !.log.pcm = @ \o [i \in 1..(total \div PcmPeriod) |->
                                   <<(d.drive.cycles + i * PcmPeriod) - d.pcm, words>>]]

AdvanceAudio(d, n) ==
  LET r == AdvanceTo(d.cdda, n) IN
  IF d.cddaError # "OK" THEN d
  ELSE [d EXCEPT !.cdda = r.st, !.cddaError = AdvanceResult(d.cdda, r),
                 !.log.audio = @ \o [i \in DOMAIN r.out |-> <<d.drive.cycles + r.out[i][1], r.out[i][2]>>]]

AdvanceDecoder(d, n) ==
  IF d.dec.clocks = 0 THEN d
  ELSE IF n >= d.dec.clocks THEN [d EXCEPT !.dec.clocks = 0, !.dec.irq = 0] ELSE [d EXCEPT !.dec.clocks = @ - n]

RECURSIVE Lines(_, _)
Lines(d, n) ==
  LET left == n - d.stamp.remaining
      e == IF d.stamp.lines = 0 THEN d
           ELSE [d EXCEPT !.stamp.line = @ + 1, !.log.memory = Append(@, "line")]
  IN IF left < 0 THEN [d EXCEPT !.stamp.remaining = @ - n]
     ELSE IF e.stamp.line >= e.stamp.lines
          THEN [e EXCEPT !.stamp.busy = 0, !.stamp.remaining = 0, !.pending = @ \cup {1}]
     ELSE Lines([e EXCEPT !.stamp.remaining = e.stamp.lineClocks], left)

AdvanceStamp(d, n) == IF SubOwns(d) /\ d.stamp.busy = 1 THEN Lines(d, n) ELSE d

\* transfer_word, as in CdcTransfer.
Word(d) ==
  LET c == HostRead(HostRead(d.cdc)) IN
  IF d.cdc.active = 0 THEN [d EXCEPT !.dma.active = 0, !.dma.last = "OK"]
  ELSE IF d.cdc.douten = 0 THEN [d EXCEPT !.dma.last = "DISABLED"]
  ELSE IF Len(d.cdc.fifo) < 2 THEN [d EXCEPT !.dma.last = "OK"]
  ELSE IF d.destination = 7 /\ d.mode.m1 = 0 /\ d.mode.ret = 1 THEN [d EXCEPT !.dma.last = "WAIT"]
  ELSE [d EXCEPT !.cdc = c, !.dma.active = IF c.end = 1 THEN 0 ELSE 1, !.dma.last = "OK",
                 !.log.memory = Append(@, "word")]

RECURSIVE Words(_, _)
Words(d, n) ==
  IF n = 0 \/ d.dma.active = 0 THEN d
  ELSE LET e == Word(d) IN IF e.dma.last \in {"OK", "WAIT"} THEN Words(e, n - 1) ELSE e

AdvanceDma(d, n) ==
  LET total == d.dma.phase + n IN Words([d EXCEPT !.dma.phase = total % DmaPeriod], total \div DmaPeriod)

\* A frame of the drive hands over its sector before the mechanism moves.
DriveFrame(d, on) ==
  IF ~FrameDue(d.drive) THEN d
  ELSE [IF Delivers(d.drive) THEN DeliverSector(d, d.drive.lba, on) ELSE d
        EXCEPT !.drive = Frame(@), !.pending = @ \cup {4}]

RECURSIVE AdvanceDrive(_, _, _)
AdvanceDrive(d, until, on) ==
  IF \A at \in Deadlines(d.drive) : at > until THEN [d EXCEPT !.drive.cycles = until]
  ELSE AdvanceDrive(DriveFrame([d EXCEPT !.drive = Due(@, Min(Deadlines(@)))], on), until, on)

\* The next span without an event inside.
Delta(d, left) ==
  Min({left} \cup {at - d.drive.cycles : at \in Deadlines(d.drive)}
      \cup (IF d.dma.active = 1 THEN {DmaPeriod - d.dma.phase} ELSE {})
      \cup (IF d.stamp.busy = 1 /\ SubOwns(d) THEN {d.stamp.remaining} ELSE {}))

Segment(d, n, on) ==
  AdvanceDrive(AdvanceDma(AdvanceStamp(AdvanceDecoder(AdvanceAudio(AdvancePcm(d, n), n), n), n), n),
               d.drive.cycles + n, on)

RECURSIVE Segments(_, _, _)
Segments(d, left, on) ==
  LET e == IF d.drive.status # "PLAY" THEN [d EXCEPT !.cdda = Stop(@)] ELSE d
      n == Delta(e, left)
  IN IF left = 0 THEN d ELSE Segments(Segment(e, n, on), left - n, on)

Period(d) == (d.reload + 1) * TimerDivisor

\* Mutant: the timer restarts at the end of the span instead of its own period.
Timer_Restarts(d) ==
  LET elapsed == d.drive.cycles - d.timerAt IN
  IF d.reload # 0 /\ elapsed >= Period(d)
  THEN [d EXCEPT !.timerAt = d.drive.cycles, !.pending = @ \cup {3}] ELSE d

Timer(d) ==
  LET elapsed == d.drive.cycles - d.timerAt IN
  IF d.reload # 0 /\ elapsed >= Period(d)
  THEN [d EXCEPT !.timerAt = @ + (elapsed \div Period(d)) * Period(d), !.pending = @ \cup {3}] ELSE d

Advance(d, n, on) == Timer(Segments(d, n, on))

-----------------------------------------------------------------------------
\* Mutant: the decoder's pulse may end unseen.
EventClocks_NoDecoder(d) ==
  {d.timerAt + Period(d) - d.drive.cycles : x \in {d.reload} \ {0}}
  \cup {at - d.drive.cycles : at \in Deadlines(d.drive)}
  \cup (IF d.stamp.busy = 1 /\ SubOwns(d) THEN {d.stamp.remaining} ELSE {})
  \cup (IF d.dma.active = 1 THEN {DmaPeriod - d.dma.phase} ELSE {})

\* The coordinator's event_time: clocks until a processor could see a change.
EventClocks(d) ==
  {d.timerAt + Period(d) - d.drive.cycles : x \in {d.reload} \ {0}}
  \cup {at - d.drive.cycles : at \in Deadlines(d.drive)}
  \cup ({d.dec.clocks} \ {0})
  \cup (IF d.stamp.busy = 1 /\ SubOwns(d) THEN {d.stamp.remaining} ELSE {})
  \cup (IF d.dma.active = 1 THEN {DmaPeriod - d.dma.phase} ELSE {})
-----------------------------------------------------------------------------
\* The coordinator stops the machine at a device fault.
Fault(d) ==
  \/ d.drive.fault # 0 \/ d.media # 0 \/ d.cddaError # "OK"
  \/ d.dma.last \in {"BAD_DESTINATION", "ODD_BYTE_COUNT", "UNMAPPED"}

Init ==
  /\ disc \in Discs /\ program \in DOMAIN Programs /\ s \in Inits[program]
  /\ writes = 0 /\ gap = FALSE

\* An access of a processor to a register of the devices.
Access(d) ==
  /\ ~Fault(s) /\ writes < MaxWrites
  /\ s' = d /\ writes' = writes + 1
  /\ UNCHANGED <<disc, program>>

WriteDrive(d) == Access([s EXCEPT !.drive = d])

HostClock(on, dts) == WriteDrive(WriteHock(s.drive, on, dts)) /\ gap' = (gap \/ (s.drive.hock = 1 /\ on = 0))
Command(packet) == WriteDrive(Submit(s.drive, packet)) /\ UNCHANGED gap

\* Register 35 hands the fader its target.
Fade(field, modes) ==
  /\ Access([s EXCEPT !.drive = WriteFader(@), !.cdda = SetFader(@, field, modes),
                      !.cddaError = IF modes = 1 THEN "UNSUPPORTED" ELSE @])
  /\ UNCHANGED gap

SetTimer(v) == Access([s EXCEPT !.reload = v, !.timerAt = s.drive.cycles]) /\ UNCHANGED gap
Acknowledge(level) == level \in s.pending /\ Access([s EXCEPT !.pending = @ \ {level}]) /\ UNCHANGED gap

\* Reading the decoder's last status register ends its pulse.
ReadStatus == Access([s EXCEPT !.dec.clocks = 0, !.dec.irq = 0]) /\ UNCHANGED gap
EnableDecoder(on) ==
  /\ Access([s EXCEPT !.dec = IF on = 1 THEN [@ EXCEPT !.enabled = 1] ELSE [enabled |-> 0, clocks |-> 0, irq |-> 0]])
  /\ UNCHANGED gap

\* A DMA transfer starts, or stops with the data output.
StartDma ==
  /\ s.cdc.douten = 1 /\ s.cdc.active = 0
  /\ Access([s EXCEPT !.cdc = Trigger(@), !.dma.active = 1, !.dma.last = "OK"])
  /\ UNCHANGED gap

StopOutput ==
  /\ Access([s EXCEPT !.cdc = [@ EXCEPT !.douten = 0, !.active = 0, !.fifo = <<>>, !.remaining = 0]])
  /\ UNCHANGED gap

\* Only while the sub processor owns Word RAM; otherwise the write is
\* answered UNMAPPED or WAIT and starts nothing.
Draw(g) ==
  /\ SubOwns(s)
  /\ Access([s EXCEPT !.stamp = [busy |-> 1, line |-> 0, lines |-> g.lines,
                                  lineClocks |-> g.clocks, remaining |-> g.clocks]])
  /\ UNCHANGED gap

\* Word RAM goes to the main processor, and back to the sub processor.
GiveToMain == s.mode.ret = 0 /\ Access([s EXCEPT !.mode = [m1 |-> 0, ret |-> 1, dmna |-> 0]]) /\ UNCHANGED gap
GiveToSub == s.mode.ret = 1 /\ Access([s EXCEPT !.mode = [m1 |-> 0, ret |-> 0, dmna |-> 1]]) /\ UNCHANGED gap

\* The sub processor resets its peripherals.
PeripheralReset ==
  /\ Access([s EXCEPT !.drive = CddReset(@), !.cdda = CddaReset(Full), !.cddaError = "OK", !.cdc = ResetCdc(@),
                      !.dec = [enabled |-> 0, clocks |-> 0, irq |-> 0],
                      !.dma = [active |-> 0, phase |-> 0, last |-> "OK"], !.pcm = 0])
  /\ gap' = FALSE

\* The coordinator lets the devices catch up with the processors.
Run(n) ==
  /\ ~Fault(s) /\ s.drive.cycles + n <= Programs[program].until
  /\ s' = [Advance(s, n, disc) EXCEPT !.log = NoLog]
  /\ UNCHANGED <<disc, program, writes, gap>>

Next ==
  \/ \E on, dts \in {0, 1} : HostClock(on, dts)
  \/ \E packet \in Programs[program].packets : Command(packet)
  \/ \E field \in Programs[program].faders, modes \in {0, 1} : Fade(field, modes)
  \/ \E v \in Programs[program].reloads : SetTimer(v)
  \/ \E g \in Programs[program].drawings : Draw(g)
  \/ Programs[program].dma /\ (StartDma \/ StopOutput \/ GiveToMain \/ GiveToSub \/ ReadStatus)
  \/ Programs[program].dma /\ \E level \in {1, 3, 4} : Acknowledge(level)
  \/ Programs[program].dma /\ \E on \in {0, 1} : EnableDecoder(on)
  \/ PeripheralReset
  \/ \E n \in Spans : Run(n)

Spec == Init /\ [][Next]_vars

-----------------------------------------------------------------------------
\* The devices may be advanced in any pieces: two spans one after the other
\* give the state, the audio samples and the order of memory accesses of one
\* span of their length, and a fault on the way is still there at its end.
\* The coordinator's batches rest on it.
Composable ==
  \A a \in Spans :
    LET t == Advance(s, a, disc)
        u == Advance(s, a + Max(Spans), disc)
    IN ~Fault(s) => IF Fault(t) THEN Fault(u) ELSE Advance(t, Max(Spans), disc) = u

\* What a processor can see of the devices without advancing them.
Visible(d) ==
  <<d.pending, d.dec.irq, d.cdc, d.dma.active, d.stamp.busy, d.stamp.line, d.log.memory, d.media,
    d.drive.status, d.drive.lba, d.drive.rx, d.drive.pending, d.drive.faderAt>>

\* Nothing a processor can see changes before the coordinator's event_time,
\* so that skipping to it loses no interrupt, reply or DMA word.
DeadlinesComplete ==
  \A n \in 1..Min(EventClocks(s) \cup {Max(Spans) + 1}) - 1 :
    ~Fault(s) => Visible(Advance(s, n, disc)) = Visible(s)

\* CD audio never runs dry or overflows while the drive plays: sectors at 75
\* frames a second, rounded up, always meet samples at 44,100 a second,
\* rounded up, however the play was reached.  Only stopping the host clock
\* or a failing read may starve it.
AudioFed == s.cddaError \in {"UNDERFLOW", "OVERFLOW"} => gap \/ s.media # 0

\* Reserving whole spans in the mixer's queue changes nothing a listener or
\* a later call could tell: from every state the drive and the fader reach,
\* for a third of a second and for a whole one, and whether the mixer grants
\* constant runs or only spans, segacd_cdda_advance_owned emits the samples
\* of segacd_cdda_advance_to, with the same stamps, gains, underflow and
\* final state.  The field rises and falls, across the low codes, unity and
\* the gains above it that clip.
OwnedAgrees ==
  \A clocks \in {CddaClock \div 3, CddaClock} :
    LET stepped == AdvanceTo(s.cdda, clocks)
    IN \A grants \in {"constant", "span"} : AdvanceOwned(s.cdda, clocks, grants) = stepped
=============================================================================
