------------------------------- MODULE Cdda -------------------------------
(***************************************************************************)
(* The Sega CD's CD audio source: a queue of at most two sectors, drained  *)
(* at the sample rate by rational arithmetic on the 12.5 MHz sub clock and *)
(* passed through the fader.  Operators on its state, among them the two   *)
(* ways the code advances it: sample by sample (segacd_cdda_advance_to)    *)
(* and in spans reserved in the mixer's queue (segacd_cdda_advance_owned). *)
(* Clocks are counted from the start of the call, and a sector is known by *)
(* its address.                                                            *)
(***************************************************************************)
EXTENDS Integers, Sequences, FiniteSetsExt

CONSTANTS
  CddaClock,    \* 12,500,000 clocks per second
  CddaRate,     \* 44,100 samples per second
  SectorFrames, \* 588 samples per sector
  FifoSectors,  \* 2 sectors
  Sample        \* the sample at Sample[lba][frame + 1]

STOPPED == 0
PLAYING == 1
PAUSED == 2

\* raw is the fader's encoded field, full its value after a reset.
CddaReset(full) == [transport |-> STOPPED, anchored |-> 0, fifo |-> <<>>, frame |-> 0, phase |-> 0,
                    field |-> full, target |-> full, unsupported |-> 0]

ClearQueue(c) == [c EXCEPT !.fifo = <<>>, !.frame = 0, !.anchored = 0]

Play(c) == IF c.transport = PLAYING THEN c ELSE [ClearQueue(c) EXCEPT !.transport = PLAYING]
Pause(c) == [ClearQueue(c) EXCEPT !.transport = PAUSED]
Stop(c) == [ClearQueue(c) EXCEPT !.transport = STOPPED]

\* De-emphasis and double speed are refused for good.
SetFader(c, field, modes) ==
  IF modes = 1 THEN [c EXCEPT !.unsupported = 1] ELSE [c EXCEPT !.target = field]

PushResult(c) ==
  IF c.unsupported = 1 THEN "UNSUPPORTED" ELSE IF c.transport # PLAYING THEN "NOT_PLAYING"
  ELSE IF Len(c.fifo) = FifoSectors THEN "OVERFLOW" ELSE "OK"

Push(c, lba) ==
  IF PushResult(c) # "OK" THEN c
  ELSE [c EXCEPT !.phase = IF c.anchored = 0 THEN 0 ELSE @, !.anchored = 1, !.fifo = Append(@, lba)]

-----------------------------------------------------------------------------
\* The fader: a gain of numerator / 2^shift, rounded half away from zero.
Numerator(field) == IF field < 4 THEN field ELSE field \div 4
Shift(field) == IF field < 4 THEN 10 ELSE 8

Clip(x) == IF x > 32767 THEN 32767 ELSE IF x < -32768 THEN -32768 ELSE x

FaderScale(x, field) ==
  LET half == 2^Shift(field) \div 2
      product == x * Numerator(field)
  IN Clip(IF product < 0 THEN -((half - product) \div 2^Shift(field)) ELSE (product + half) \div 2^Shift(field))

OwnedScale(x, field) ==
  IF Numerator(field) = 0 THEN 0 ELSE IF Numerator(field) = 2^Shift(field) THEN x
  ELSE FaderScale(x, field)

\* The field after n samples of its ramp.
Ramp(field, target, n) == IF field < target THEN Min({field + n, target}) ELSE Max({field - n, target})

-----------------------------------------------------------------------------
Ceil(a, b) == ((a + b) - 1) \div b

Data(c) == c.transport = PLAYING /\ c.anchored = 1

\* The queue after n of its samples.
Consume(c, n) ==
  [c EXCEPT !.frame = (c.frame + n) % SectorFrames,
            !.fifo = SubSeq(@, 1 + ((c.frame + n) \div SectorFrames), Len(@))]

Input(c, i) == Sample[c.fifo[1 + ((c.frame + i) \div SectorFrames)]][1 + ((c.frame + i) % SectorFrames)]

\* A sample falls due: r is the call's result so far, at its clock.
EmitTick(r, at) ==
  LET c == r.st
      t == [r EXCEPT !.ticks = @ + 1]
      x == IF Data(c) THEN Input(c, 0) ELSE 0
      d == IF Data(c) THEN Consume(c, 1) ELSE c
  IN IF Data(c) /\ c.fifo = <<>> THEN [t EXCEPT !.dry = @ + 1]
     ELSE [t EXCEPT !.out = Append(@, <<at, FaderScale(x, c.field)>>), !.silence = @ + IF Data(c) THEN 0 ELSE 1,
                    !.st = [d EXCEPT !.field = Ramp(c.field, c.target, 1)]]

RECURSIVE Drain(_, _, _)
Drain(r, at, until) ==
  LET need == Ceil(CddaClock - r.st.phase, CddaRate) IN
  IF at = until THEN r
  ELSE IF need > until - at THEN [r EXCEPT !.st.phase = @ + (until - at) * CddaRate]
  ELSE Drain(EmitTick([r EXCEPT !.st.phase = (@ + need * CddaRate) - CddaClock], at + need), at + need, until)

Nothing(c) == [st |-> c, out |-> <<>>, ticks |-> 0, dry |-> 0, silence |-> 0]

\* segacd_cdda_advance_to over the next clocks.
AdvanceTo(c, clocks) == IF c.unsupported = 1 THEN Nothing(c) ELSE Drain(Nothing(c), 0, clocks)

AdvanceResult(c, r) == IF c.unsupported = 1 THEN "UNSUPPORTED" ELSE IF r.dry > 0 THEN "UNDERFLOW" ELSE "OK"

-----------------------------------------------------------------------------
\* Mutant: a plateau of a rising field is one sample too long.
Plateau_Long(c) == IF c.field < 4 THEN 1 ELSE IF c.field < c.target THEN 5 - (c.field % 4) ELSE (c.field % 4) + 1

\* One run of equal gain of the span loop: at most a sector's rest and, when
\* the field moves, the samples that share its multiplier.
Plateau(c) == IF c.field < 4 THEN 1 ELSE IF c.field < c.target THEN 4 - (c.field % 4) ELSE (c.field % 4) + 1

Distance(c) == IF c.field < c.target THEN c.target - c.field ELSE c.field - c.target

ChunkLength(c, left) ==
  LET rest == Min({left, SectorFrames - c.frame}) IN
  IF ~Data(c) THEN left
  ELSE IF c.field # c.target /\ Distance(c) >= Plateau(c) THEN Min({rest, Plateau(c)}) ELSE rest

\* Stamps follow by the recurrence on the phase that replaces the division.
RECURSIVE Stamps(_, _, _)
Stamps(at, phase, n) ==
  LET rest == CddaClock % CddaRate
      step == (CddaClock \div CddaRate) + IF phase < rest THEN 1 ELSE 0
      next == IF phase < rest THEN phase + (CddaRate - rest) ELSE phase - rest
  IN IF n = 0 THEN <<>> ELSE <<at>> \o Stamps(at + step, next, n - 1)

RECURSIVE SpanValues(_, _)
SpanValues(c, left) ==
  LET count == ChunkLength(c, left)
      next == IF Data(c) THEN Consume(c, count) ELSE c
  IN IF left = 0 THEN [st |-> c, values |-> <<>>]
     ELSE LET r == SpanValues([next EXCEPT !.field = Ramp(c.field, c.target, count)], left - count)
          IN [r EXCEPT !.values = [i \in 1..count |->
                                     IF Data(c) THEN OwnedScale(Input(c, i - 1), c.field) ELSE 0] \o @]

\* A span whose samples are all equal is reserved as one constant run.
ConstantSpan(c, count) ==
  \/ ~Data(c) \/ (c.field = 0 /\ c.target = 0)
  \/ /\ c.field = c.target \/ Input(c, 0) = 0
     /\ \A i \in 1..(count - 1) : Input(c, i) = Input(c, 0)

\* segacd_cdda_advance_owned, where grants is what the sink is ready to
\* reserve: "constant" runs and spans, "span" alone, or "none".
AdvanceOwned(c, clocks, grants) ==
  LET total == c.phase + clocks * CddaRate
      ticks == total \div CddaClock
      available == IF c.fifo = <<>> THEN 0 ELSE Len(c.fifo) * SectorFrames - c.frame
      count == IF Data(c) /\ ticks > available THEN available ELSE ticks
      first == Ceil(CddaClock - c.phase, CddaRate)
      firstPhase == (c.phase + first * CddaRate) - CddaClock
      constant == grants = "constant" /\ ConstantSpan(c, count)
      value == IF Data(c) /\ ~(c.field = 0 /\ c.target = 0) THEN OwnedScale(Input(c, 0), c.field) ELSE 0
      run == [i \in 1..count |->
                <<first + (((CddaRate - 1) - firstPhase) + (i - 1) * CddaClock) \div CddaRate, value>>]
      drained == IF Data(c) THEN Consume(c, count) ELSE c
      span == SpanValues(c, count)
      stamps == Stamps(first, firstPhase, count)
      end == IF constant THEN [drained EXCEPT !.field = Ramp(c.field, c.target, count)] ELSE span.st
  IN IF c.unsupported = 1 \/ count = 0 \/ grants = "none" THEN AdvanceTo(c, clocks)
     ELSE [st |-> [end EXCEPT !.phase = total % CddaClock],
           out |-> IF constant THEN run ELSE [i \in 1..count |-> <<stamps[i], span.values[i]>>],
           ticks |-> ticks, dry |-> ticks - count, silence |-> IF Data(c) THEN 0 ELSE ticks]
=============================================================================
