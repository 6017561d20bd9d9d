---------------------------- MODULE Coordinator ----------------------------
(***************************************************************************)
(* The Sega CD coordinator: two processors with clocks of their own, the   *)
(* devices and the host's raster behind them, and a third master (the Z80) *)
(* whose clock bounds the devices.  Two coordinators run the same          *)
(* programs: one has effect metadata and retires register instructions in  *)
(* batches (run_register_region_validated), the other steps.               *)
(*                                                                         *)
(* A program is a sequence of instructions [kind, cost]; the last one is   *)
(* its interrupt handler.  Clocks are scaled: Numer / Denom is the ratio   *)
(* of the sub clock to the main clock, Poll the interval at which          *)
(* unqualified waits look at the devices, TimerPeriod and LinePeriod the   *)
(* devices' and the raster's events, IrqCost the cost of an exception.     *)
(***************************************************************************)
EXTENDS Integers, Sequences, FiniteSetsExt, Functions

CONSTANTS Programs, Numer, Denom, Poll, TimerPeriod, LinePeriod, IrqCost,
  WaitLimit,  \* steps of the owner before a WAIT is given up
  FaultTimes, \* when a device may fault (0: never)
  Masters,    \* whether the third master bounds the devices (the Z80 runs)
  Slices,     \* clocks from one call to the next
  MaxClock    \* bound on the deadlines

VARIABLES
  prog,   \* what each processor runs
  exact,  \* the coordinator that steps
  fast,   \* the coordinator that batches
  open    \* the last call published the devices' clock

vars == <<prog, exact, fast, open>>

CPUs == {"M", "S"}
Other(w) == IF w = "M" THEN "S" ELSE "M"
Never == 1000 * MaxClock  \* UINT64_MAX

-----------------------------------------------------------------------------
\* A coordinator and its devices.
Coordinator(qualified, fault, third) ==
  [time |-> [w \in CPUs |-> 0], rem |-> 0, dev |-> 0, goal |-> 0, third |-> third,
   timer |-> 0, line |-> LinePeriod, fault |-> fault,
   mainIrq |-> 0, pending |-> 0, owner |-> "M", run |-> 0, was |-> 0, reset |-> 1,
   cpu |-> [w \in CPUs |-> [pc |-> 1, mask |-> 0, ret |-> 1, stopped |-> 0, pins |-> 0]],
   busy |-> [w \in CPUs |-> 0], qualified |-> qualified, event |-> -1,
   result |-> "OK", waitResult |-> "OK", log |-> <<>>]

Fault(c) == c.fault > 0 /\ c.dev >= c.fault
Result(c, r) == [c EXCEPT !.result = r]

MinClock(c) == IF c.run = 1 /\ c.time["S"] < c.time["M"] THEN c.time["S"] ELSE c.time["M"]
Chosen(c) == IF c.run = 1 /\ c.time["S"] < c.time["M"] THEN "S" ELSE "M"

\* The first multiple of the period after now, counted from an event at t.
Following(t, period, now) == t + ((now - t) \div period + 1) * period

\* segacd_advance_io and host_advance up to a clock.
Publish(c, now) ==
  LET d == IF now > c.dev THEN now ELSE c.dev
      timed == c.timer > 0 /\ c.timer <= d
      lined == c.line <= d
  IN [c EXCEPT !.dev = d,
               !.pending = IF timed THEN 1 ELSE @, !.timer = IF timed THEN Following(c.timer, TimerPeriod, d) ELSE @,
               !.mainIrq = IF lined THEN 1 ELSE @, !.line = IF lined THEN Following(c.line, LinePeriod, d) ELSE @]

Service(c, coalesce) ==
  LET now == MinClock(c)
      d == [c EXCEPT !.event = -1]
  IN IF coalesce /\ now <= c.dev /\ c.line > c.dev THEN d
     ELSE Publish(d, IF c.third /\ now > c.goal THEN c.goal ELSE now)

EventTime(c, deadline, qualified) ==
  Min({deadline} \cup {t \in {IF qualified THEN Never ELSE c.dev + Poll, c.timer, c.line, c.fault} : t > c.dev})

\* The main clock is scaled and keeps the fraction.
Account(c, w, cycles) ==
  IF w = "S" THEN [c EXCEPT !.time["S"] = @ + cycles]
  ELSE LET scaled == cycles * Numer + c.rem
       IN [c EXCEPT !.time["M"] = @ + scaled \div Denom, !.rem = scaled % Denom]

CatchUp(c, w) == [c EXCEPT !.time[w] = IF @ < c.time[Other(w)] THEN c.time[Other(w)] ELSE @]

-----------------------------------------------------------------------------
Op(c, w) == prog[w][c.cpu[w].pc]
Handler(w) == Len(prog[w])
Level(c, w) == IF w = "M" THEN c.mainIrq ELSE c.pending
Following1(w, pc) == IF pc >= Handler(w) - 1 THEN 1 ELSE pc + 1
Logged(c, w, what) == [c EXCEPT !.log = Append(@, [cpu |-> w, op |-> what, at |-> c.time[w], dev |-> c.dev])]

\* An accepted interrupt enters the handler and is acknowledged.
Interrupt(c, w) ==
  Account([Logged(c, w, "irq") EXCEPT
             !.cpu[w] = [@ EXCEPT !.mask = 1, !.ret = c.cpu[w].pc, !.pc = Handler(w), !.stopped = 0],
             !.mainIrq = IF w = "M" THEN 0 ELSE @, !.pending = IF w = "S" THEN 0 ELSE @], w, IrqCost)

\* What an instruction does once its accesses are granted.
Perform(c, w, k) ==
  CASE k = "stop" -> [c EXCEPT !.cpu[w].stopped = 1]
    [] k = "timer" -> [c EXCEPT !.timer = c.dev + TimerPeriod]
    [] k = "give" -> [c EXCEPT !.owner = Other(w)]
    [] k = "go" -> [c EXCEPT !.run = 1]
    [] k = "hold" -> [c EXCEPT !.run = 0]
    [] k = "reset" -> [c EXCEPT !.run = 0, !.reset = 1]
    [] OTHER -> c

Proceed(c, w, k) ==
  IF k = "rte" THEN [c EXCEPT !.cpu[w].pc = c.cpu[w].ret, !.cpu[w].mask = 0]
  ELSE [c EXCEPT !.cpu[w].pc = Following1(w, @)]

Effect(c, w) ==
  LET op == Op(c, w)
      d == IF op.kind = "reg" THEN c ELSE Logged(c, w, c.cpu[w].pc)
  IN Account([Proceed(Perform(d, w, op.kind), w, op.kind) EXCEPT !.busy[w] = 0], w, op.cost)

\* An access that is answered WAIT: Word RAM (or the stamp unit's start) while
\* the other processor owns it, and the main processor's window into the sub
\* processor's program memory while that one runs.
Blocked(c, w) ==
  \/ Op(c, w).kind = "word" /\ c.owner # w
  \/ Op(c, w).kind = "window" /\ c.run = 1

\* Mutant: the processor that waited keeps its clock.
Caught_Keeps(c, w) == Service(c, FALSE)

\* The waiting processor is no earlier than the owner that let it go on.
Caught(c, w) == Service(CatchUp(c, w), FALSE)

RECURSIVE Execute(_, _), Wait(_, _, _)
Execute(c, w) ==
  LET p == [c EXCEPT !.cpu[w].pins = Level(c, w)]
  IN IF c.busy[w] = 1 THEN Result(c, "REENTERED")
     ELSE IF Level(c, w) > c.cpu[w].mask THEN Result(Interrupt(p, w), "OK")
     ELSE IF c.cpu[w].stopped = 1 THEN Result(p, "STOPPED")
     ELSE LET b == [p EXCEPT !.busy[w] = 1]
              g == IF Blocked(c, w) THEN Wait(b, w, WaitLimit) ELSE Result(b, "OK")
          IN IF g.result = "OK" THEN Effect(g, w) ELSE [g EXCEPT !.busy[w] = 0]

\* A WAIT given up: the instruction fails, and the coordinator keeps why.
GiveUp(c, why) == [c EXCEPT !.result = "NO_WAIT", !.waitResult = why]

\* bus_wait: the owner runs while the access stays on the stack.
Wait(c, w, n) ==
  LET o == Other(w)
      e == Execute(c, o)
      d == Caught(e, w)
      next == EventTime(d, Never, FALSE)
      jump == Caught([d EXCEPT !.time[o] = IF @ < next THEN next ELSE @], w)
  IN IF c.busy[o] = 1 THEN GiveUp(c, "REENTERED")
     ELSE IF n = WaitLimit /\ o = "S" /\ c.run = 0 THEN GiveUp(c, "STOPPED")
     ELSE IF n = 0 THEN GiveUp(c, "NO_WAIT_HANDLER")
     ELSE IF e.result \notin {"OK", "STOPPED"} THEN GiveUp(e, e.result)
     ELSE IF ~Blocked(d, w) THEN [d EXCEPT !.result = "OK", !.waitResult = "OK"]
     ELSE IF e.result = "STOPPED" THEN Wait(jump, w, n - 1)
     ELSE Wait(d, w, n - 1)

-----------------------------------------------------------------------------
\* The sub processor follows its reset and bus request lines.
RefreshSub(c) ==
  IF c.run = 0 THEN [c EXCEPT !.was = 0, !.time["S"] = c.time["M"]]
  ELSE IF c.reset = 1
  THEN [c EXCEPT !.reset = 0, !.was = 1, !.time["S"] = c.time["M"],
                 !.cpu["S"] = [pc |-> 1, mask |-> 0, ret |-> 1, stopped |-> 0, pins |-> 0]]
  ELSE IF c.was = 0 THEN [CatchUp(c, "S") EXCEPT !.was = 1]
  ELSE c

IdleUntil(c, deadline, qualified) ==
  LET next == EventTime(c, deadline, qualified)
      Idle(t) == IF t < next THEN next ELSE t
  IN Service([c EXCEPT !.time["M"] = IF c.cpu["M"].stopped = 1 THEN Idle(@) ELSE @,
                       !.time["S"] = IF c.run = 0 \/ c.cpu["S"].stopped = 1 THEN Idle(@) ELSE @], FALSE)

\* After a stopped processor the other one runs; two stopped ones idle.
Yield(c, w) ==
  IF c.result = "STOPPED" THEN Result(IdleUntil(c, c.dev + Poll, FALSE), "OK") ELSE CatchUp(c, w)

Executed(c, w) ==
  IF c.result # "STOPPED" THEN c
  ELSE Yield(IF w = "S" \/ c.run = 1 THEN Execute(c, Other(w)) ELSE c, w)

Dispatch(c) == Service(Executed(Execute(c, Chosen(c)), Chosen(c)), FALSE)
Faulted(c) == IF c.result = "OK" /\ Fault(c) THEN Result(c, "BUS_ERROR") ELSE c

Step(c, coalesce) ==
  IF Fault(c) THEN Result(c, "BUS_ERROR") ELSE Faulted(Dispatch(Service(RefreshSub(c), coalesce)))

-----------------------------------------------------------------------------
\* region_event: the deadline is kept until the devices are serviced.
WithEvent(c) == IF c.event >= 0 THEN c ELSE [c EXCEPT !.event = EventTime(c, Never, c.qualified)]

\* A stable masked level, and a register instruction to run.
Ready(c, w, level) ==
  /\ c.cpu[w].pins = level[w] /\ level[w] <= c.cpu[w].mask
  /\ c.cpu[w].stopped = 0 /\ Op(c, w).kind = "reg"

\* Mutant: a span may end after the other processor is due.
SpanBudget_Alone(c, w, deadline) ==
  LET ceiling == Min({deadline, c.event})
      delta == ceiling - c.time[w]
  IN IF delta <= 0 THEN 0 ELSE IF w = "S" THEN delta ELSE ((delta + 1) * Denom - 1 - c.rem) \div Numer

SpanBudget(c, w, deadline) ==
  LET ceiling == Min({deadline, c.event} \cup IF c.run = 1 THEN {c.time[Other(w)]} ELSE {})
      delta == ceiling - c.time[w]
  IN IF delta <= 0 THEN 0 ELSE IF w = "S" THEN delta ELSE ((delta + 1) * Denom - 1 - c.rem) \div Numer

\* The register instructions from pc on, and what they cost.
Span(w, pc) == pc..Max({q \in pc..(Handler(w) - 1) : \A p \in pc..q : prog[w][p].kind = "reg"})
Cost(w, span) == SumFunctionOnSet([p \in 1..Len(prog[w]) |-> prog[w][p].cost], span)

\* One span if it fits, else one instruction.  While the sub processor is held
\* its clock is the main clock at the start of the last instruction.
Retire(c, w, deadline) ==
  LET pc == c.cpu[w].pc
      whole == Span(w, pc)
      span == IF Cost(w, whole) <= SpanBudget(c, w, deadline) THEN whole ELSE {pc}
      last == Max(span)
      held == Account(c, w, Cost(w, span \ {last})).time[w]
      d == Account([c EXCEPT !.cpu[w].pc = Following1(w, last)], w, Cost(w, span))
  IN IF c.run = 0 THEN [d EXCEPT !.was = 0, !.time["S"] = held] ELSE d

RECURSIVE Retired(_, _, _)
Retired(c, level, deadline) ==
  IF MinClock(c) >= deadline THEN c
  ELSE IF ~Ready(c, Chosen(c), level) THEN IF c.run = 0 THEN [c EXCEPT !.was = 0, !.time["S"] = c.time["M"]] ELSE c
  ELSE LET d == Retire(c, Chosen(c), deadline)
       IN IF MinClock(d) >= d.event THEN d ELSE Retired(d, level, deadline)

\* run_register_region_validated without publication.  What is overdue is
\* settled first; unchanged processors mean that nothing was retired.
Settled(c, now) == IF now >= c.event THEN Service(c, FALSE) ELSE c

Batch(c, deadline) ==
  IF Fault(c) THEN c
  ELSE Retired(WithEvent(c), [w \in CPUs |-> IF w = "S" /\ c.run = 0 THEN 0 ELSE Level(c, w)], deadline)

Checked(c) == Result(c, IF Fault(c) THEN "BUS_ERROR" ELSE "OK")
Closed(c, cpu) == IF c.cpu = cpu THEN c ELSE Checked(Settled(c, MinClock(c)))

Region(c, deadline) ==
  IF (c.run = 1 /\ (c.reset = 1 \/ c.was = 0)) \/ Op(c, Chosen(c)).kind # "reg" THEN c
  ELSE Closed(Batch(Settled(WithEvent(c), Min({MinClock(c), deadline})), deadline), c.cpu)

-----------------------------------------------------------------------------
Waiting(c) == c.cpu["M"].stopped = 1 /\ (c.run = 0 \/ c.cpu["S"].stopped = 1)
Wakes(c, w) == Level(c, w) > c.cpu[w].mask

\* One turn of the loop: a batch, whose result the loop ignores, an idle wait
\* for the next event or a step.
Serviced(c) == IF Waiting(c) THEN Service(c, FALSE) ELSE c

Attempt(c, deadline) ==
  IF Waiting(c) /\ ~Wakes(c, "M") /\ ~Wakes(c, "S") THEN IdleUntil(c, deadline, c.qualified)
  ELSE Step(c, c.qualified)

Advanced(c, cpu, deadline) == IF c.cpu # cpu THEN Result(c, "OK") ELSE Attempt(Serviced(c), deadline)
Turn(c, deadline) == Advanced(IF c.qualified THEN Region(c, deadline) ELSE c, c.cpu, deadline)

Ended(c, deadline, publish) == Checked(IF publish THEN Service(c, FALSE) ELSE Settled(c, deadline))

RECURSIVE RunUntil(_, _, _)
RunUntil(c, deadline, publish) ==
  IF c.result # "OK" THEN c
  ELSE IF MinClock(c) >= deadline THEN Ended(WithEvent(c), deadline, publish)
  ELSE IF Fault(c) THEN Result(c, "BUS_ERROR")
  ELSE RunUntil(Turn(c, deadline), deadline, publish)

-----------------------------------------------------------------------------
Init ==
  /\ prog \in Programs
  /\ \E f \in FaultTimes, third \in Masters : exact = Coordinator(FALSE, f, third) /\ fast = Coordinator(TRUE, f, third)
  /\ open = TRUE

\* The processors catch up with a deadline, the third master's clock if it runs.
Call(c, slice, publish) ==
  LET d == [c EXCEPT !.goal = @ + slice, !.log = <<>>] IN RunUntil(d, d.goal, publish)

Run(slice, publish) ==
  /\ exact.result = "OK" /\ exact.goal + slice <= MaxClock
  /\ exact' = Call(exact, slice, publish)
  /\ fast' = Call(fast, slice, publish)
  /\ open' = publish
  /\ UNCHANGED prog

Next == \E slice \in Slices, publish \in BOOLEAN : Run(slice, publish)

Spec == Init /\ [][Next]_vars

-----------------------------------------------------------------------------
\* What the programs and the host can tell: everything but the clock of the
\* devices while it is not published, and what follows from it.
Seen(c) == [c EXCEPT !.dev = IF open THEN @ ELSE 0, !.qualified = FALSE, !.event = 0]

\* Batches are invisible: retiring register instructions in spans, keeping
\* the next event and skipping device service until it is due gives the
\* processors, the devices, the interrupts and every access (its order, its
\* clock and the device time it sees) exactly what single steps give.  Only
\* a device fault may be noticed one instruction earlier, because a batch
\* settles what is overdue before it starts.
BatchExact ==
  /\ fast.result = exact.result
  /\ IF exact.result = "BUS_ERROR"
     THEN fast.log \in {exact.log, SubSeq(exact.log, 1, Len(exact.log) - 1)}
     ELSE Seen(fast) = Seen(exact)

\* Accesses of the two processors happen in the order of their clocks, also
\* through a WAIT for Word RAM and across STOP, and the devices an access
\* sees are never ahead of the processor that makes it.
InOrder ==
  \A c \in {exact, fast} :
    /\ \A i \in DOMAIN c.log : c.log[i].dev <= c.log[i].at
    /\ \A i, j \in DOMAIN c.log : i < j => c.log[i].at <= c.log[j].at

\* "A stopped owner can wake on its timer or a host VDP interrupt. Advance
\* those real event sources while preserving this WAIT." (bus_wait): no WAIT
\* is given up while a stopped owner's clock is past its next interrupt.
WaitAdvancesEvents ==
  exact.result = "NO_WAIT" =>
    /\ exact.cpu["S"].stopped = 1 /\ exact.cpu["S"].mask = 0 /\ exact.timer > 0 => exact.time["S"] < exact.timer
    /\ exact.cpu["M"].stopped = 1 /\ exact.cpu["M"].mask = 0 => exact.time["M"] < exact.line
=============================================================================
