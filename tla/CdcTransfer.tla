---------------------------- MODULE CdcTransfer ----------------------------
(***************************************************************************)
(* The Sega CD data path: the CD controller's (CDC) buffer hands a block   *)
(* of bytes, two at a time, to a processor reading the host data port or   *)
(* to a DMA engine that writes PCM RAM, program RAM or Word RAM.  Word RAM *)
(* changes hands between the two processors meanwhile, so that a DMA word  *)
(* may be refused (WAIT) and is tried again six clocks later.              *)
(***************************************************************************)
EXTENDS Cdc

CONSTANTS
  Places    \* buffer addresses the sub processor programs into DAC

ASSUME PlacesAssumption == Places \subseteq 0..(BufSize - 1)

VARIABLES
  mode,         \* memory_mode: MODE_1M, RET and DMNA
  cdc,          \* the CD controller's transfer state
  destination,  \* cdc_destination
  dma,          \* the DMA engine: active and last_result
  start,        \* ghost: DAC when the transfer was triggered
  total,        \* ghost: bytes the transfer was triggered for
  handed        \* ghost: the places handed over since, in order

vars == <<mode, cdc, destination, dma, start, total, handed>>

PCM == 4
PRG == 5
WORD == 7
MAIN == 2  \* destination of a transfer the main processor reads
SUB == 3   \* destination of a transfer the sub processor reads

-----------------------------------------------------------------------------
Init ==
  /\ mode = [m1 |-> 0, ret |-> 1, dmna |-> 0]
  /\ cdc = Idle /\ destination = 0 /\ dma = [active |-> 0, last |-> "OK"]
  /\ start = 0 /\ total = 0 /\ handed = <<>>

ghosts == <<start, total, handed>>

\* The coordinator stops the machine at a DMA programming error.
Running == dma.last \notin {"BAD_DESTINATION", "ODD_BYTE_COUNT"}

\* Two bytes leave the FIFO for a processor or for memory.
HandOver ==
  LET c == HostRead(cdc) IN
  /\ cdc' = HostRead(c)
  /\ handed' = handed \o <<cdc.fifo[1], c.fifo[1]>>
  /\ UNCHANGED <<start, total>>

\* A word read of the host data port by the processor the transfer is for.
HostWord(cpu) ==
  /\ Running
  /\ destination = cpu /\ Len(cdc.fifo) = 2 /\ Readable(cdc)
  /\ HandOver
  /\ UNCHANGED <<mode, destination, dma>>

-----------------------------------------------------------------------------
\* CDC registers, written by the sub processor through the gate array.
IfCtrl(on) ==
  /\ Running
  /\ cdc' = IF on = 1 THEN [cdc EXCEPT !.douten = 1]
            ELSE [cdc EXCEPT !.douten = 0, !.active = 0, !.fifo = <<>>, !.remaining = 0]
  /\ UNCHANGED <<mode, destination, dma, ghosts>>

Program(count, place) ==
  /\ Running
  /\ cdc.active = 0
  /\ cdc' = [cdc EXCEPT !.dbc = count, !.dac = place]
  /\ UNCHANGED <<mode, destination, dma, ghosts>>

\* Register 6 starts a transfer.  For a DMA destination the gate array
\* arms the DMA engine first, and an odd count or a reserved destination
\* leaves the transfer unstarted.
Begin ==
  IF destination \notin {PCM, PRG, WORD} THEN "BAD_DESTINATION"
  ELSE IF cdc.dbc % 2 = 0 THEN "ODD_BYTE_COUNT" ELSE "OK"

StartTransfer ==
  /\ Running
  /\ cdc.douten = 1 /\ cdc.active = 0
  /\ dma' = IF destination < 4 THEN dma
            ELSE [active |-> IF Begin = "OK" THEN 1 ELSE dma.active, last |-> Begin]
  /\ IF destination >= 4 /\ Begin # "OK" THEN UNCHANGED <<cdc, ghosts>>
     ELSE cdc' = Trigger(cdc) /\ start' = cdc.dac /\ total' = cdc.dbc + 1 /\ handed' = <<>>
  /\ UNCHANGED <<mode, destination>>

Acknowledge ==
  /\ Running
  /\ cdc' = [cdc EXCEPT !.dtei = 0]
  /\ UNCHANGED <<mode, destination, dma, ghosts>>

ControllerReset ==
  /\ Running
  /\ cdc' = ResetCdc(cdc)
  /\ UNCHANGED <<mode, destination, dma, ghosts>>

SetDestination(v) ==
  /\ Running
  /\ destination' = v
  /\ cdc' = [cdc EXCEPT !.end = 0]
  /\ dma' = IF v \in {PCM, PRG, WORD} THEN dma ELSE [dma EXCEPT !.active = 0]
  /\ UNCHANGED <<mode, ghosts>>

\* The sub processor resets its peripherals.
PeripheralReset ==
  /\ Running
  /\ cdc' = ResetCdc(cdc) /\ dma' = [active |-> 0, last |-> "OK"]
  /\ UNCHANGED <<mode, destination, ghosts>>

\* The main processor's RESET instruction resets the whole gate array.
GateArrayReset ==
  /\ Running
  /\ cdc' = ResetCdc(cdc) /\ dma' = [active |-> 0, last |-> "OK"]
  /\ destination' = 0 /\ mode' = [m1 |-> 0, ret |-> 1, dmna |-> 0]
  /\ UNCHANGED ghosts

-----------------------------------------------------------------------------
\* Word RAM ownership: register 3 of either processor.
MainMode(dmna) ==
  /\ Running
  /\ mode' = IF mode.m1 = 1 THEN [mode EXCEPT !.dmna = IF dmna = 0 THEN 1 ELSE @]
             ELSE IF dmna = 1 THEN [m1 |-> 0, ret |-> 0, dmna |-> 1] ELSE mode
  /\ UNCHANGED <<cdc, destination, dma, ghosts>>

\* Mutant: leaving 1M mode keeps the bits of that mode.
SubMode_KeepsBits(m1, ret) ==
  /\ Running
  /\ mode' = IF m1 = 1 THEN [m1 |-> 1, ret |-> ret, dmna |-> 0]
             ELSE IF ret = 1 THEN [m1 |-> 0, ret |-> 1, dmna |-> 0]
             ELSE [mode EXCEPT !.m1 = 0]
  /\ UNCHANGED <<cdc, destination, dma, ghosts>>

SubMode(m1, ret) ==
  /\ Running
  /\ mode' = IF m1 = 1 THEN [m1 |-> 1, ret |-> ret, dmna |-> 0]
             ELSE IF ret = 1 THEN [m1 |-> 0, ret |-> 1, dmna |-> 0]
             ELSE IF mode.m1 = 1 THEN [m1 |-> 0, ret |-> 0, dmna |-> 1]
             ELSE mode
  /\ UNCHANGED <<cdc, destination, dma, ghosts>>

-----------------------------------------------------------------------------
\* The answer to the sub processor's side of a DMA word.
SubWrite == IF destination = WORD /\ mode.m1 = 0 /\ mode.ret = 1 THEN "WAIT" ELSE "OK"

\* Mutant: the two bytes leave the FIFO before the write is known to have
\* been accepted.
TransferWord_ConsumesFirst ==
  /\ dma.active = 1 /\ Running
  /\ IF cdc.active = 0 THEN dma' = [active |-> 0, last |-> "OK"] /\ UNCHANGED <<cdc, ghosts>>
     ELSE IF cdc.douten = 0 THEN dma' = [dma EXCEPT !.last = "DISABLED"] /\ UNCHANGED <<cdc, ghosts>>
     ELSE IF Len(cdc.fifo) < 2 THEN dma' = [dma EXCEPT !.last = "OK"] /\ UNCHANGED <<cdc, ghosts>>
     ELSE IF SubWrite = "WAIT"
          THEN /\ dma' = [dma EXCEPT !.last = "WAIT"]
               /\ cdc' = HostRead(HostRead(cdc)) /\ UNCHANGED ghosts
          ELSE /\ HandOver
               /\ dma' = [active |-> IF cdc'.end = 1 THEN 0 ELSE 1, last |-> "OK"]
  /\ UNCHANGED <<mode, destination>>

\* One DMA event, every six clocks while the engine is active.
TransferWord ==
  /\ dma.active = 1 /\ Running
  /\ IF cdc.active = 0 THEN dma' = [active |-> 0, last |-> "OK"] /\ UNCHANGED <<cdc, ghosts>>
     ELSE IF cdc.douten = 0 THEN dma' = [dma EXCEPT !.last = "DISABLED"] /\ UNCHANGED <<cdc, ghosts>>
     ELSE IF Len(cdc.fifo) < 2 THEN dma' = [dma EXCEPT !.last = "OK"] /\ UNCHANGED <<cdc, ghosts>>
     ELSE IF SubWrite = "WAIT" THEN dma' = [dma EXCEPT !.last = "WAIT"] /\ UNCHANGED <<cdc, ghosts>>
     ELSE /\ HandOver
          /\ dma' = [active |-> IF cdc'.end = 1 THEN 0 ELSE 1, last |-> "OK"]
  /\ UNCHANGED <<mode, destination>>

-----------------------------------------------------------------------------
Next ==
  \/ \E cpu \in {MAIN, SUB} : HostWord(cpu)
  \/ \E on \in Bit : IfCtrl(on)
  \/ \E count \in 0..(DbcSize - 1), place \in Places : Program(count, place)
  \/ StartTransfer \/ Acknowledge \/ ControllerReset
  \/ \E v \in 0..7 : SetDestination(v)
  \/ PeripheralReset \/ GateArrayReset
  \/ \E dmna \in Bit : MainMode(dmna)
  \/ \E m1, ret \in Bit : SubMode(m1, ret)
  \/ TransferWord

Spec == Init /\ [][Next]_vars

-----------------------------------------------------------------------------
\* The bytes of a transfer are handed over once each and in buffer order,
\* whatever the refusals, ownership changes and changes of destination in
\* between, and the end of a transfer is announced (EDT) only after its
\* last byte.
TransferExact ==
  /\ handed = [i \in 1..Len(handed) |-> Place(start, i - 1)]
  /\ cdc.active = 1 => Len(handed) + cdc.remaining = total
  /\ cdc.end = 1 => Len(handed) = total

\* What the processors' hand-shake and the DMA engine rely on: in 2M mode
\* exactly one of RET and DMNA names the owner of Word RAM, and an armed DMA
\* engine always has a destination of its own, so that it never takes bytes
\* meant for a processor.
OwnersKnown ==
  /\ mode.m1 = 0 => mode.ret + mode.dmna = 1
  /\ dma.active = 1 => destination \in {PCM, PRG, WORD}
=============================================================================
