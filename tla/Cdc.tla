-------------------------------- MODULE Cdc --------------------------------
(***************************************************************************)
(* The transfer side of the Sega CD's data controller (CDC): operators on  *)
(* its state.  A byte is known by its place in the CDC buffer.  The 16-bit *)
(* DAC register, which counts those places, is only used modulo the size   *)
(* of the buffer and cannot be read back, so it is kept modulo that size.  *)
(***************************************************************************)
EXTENDS Integers, Sequences

CONSTANTS
  DbcSize,  \* 4096: the byte counter register DBC holds 12 bits
  BufSize   \* 16384: bytes of the CDC buffer

ASSUME SizesAssumption == DbcSize \in Nat \ {0} /\ BufSize \in Nat /\ DbcSize <= BufSize

Bit == {0, 1}

Idle == [active |-> 0, end |-> 0, dtei |-> 0, douten |-> 0, remaining |-> 0, fifo |-> <<>>, dac |-> 0, dbc |-> 0]

\* The place n bytes after p, for n up to the buffer's size.
Place(p, n) == IF p + n < BufSize THEN p + n ELSE (p + n) - BufSize

ResetCdc(c) == [c EXCEPT !.active = 0, !.end = 0, !.dtei = 0, !.douten = 0, !.remaining = 0, !.fifo = <<>>]

\* refill prefetches up to two bytes, never more than remain.
Prefetch(c) == IF Len(c.fifo) < 2 /\ Len(c.fifo) < c.remaining
               THEN [c EXCEPT !.fifo = Append(@, c.dac), !.dac = Place(@, 1)] ELSE c

Refill(c) == IF c.active = 1 THEN Prefetch(Prefetch(c)) ELSE c

\* host_read takes one byte; the last one ends the transfer.
HostRead(c) ==
  LET t == [c EXCEPT !.fifo = Tail(@), !.remaining = @ - 1, !.dbc = IF @ = 0 THEN DbcSize - 1 ELSE @ - 1]
  IN IF t.remaining = 0 THEN [t EXCEPT !.active = 0, !.end = 1, !.dtei = 1] ELSE Refill(t)

Trigger(c) == Refill([c EXCEPT !.remaining = c.dbc + 1, !.fifo = <<>>, !.active = 1, !.end = 0])

Readable(c) == Len(c.fifo) > 0 /\ c.douten = 1

=============================================================================
