------------------------- MODULE CdcTransferProofs -------------------------
(***************************************************************************)
(* TransferExact and OwnersKnown for every size of the byte counter and of *)
(* the buffer.  TransferExact alone is not inductive: what is handed over  *)
(* next is what the two-byte FIFO holds, so the invariant follows the FIFO *)
(* and the DAC register along the transfer.                                *)
(***************************************************************************)
EXTENDS CdcTransfer, SequenceTheorems, TLAPS

CdcType ==
  [active : Bit, end : Bit, dtei : Bit, douten : Bit, remaining : 0..DbcSize,
   fifo : Seq(0..(BufSize - 1)), dac : 0..(BufSize - 1), dbc : 0..(DbcSize - 1)]

\* The FIFO of a transfer that began at place s and has handed over n bytes
\* holds the places that follow, and DAC points behind them.
Follows(c, s, n) ==
  /\ Len(c.fifo) <= 2 /\ Len(c.fifo) <= c.remaining
  /\ \A i \in 1..Len(c.fifo) : c.fifo[i] = Place(s, n + i - 1)
  /\ c.dac = Place(s, n + Len(c.fifo))

Full(c) == Len(c.fifo) = 2 \/ Len(c.fifo) = c.remaining

Types ==
  /\ mode \in [m1 : Bit, ret : Bit, dmna : Bit]
  /\ cdc \in CdcType
  /\ destination \in 0..7
  /\ dma \in [active : Bit, last : {"OK", "WAIT", "DISABLED", "BAD_DESTINATION", "ODD_BYTE_COUNT"}]
  /\ start \in 0..(BufSize - 1) /\ total \in 0..DbcSize
  /\ handed \in Seq(0..(BufSize - 1))

IndInv ==
  /\ Types
  /\ TransferExact
  /\ OwnersKnown
  /\ cdc.active = 1 => /\ cdc.remaining >= 1
                       /\ Follows(cdc, start, Len(handed)) /\ Full(cdc)
  /\ cdc.active = 0 => cdc.fifo = <<>> /\ cdc.remaining = 0

-----------------------------------------------------------------------------
\* Places are counted around the buffer.
LEMMA PlaceNext ==
  ASSUME NEW s \in 0..(BufSize - 1), NEW n \in Nat, n < DbcSize
  PROVE  /\ Place(s, n) \in 0..(BufSize - 1)
         /\ Place(Place(s, n), 1) = Place(s, n + 1)
         /\ Place(s, 0) = s
  BY SizesAssumption DEF Place

\* A counter counts down and wraps inside its range.
LEMMA CountDown ==
  ASSUME NEW x \in Nat, NEW k \in Nat
  PROVE  /\ x < k => (IF x = 0 THEN k - 1 ELSE x - 1) \in 0..(k - 1)
         /\ 1 <= x /\ x <= k => x - 1 \in 0..k
OBVIOUS

\* A FIFO of at most two and at most y bytes is full or has room.
LEMMA Room ==
  ASSUME NEW x \in Nat, NEW y \in Nat, x <= 2, x <= y
  PROVE  /\ (x = 2 \/ x = y) \/ (x < 2 /\ x < y)
         /\ (x = 2 \/ x = y) /\ y >= 1 => x >= 1
         /\ ~(x < 2) => x = 2
         /\ 0 + y = y
  OBVIOUS

\* The fields of the controller's state.
LEMMA CdcFields ==
  ASSUME NEW c \in CdcType
  PROVE  /\ c.active \in Bit /\ c.end \in Bit /\ c.dtei \in Bit /\ c.douten \in Bit
         /\ c.remaining \in Nat /\ c.remaining <= DbcSize /\ c.fifo \in Seq(0..(BufSize - 1)) /\ Len(c.fifo) \in Nat
         /\ c.dac \in Nat /\ c.dac < BufSize /\ c.dbc \in Nat /\ c.dbc < DbcSize
<1>1. /\ c.active \in Bit /\ c.end \in Bit /\ c.dtei \in Bit /\ c.douten \in Bit
      /\ c.remaining \in 0..DbcSize /\ c.fifo \in Seq(0..(BufSize - 1))
      /\ c.dac \in 0..(BufSize - 1) /\ c.dbc \in 0..(DbcSize - 1)
  BY DEF CdcType
<1>2. Len(c.fifo) \in Nat
  BY <1>1
<1> QED BY <1>1, <1>2, SizesAssumption

\* One prefetch of refill keeps the FIFO in step with the transfer.
LEMMA PrefetchFollows ==
  ASSUME NEW c \in CdcType, NEW s \in 0..(BufSize - 1), NEW n \in Nat,
         n + c.remaining <= DbcSize, Follows(c, s, n)
  PROVE  LET d == Prefetch(c) IN
         /\ d \in CdcType /\ Follows(d, s, n)
         /\ d.active = c.active /\ d.end = c.end /\ d.douten = c.douten /\ d.remaining = c.remaining
         /\ Len(d.fifo) = IF Len(c.fifo) < 2 /\ Len(c.fifo) < c.remaining THEN Len(c.fifo) + 1 ELSE Len(c.fifo)
<1>1. CASE ~(Len(c.fifo) < 2 /\ Len(c.fifo) < c.remaining)
  BY <1>1 DEF Prefetch
<1>2. CASE Len(c.fifo) < 2 /\ Len(c.fifo) < c.remaining
  <2> DEFINE k == Len(c.fifo)
             d == Prefetch(c)
  <2>1. k \in Nat /\ c.remaining \in Nat /\ c.fifo \in Seq(0..(BufSize - 1)) /\ c.dac \in 0..(BufSize - 1)
    BY SizesAssumption DEF CdcType
  <2>2. n + k \in Nat /\ n + k < DbcSize
    BY <1>2, <2>1, SizesAssumption
  <2>3. c.dac = Place(s, n + k) /\ Place(c.dac, 1) = Place(s, (n + k) + 1) /\ Place(c.dac, 1) \in 0..(BufSize - 1)
    <3>1. c.dac = Place(s, n + k)
      BY DEF Follows
    <3>2. Place(c.dac, 1) = Place(s, (n + k) + 1)
      BY <3>1, <2>2, PlaceNext
    <3>3. Place(c.dac, 1) \in 0..(BufSize - 1)
      BY <2>1, SizesAssumption DEF Place
    <3> QED BY <3>1, <3>2, <3>3
  <2>4. d = [c EXCEPT !.fifo = Append(c.fifo, c.dac), !.dac = Place(c.dac, 1)]
    BY <1>2 DEF Prefetch
  <2>5. /\ d.fifo = Append(c.fifo, c.dac) /\ d.dac = Place(c.dac, 1)
        /\ d.active = c.active /\ d.end = c.end /\ d.douten = c.douten /\ d.remaining = c.remaining
    BY <2>4 DEF CdcType
  <2>6. d \in CdcType
    <3>1. Append(c.fifo, c.dac) \in Seq(0..(BufSize - 1))
      BY <2>1
    <3> QED BY <3>1, <2>3, <2>4 DEF CdcType
  <2>7. Len(d.fifo) = k + 1
    BY <2>1, <2>5
  <2>8. ASSUME NEW i \in 1..(k + 1) PROVE d.fifo[i] = Place(s, n + i - 1)
    <3>1. CASE i = k + 1
      <4>1. d.fifo[i] = c.dac
        BY <3>1, <2>1, <2>5
      <4>2. n + i - 1 = n + k
        BY <3>1, <2>1
      <4> QED BY <4>1, <4>2, <2>3
    <3>2. CASE i \in 1..k
      <4>1. d.fifo[i] = c.fifo[i]
        BY <3>2, <2>1, <2>5
      <4> QED BY <4>1, <3>2 DEF Follows
    <3> QED BY <3>1, <3>2, <2>1
  <2>9. d.dac = Place(s, n + Len(d.fifo))
    <3>1. n + Len(d.fifo) = (n + k) + 1
      BY <2>7, <2>1
    <3> QED BY <3>1, <2>3, <2>5
  <2>10. Follows(d, s, n)
    <3>1. Len(d.fifo) <= 2 /\ Len(d.fifo) <= d.remaining
      BY <2>5, <2>7, <1>2, <2>1
    <3>2. \A i \in 1..Len(d.fifo) : d.fifo[i] = Place(s, n + i - 1)
      BY <2>7, <2>8
    <3> HIDE DEF d
    <3> QED BY <3>1, <3>2, <2>9 DEF Follows
  <2> QED BY <2>5, <2>6, <2>7, <2>10, <1>2
<1> QED BY <1>1, <1>2

\* refill fills the FIFO.
LEMMA RefillFollows ==
  ASSUME NEW c \in CdcType, NEW s \in 0..(BufSize - 1), NEW n \in Nat,
         n + c.remaining <= DbcSize, Follows(c, s, n), c.active = 1
  PROVE  LET d == Refill(c) IN
         /\ d \in CdcType /\ Follows(d, s, n) /\ Full(d)
         /\ d.active = 1 /\ d.end = c.end /\ d.douten = c.douten /\ d.remaining = c.remaining
<1> DEFINE e == Prefetch(c)
           d == Prefetch(e)
<1>1. Refill(c) = d
  BY DEF Refill
<1>2. /\ e \in CdcType /\ Follows(e, s, n)
      /\ e.active = c.active /\ e.end = c.end /\ e.douten = c.douten /\ e.remaining = c.remaining
      /\ Len(e.fifo) = IF Len(c.fifo) < 2 /\ Len(c.fifo) < c.remaining THEN Len(c.fifo) + 1 ELSE Len(c.fifo)
  BY PrefetchFollows
<1> HIDE DEF e
<1>3. /\ d \in CdcType /\ Follows(d, s, n)
      /\ d.active = e.active /\ d.end = e.end /\ d.douten = e.douten /\ d.remaining = e.remaining
      /\ Len(d.fifo) = IF Len(e.fifo) < 2 /\ Len(e.fifo) < e.remaining THEN Len(e.fifo) + 1 ELSE Len(e.fifo)
  BY <1>2, PrefetchFollows
<1> HIDE DEF d
<1>4. Len(c.fifo) \in Nat /\ Len(c.fifo) <= 2 /\ c.remaining \in Nat /\ Len(c.fifo) <= c.remaining
  BY CdcFields DEF Follows
<1>5. Len(d.fifo) = 2 \/ Len(d.fifo) = d.remaining
  <2>1. CASE Len(c.fifo) = 2 \/ Len(c.fifo) = c.remaining
    BY <2>1, <1>2, <1>3, <1>4
  <2>2. CASE Len(c.fifo) < 2 /\ Len(c.fifo) < c.remaining
    <3>1. Len(e.fifo) = Len(c.fifo) + 1
      BY <2>2, <1>2
    <3> QED BY <3>1, <2>2, <1>2, <1>3, <1>4
  <2>3. (Len(c.fifo) = 2 \/ Len(c.fifo) = c.remaining) \/ (Len(c.fifo) < 2 /\ Len(c.fifo) < c.remaining)
    BY <1>4, Room
  <2> QED BY <2>1, <2>2, <2>3
<1>6. Full(d)
  BY <1>5 DEF Full
<1> QED BY <1>1, <1>2, <1>3, <1>6

\* Taking one byte of a running transfer hands over the next place.
LEMMA HostReadFollows ==
  ASSUME NEW c \in CdcType, NEW s \in 0..(BufSize - 1), NEW n \in Nat,
         n + c.remaining <= DbcSize, Follows(c, s, n), Full(c), c.active = 1, c.remaining >= 1
  PROVE  LET d == HostRead(c) IN
         /\ d \in CdcType /\ c.fifo[1] = Place(s, n)
         /\ d.remaining = c.remaining - 1 /\ d.douten = c.douten
         /\ c.remaining = 1 => d.active = 0 /\ d.fifo = <<>> /\ d.end = 1
         /\ c.remaining > 1 => /\ d.active = 1 /\ d.end = c.end
                               /\ Follows(d, s, n + 1) /\ Full(d)
<1> DEFINE t == [c EXCEPT !.fifo = Tail(c.fifo), !.remaining = c.remaining - 1,
                          !.dbc = IF c.dbc = 0 THEN DbcSize - 1 ELSE c.dbc - 1]
<1>1. /\ c.fifo \in Seq(0..(BufSize - 1)) /\ Len(c.fifo) \in Nat /\ Len(c.fifo) >= 1 /\ Len(c.fifo) <= 2
      /\ c.remaining \in Nat /\ c.remaining <= DbcSize /\ Len(c.fifo) <= c.remaining
      /\ c.dbc \in Nat /\ c.dbc < DbcSize
  <2>1. Len(c.fifo) <= 2 /\ Len(c.fifo) <= c.remaining
    BY DEF Follows
  <2>2. Len(c.fifo) = 2 \/ Len(c.fifo) = c.remaining
    BY DEF Full
  <2>3. /\ c.fifo \in Seq(0..(BufSize - 1)) /\ Len(c.fifo) \in Nat
        /\ c.remaining \in Nat /\ c.remaining <= DbcSize /\ c.dbc \in Nat /\ c.dbc < DbcSize
    BY CdcFields
  <2>4. Len(c.fifo) >= 1
    BY <2>1, <2>2, <2>3, Room
  <2> QED BY <2>1, <2>3, <2>4
<1>2. c.fifo[1] = Place(s, n)
  <2>1. 1 \in 1..Len(c.fifo) /\ n + 1 - 1 = n
    BY <1>1
  <2> QED BY <2>1 DEF Follows
<1>3. HostRead(c) = IF t.remaining = 0 THEN [t EXCEPT !.active = 0, !.end = 1, !.dtei = 1] ELSE Refill(t)
  BY DEF HostRead
<1>4. /\ t.fifo = Tail(c.fifo) /\ t.remaining = c.remaining - 1 /\ t.active = c.active /\ t.end = c.end
      /\ t.douten = c.douten /\ t.dac = c.dac
  BY DEF CdcType
<1>5. Tail(c.fifo) \in Seq(0..(BufSize - 1)) /\ Len(Tail(c.fifo)) = Len(c.fifo) - 1
      /\ \A i \in 1..(Len(c.fifo) - 1) : Tail(c.fifo)[i] = c.fifo[i + 1]
  <2>1. c.fifo # <<>>
    BY <1>1
  <2> QED BY <2>1, <1>1, HeadTailProperties, ElementOfSeq
<1>6. t \in CdcType
  <2>0. DbcSize \in Nat
    BY SizesAssumption
  <2>1. c.remaining - 1 \in 0..DbcSize
    BY <1>1, <2>0, CountDown
  <2>2. (IF c.dbc = 0 THEN DbcSize - 1 ELSE c.dbc - 1) \in 0..(DbcSize - 1)
    BY <1>1, <2>0, CountDown
  <2> QED BY <2>1, <2>2, <1>5 DEF CdcType
<1>7. Follows(t, s, n + 1)
  <2>1. Len(t.fifo) <= 2 /\ Len(t.fifo) <= t.remaining
    BY <1>1, <1>4, <1>5
  <2>2. ASSUME NEW i \in 1..Len(t.fifo) PROVE t.fifo[i] = Place(s, (n + 1) + i - 1)
    <3>1. i \in 1..(Len(c.fifo) - 1) /\ i + 1 \in 1..Len(c.fifo) /\ n + (i + 1) - 1 = (n + 1) + i - 1
      BY <1>1, <1>4, <1>5
    <3>2. c.fifo[i + 1] = Place(s, n + (i + 1) - 1)
      BY <3>1 DEF Follows
    <3> QED BY <3>1, <3>2, <1>4, <1>5
  <2>3. n + Len(c.fifo) = (n + 1) + Len(t.fifo)
    BY <1>1, <1>4, <1>5
  <2>4. t.dac = Place(s, (n + 1) + Len(t.fifo))
    BY <2>3, <1>4 DEF Follows
  <2> HIDE DEF t
  <2> QED BY <2>1, <2>2, <2>4 DEF Follows
<1>8. CASE c.remaining = 1
  <2>1. t.remaining = 0 /\ t.fifo = <<>>
    BY <1>8, <1>1, <1>4, <1>5
  <2>2. HostRead(c) = [t EXCEPT !.active = 0, !.end = 1, !.dtei = 1]
    BY <1>3, <2>1
  <2> DEFINE d == [t EXCEPT !.active = 0, !.end = 1, !.dtei = 1]
  <2> HIDE DEF t
  <2>3. d \in CdcType
    BY <1>6 DEF CdcType, Bit
  <2>4. d.active = 0 /\ d.end = 1 /\ d.fifo = t.fifo /\ d.remaining = t.remaining /\ d.douten = t.douten
    BY <1>6 DEF CdcType
  <2> QED BY <2>1, <2>2, <2>3, <2>4, <1>1, <1>2, <1>4, <1>8
<1>9. CASE c.remaining > 1
  <2>1. t.remaining # 0 /\ (n + 1) + t.remaining <= DbcSize /\ t.active = 1
    BY <1>9, <1>1, <1>4
  <2>2. HostRead(c) = Refill(t)
    BY <1>3, <2>1
  <2> HIDE DEF t
  <2>3. n + 1 \in Nat
    OBVIOUS
  <2>4. /\ Refill(t) \in CdcType /\ Follows(Refill(t), s, n + 1) /\ Full(Refill(t))
        /\ Refill(t).active = 1 /\ Refill(t).end = t.end /\ Refill(t).douten = t.douten
        /\ Refill(t).remaining = t.remaining
    BY <2>1, <2>3, <1>6, <1>7, RefillFollows
  <2> QED BY <2>2, <2>4, <1>2, <1>4, <1>9
<1> QED BY <1>1, <1>8, <1>9

\* The trigger starts a transfer at DAC with the FIFO filled.
LEMMA TriggerFollows ==
  ASSUME NEW c \in CdcType
  PROVE  LET d == Trigger(c) IN
         /\ d \in CdcType /\ d.active = 1 /\ d.end = 0 /\ d.remaining = c.dbc + 1
         /\ Follows(d, c.dac, 0) /\ Full(d)
<1> DEFINE t == [c EXCEPT !.remaining = c.dbc + 1, !.fifo = <<>>, !.active = 1, !.end = 0]
<1>1. c.dbc \in Nat /\ c.dac \in 0..(BufSize - 1) /\ c.dbc + 1 \in 0..DbcSize /\ c.dbc + 1 <= DbcSize
  BY CdcFields, SizesAssumption
<1>2. t \in CdcType
  <2>1. <<>> \in Seq(0..(BufSize - 1))
    OBVIOUS
  <2> QED BY <1>1, <2>1 DEF CdcType, Bit
<1>3. t.fifo = <<>> /\ t.remaining = c.dbc + 1 /\ t.active = 1 /\ t.end = 0 /\ t.dac = c.dac
  BY DEF CdcType
<1>4. Len(t.fifo) = 0 /\ Place(c.dac, 0) = c.dac
  BY <1>1, <1>3, SizesAssumption DEF Place
<1>5. Trigger(c) = Refill(t)
  BY DEF Trigger
<1> HIDE DEF t
<1>6. Follows(t, c.dac, 0)
  BY <1>1, <1>3, <1>4 DEF Follows
<1>7. 0 + t.remaining <= DbcSize
  BY <1>1, <1>3
<1> QED BY <1>1, <1>2, <1>3, <1>5, <1>6, <1>7, RefillFollows

-----------------------------------------------------------------------------
\* Two bytes of a running transfer with a full FIFO of two.
LEMMA HandOverInv ==
  ASSUME IndInv, HandOver, Len(cdc.fifo) = 2
  PROVE  /\ cdc' \in CdcType /\ handed' \in Seq(0..(BufSize - 1))
         /\ handed' = [i \in 1..Len(handed') |-> Place(start, i - 1)]
         /\ cdc'.active = 1 => /\ Len(handed') + cdc'.remaining = total /\ cdc'.remaining >= 1
                               /\ Follows(cdc', start, Len(handed')) /\ Full(cdc')
         /\ cdc'.active = 0 => cdc'.fifo = <<>> /\ cdc'.remaining = 0
         /\ cdc'.end = 1 => Len(handed') = total
<1> DEFINE n == Len(handed)
           c == HostRead(cdc)
           d == HostRead(c)
<1>1. /\ cdc \in CdcType /\ handed \in Seq(0..(BufSize - 1)) /\ start \in 0..(BufSize - 1) /\ total \in Nat
      /\ total <= DbcSize
  BY SizesAssumption DEF IndInv, Types
<1>2. n \in Nat /\ cdc.remaining \in Nat /\ cdc.active \in Bit
  BY <1>1, CdcFields
<1>3. cdc.active = 1 /\ cdc.remaining >= 1 /\ Follows(cdc, start, n) /\ Full(cdc) /\ n + cdc.remaining = total
  BY <1>2 DEF IndInv, TransferExact, Bit
<1>4. cdc.remaining >= 2
  BY <1>3 DEF Follows
<1>5. n + cdc.remaining <= DbcSize
  BY <1>1, <1>3
<1>6. /\ c \in CdcType /\ cdc.fifo[1] = Place(start, n) /\ c.remaining = cdc.remaining - 1
      /\ c.active = 1 /\ c.end = cdc.end /\ Follows(c, start, n + 1) /\ Full(c)
  BY <1>1, <1>2, <1>3, <1>4, <1>5, HostReadFollows
<1>7. handed' = handed \o <<cdc.fifo[1], c.fifo[1]>> /\ cdc' = d
  BY DEF HandOver
<1> HIDE DEF c
<1>8. (n + 1) + c.remaining <= DbcSize /\ c.remaining >= 1 /\ n + 1 \in Nat
  BY <1>2, <1>4, <1>5, <1>6
<1>9. /\ d \in CdcType /\ c.fifo[1] = Place(start, n + 1) /\ d.remaining = c.remaining - 1
      /\ c.remaining = 1 => d.active = 0 /\ d.fifo = <<>> /\ d.end = 1
      /\ c.remaining > 1 => /\ d.active = 1 /\ d.end = c.end
                            /\ Follows(d, start, (n + 1) + 1) /\ Full(d)
  BY <1>1, <1>6, <1>8, HostReadFollows
<1> HIDE DEF d
<1>10. Place(start, n) \in 0..(BufSize - 1) /\ Place(start, n + 1) \in 0..(BufSize - 1)
  <2>1. n < DbcSize /\ n + 1 < DbcSize
    BY <1>2, <1>4, <1>5, SizesAssumption
  <2> QED BY <2>1, <1>1, <1>2, <1>8, PlaceNext
<1>11. /\ handed' = handed \o <<Place(start, n), Place(start, n + 1)>>
       /\ handed' \in Seq(0..(BufSize - 1)) /\ Len(handed') = n + 2
  BY <1>1, <1>6, <1>7, <1>9, <1>10
<1>12. handed' = [i \in 1..(n + 2) |-> Place(start, i - 1)]
  <2>1. \A i \in 1..n : handed[i] = Place(start, i - 1)
    BY DEF IndInv, TransferExact
  <2>2. ASSUME NEW i \in 1..(n + 2) PROVE handed'[i] = Place(start, i - 1)
    <3>1. CASE i \in 1..n
      <4>1. handed'[i] = handed[i]
        BY <3>1, <1>1, <1>11
      <4> QED BY <4>1, <3>1, <2>1
    <3>2. CASE i = n + 1
      <4>1. handed'[i] = Place(start, n) /\ i - 1 = n
        BY <3>2, <1>1, <1>2, <1>11
      <4> QED BY <4>1
    <3>3. CASE i = n + 2
      <4>1. handed'[i] = Place(start, n + 1) /\ i - 1 = n + 1
        BY <3>3, <1>1, <1>2, <1>11
      <4> QED BY <4>1
    <3> QED BY <3>1, <3>2, <3>3, <1>2
  <2>3. DOMAIN handed' = 1..(n + 2) /\ handed' = [i \in DOMAIN handed' |-> handed'[i]]
    BY <1>11
  <2> QED BY <2>2, <2>3
<1>13. (n + 1) + 1 = Len(handed') /\ n + 2 = Len(handed')
  BY <1>2, <1>11
<1>14. CASE c.remaining = 1
  <2>1. d.active = 0 /\ d.fifo = <<>> /\ d.remaining = 0
    BY <1>14, <1>9
  <2>2. Len(handed') = total
    BY <1>14, <1>13, <1>3, <1>6, <1>2
  <2>3. handed' = [i \in 1..Len(handed') |-> Place(start, i - 1)]
    BY <1>12, <1>13
  <2>4. cdc'.active = 0 /\ cdc'.fifo = <<>> /\ cdc'.remaining = 0 /\ cdc' \in CdcType
    BY <2>1, <1>7, <1>9
  <2> HIDE DEF n
  <2> QED BY <2>2, <2>3, <2>4, <1>11
<1>15. CASE c.remaining > 1
  <2>1. d.active = 1 /\ Follows(d, start, Len(handed')) /\ Full(d) /\ d.end = cdc.end
    BY <1>15, <1>9, <1>13, <1>6
  <2>2. d.remaining >= 1 /\ Len(handed') + d.remaining = total
    BY <1>15, <1>9, <1>13, <1>3, <1>6, <1>2, <1>11
  <2>3. cdc.end # 1
    BY <1>2, <1>3, <1>4 DEF IndInv, TransferExact
  <2> QED BY <2>1, <2>2, <2>3, <1>7, <1>9, <1>11, <1>12, <1>13
<1> QED BY <1>14, <1>15, <1>6, <1>8, <1>2

\* The invariant depends on the transfer state only through these facts.
LEMMA Unhanded ==
  ASSUME IndInv, cdc' \in CdcType, UNCHANGED <<start, total, handed>>,
         mode' \in [m1 : Bit, ret : Bit, dmna : Bit], mode'.m1 = 0 => mode'.ret + mode'.dmna = 1,
         destination' \in 0..7,
         dma' \in [active : Bit, last : {"OK", "WAIT", "DISABLED", "BAD_DESTINATION", "ODD_BYTE_COUNT"}],
         dma'.active = 1 => destination' \in {PCM, PRG, WORD},
         cdc'.end = 1 => cdc.end = 1,
         \/ cdc'.active = 0 /\ cdc'.fifo = <<>> /\ cdc'.remaining = 0
         \/ /\ cdc'.active = cdc.active /\ cdc'.fifo = cdc.fifo
            /\ cdc'.remaining = cdc.remaining
            /\ cdc.active = 1 => cdc'.dac = cdc.dac
  PROVE  IndInv'
<1>1. Types'
  BY DEF IndInv, Types
<1>2. OwnersKnown'
  BY DEF OwnersKnown
<1>3. CASE cdc'.active = 0 /\ cdc'.fifo = <<>> /\ cdc'.remaining = 0
  <2>1. TransferExact'
    BY <1>3 DEF IndInv, TransferExact, Place
  <2> QED BY <1>1, <1>2, <1>3, <2>1 DEF IndInv
<1>4. CASE /\ cdc'.active = cdc.active /\ cdc'.fifo = cdc.fifo
           /\ cdc'.remaining = cdc.remaining
           /\ cdc.active = 1 => cdc'.dac = cdc.dac
  <2>1. TransferExact'
    BY <1>4 DEF IndInv, TransferExact, Place
  <2>2. cdc'.active = 1 => Follows(cdc, start, Len(handed))' /\ Full(cdc)' /\ cdc'.remaining >= 1
    BY <1>4 DEF IndInv, Follows, Full, Place
  <2>3. cdc'.active = 0 => cdc'.fifo = <<>> /\ cdc'.remaining = 0
    BY <1>4 DEF IndInv
  <2> QED BY <1>1, <1>2, <2>1, <2>2, <2>3 DEF IndInv
<1> QED BY <1>3, <1>4

\* The inductive invariant.
THEOREM Inductive == Spec => []IndInv
<1>1. Init => IndInv
  <2> SUFFICES ASSUME Init PROVE IndInv
    OBVIOUS
  <2>1. cdc \in CdcType
    <3>1. <<>> \in Seq(0..(BufSize - 1))
      OBVIOUS
    <3>2. 0 \in 0..DbcSize /\ 0 \in 0..(BufSize - 1) /\ 0 \in 0..(DbcSize - 1)
      BY SizesAssumption
    <3> QED BY <3>1, <3>2 DEF Init, Idle, CdcType, Bit
  <2>2. Types
    BY <2>1, SizesAssumption DEF Init, Types, Bit
  <2>3. TransferExact
    BY DEF Init, TransferExact, Idle
  <2>4. OwnersKnown
    BY DEF Init, OwnersKnown
  <2> QED BY <2>2, <2>3, <2>4 DEF Init, IndInv, Idle
<1>2. IndInv /\ [Next]_vars => IndInv'
  <2> SUFFICES ASSUME IndInv, [Next]_vars PROVE IndInv'
    OBVIOUS
  <2>t. /\ cdc \in CdcType /\ mode \in [m1 : Bit, ret : Bit, dmna : Bit] /\ destination \in 0..7
        /\ dma \in [active : Bit, last : {"OK", "WAIT", "DISABLED", "BAD_DESTINATION", "ODD_BYTE_COUNT"}]
    BY DEF IndInv, Types
  <2>o. /\ mode.m1 = 0 => mode.ret + mode.dmna = 1
        /\ dma.active = 1 => destination \in {PCM, PRG, WORD}
    BY DEF IndInv, OwnersKnown
  <2>e. <<>> \in Seq(0..(BufSize - 1)) /\ 0 \in 0..DbcSize
    BY SizesAssumption
  <2>1. ASSUME NEW cpu \in {MAIN, SUB}, HostWord(cpu) PROVE IndInv'
    <3>1. HandOver /\ Len(cdc.fifo) = 2 /\ UNCHANGED <<mode, destination, dma, start, total>>
      BY <2>1 DEF HostWord, HandOver
    <3> QED BY <3>1, HandOverInv DEF IndInv, Types, TransferExact, OwnersKnown, Place
  <2>2. ASSUME NEW on \in Bit, IfCtrl(on) PROVE IndInv'
    BY <2>2, <2>t, <2>o, <2>e, Unhanded DEF IfCtrl, ghosts, CdcType, Bit
  <2>3. ASSUME NEW count \in 0..(DbcSize - 1), NEW place \in Places, Program(count, place) PROVE IndInv'
    <3>1. cdc.active = 0 /\ cdc' = [cdc EXCEPT !.dbc = count, !.dac = place] /\ UNCHANGED <<mode, destination, dma, start, total, handed>>
      BY <2>3 DEF Program, ghosts
    <3>2. place \in 0..(BufSize - 1)
      BY PlacesAssumption
    <3>3. cdc' \in CdcType
      BY <3>1, <3>2, <2>t DEF CdcType
    <3>4. cdc'.active = cdc.active /\ cdc'.end = cdc.end /\ cdc'.fifo = cdc.fifo /\ cdc'.remaining = cdc.remaining
      BY <3>1, <2>t DEF CdcType
    <3> QED BY <3>1, <3>3, <3>4, <2>t, <2>o, Unhanded
  <2>4. ASSUME StartTransfer PROVE IndInv'
    <3>1. UNCHANGED <<mode, destination>>
      BY <2>4 DEF StartTransfer
    <3>2. Begin \in {"OK", "BAD_DESTINATION", "ODD_BYTE_COUNT"} /\ (Begin = "OK" => destination \in {PCM, PRG, WORD})
      BY DEF Begin
    <3>3. /\ dma' \in [active : Bit, last : {"OK", "WAIT", "DISABLED", "BAD_DESTINATION", "ODD_BYTE_COUNT"}]
          /\ dma'.active = 1 => destination \in {PCM, PRG, WORD}
      BY <2>4, <2>t, <2>o, <3>2 DEF StartTransfer, Bit
    <3>4. CASE UNCHANGED <<cdc, ghosts>>
      BY <3>4, <3>1, <3>3, <2>t, <2>o, Unhanded DEF ghosts
    <3>5. CASE cdc' = Trigger(cdc) /\ start' = cdc.dac /\ total' = cdc.dbc + 1 /\ handed' = <<>>
      <4>1. /\ cdc' \in CdcType /\ cdc'.active = 1 /\ cdc'.end = 0 /\ cdc'.remaining = total'
            /\ Follows(cdc', start', 0) /\ Full(cdc')
        BY <3>5, <2>t, TriggerFollows
      <4>2. start' \in 0..(BufSize - 1) /\ total' \in 0..DbcSize /\ total' >= 1 /\ Len(handed') = 0
        BY <3>5, <2>t, CdcFields, SizesAssumption
      <4>3. Types'
        BY <3>1, <3>3, <3>5, <4>1, <4>2, <2>t DEF Types
      <4>4. TransferExact'
        <5>1. handed' = [i \in 1..Len(handed') |-> Place(start', i - 1)]
          BY <3>5, <4>2
        <5>2. Len(handed') + cdc'.remaining = total'
          <6>1. total' \in Nat /\ Len(handed') + cdc'.remaining = 0 + total'
            BY <4>1, <4>2, SizesAssumption
          <6> QED BY <6>1, Room
        <5> QED BY <5>1, <5>2, <4>1 DEF TransferExact, Place
      <4>5. OwnersKnown'
        BY <3>1, <3>3, <2>o DEF OwnersKnown
      <4>6. Follows(cdc, start, Len(handed))'
        BY <4>1, <4>2 DEF Follows, Place
      <4>7. Full(cdc)'
        BY <4>1 DEF Full
      <4> QED BY <4>1, <4>2, <4>3, <4>4, <4>5, <4>6, <4>7 DEF IndInv
    <3> QED BY <2>4, <3>4, <3>5 DEF StartTransfer
  <2>5. ASSUME Acknowledge PROVE IndInv'
    BY <2>5, <2>t, <2>o, <2>e, Unhanded DEF Acknowledge, ghosts, CdcType, Bit
  <2>6. ASSUME ControllerReset PROVE IndInv'
    BY <2>6, <2>t, <2>o, <2>e, Unhanded DEF ControllerReset, ResetCdc, ghosts, CdcType, Bit
  <2>7. ASSUME NEW v \in 0..7, SetDestination(v) PROVE IndInv'
    BY <2>7, <2>t, <2>o, <2>e, Unhanded DEF SetDestination, ghosts, CdcType, Bit
  <2>8. ASSUME PeripheralReset \/ GateArrayReset PROVE IndInv'
    <3>1. /\ cdc' = ResetCdc(cdc) /\ dma' = [active |-> 0, last |-> "OK"] /\ UNCHANGED <<start, total, handed>>
          /\ \/ UNCHANGED <<mode, destination>>
             \/ destination' = 0 /\ mode' = [m1 |-> 0, ret |-> 1, dmna |-> 0]
      BY <2>8 DEF PeripheralReset, GateArrayReset, ghosts
    <3>2. cdc' \in CdcType /\ cdc'.active = 0 /\ cdc'.end = 0 /\ cdc'.fifo = <<>> /\ cdc'.remaining = 0
      BY <3>1, <2>t, <2>e DEF ResetCdc, CdcType, Bit
    <3>3. /\ mode' \in [m1 : Bit, ret : Bit, dmna : Bit] /\ destination' \in 0..7
          /\ mode'.m1 = 0 => mode'.ret + mode'.dmna = 1
      BY <3>1, <2>t, <2>o DEF Bit
    <3>4. /\ dma' \in [active : Bit, last : {"OK", "WAIT", "DISABLED", "BAD_DESTINATION", "ODD_BYTE_COUNT"}]
          /\ dma'.active # 1
      BY <3>1 DEF Bit
    <3> QED BY <3>1, <3>2, <3>3, <3>4, Unhanded
  <2>9. ASSUME NEW dmna \in Bit, MainMode(dmna) PROVE IndInv'
    BY <2>9, <2>t, <2>o, <2>e, Unhanded DEF MainMode, ghosts, Bit
  <2>10. ASSUME NEW m1 \in Bit, NEW ret \in Bit, SubMode(m1, ret) PROVE IndInv'
    BY <2>10, <2>t, <2>o, <2>e, Unhanded DEF SubMode, ghosts, Bit
  <2>11. ASSUME TransferWord PROVE IndInv'
    <3>1. UNCHANGED <<mode, destination>> /\ dma.active = 1 /\ destination \in {PCM, PRG, WORD}
      BY <2>11, <2>o DEF TransferWord
    <3>2. dma' \in [active : Bit, last : {"OK", "WAIT", "DISABLED", "BAD_DESTINATION", "ODD_BYTE_COUNT"}]
      BY <2>11, <2>t DEF TransferWord, Bit
    <3>3. CASE UNCHANGED <<cdc, ghosts>>
      BY <3>1, <3>2, <3>3, <2>t, <2>o, Unhanded DEF ghosts
    <3>4. CASE HandOver /\ ~(Len(cdc.fifo) < 2) /\ cdc.active # 0
      <4>1. Len(cdc.fifo) \in Nat /\ Len(cdc.fifo) <= 2
        BY <3>4, <2>t, CdcFields DEF IndInv, Follows, Bit
      <4>2. Len(cdc.fifo) = 2
        BY <3>4, <4>1, Room
      <4>3. UNCHANGED <<start, total>>
        BY <3>4 DEF HandOver
      <4> QED BY <3>1, <3>2, <3>4, <4>2, <4>3, <2>t, <2>o, HandOverInv DEF IndInv, Types, TransferExact, OwnersKnown, Place
    <3> QED BY <2>11, <3>3, <3>4 DEF TransferWord
  <2>12. ASSUME UNCHANGED vars PROVE IndInv'
    BY <2>12, <2>t, <2>o, Unhanded DEF vars
  <2> QED BY <2>1, <2>2, <2>3, <2>4, <2>5, <2>6, <2>7, <2>8, <2>9, <2>10, <2>11, <2>12 DEF Next
<1> QED BY <1>1, <1>2, PTL DEF Spec

\* Every byte of a CDC transfer reaches its reader or its memory exactly
\* once and in order, for every size of counter and buffer.
THEOREM TransfersAreExact == Spec => []TransferExact
<1>1. IndInv => TransferExact
  BY DEF IndInv
<1> QED BY <1>1, Inductive, PTL

\* Word RAM always has one owner in 2M mode and an armed DMA engine always
\* has a destination of its own.
THEOREM OwnersAreKnown == Spec => []OwnersKnown
<1>1. IndInv => OwnersKnown
  BY DEF IndInv
<1> QED BY <1>1, Inductive, PTL
=============================================================================
