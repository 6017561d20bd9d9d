-------------------------- MODULE MCDeviceClock --------------------------
(* A second of 22 clocks: frames at 8, 15 and 22 and twelve samples, four  *)
(* to a sector.  Eight audio sectors between two of data: silent, constant *)
(* and varying ones.                                                       *)
EXTENDS DeviceClock

MCToc == <<[index00 |-> 0, start |-> 0, data |-> 1], [index00 |-> 1, start |-> 2, data |-> 0],
           [index00 |-> 8, start |-> 9, data |-> 1]>>
MCSample == [lba \in 0..9 |-> CASE lba % 3 = 0 -> <<-900, 32767, -32768, 900>>
                                [] lba % 3 = 1 -> <<0, 0, 0, 0>> [] OTHER -> <<700, 700, 700, 700>>]

MCDiscs == {[lba \in 0..9 |-> "OK"],
            [lba \in 0..9 |-> CASE lba = 3 -> "MISSING" [] lba \in {0, 8} -> "UNSUPPORTED" [] OTHER -> "OK"]}

Packet(c, a) == [form |-> "OK", command |-> c, arg |-> a, inward |-> 0]
Inward(n) == [Packet(10, n) EXCEPT !.inward = 1]
AllPackets ==
  {Packet(c, 0) : c \in {0, 1, 5, 8, 12, 13}}
  \cup {Packet(2, 4), Packet(4, 5), Packet(10, 2), [Packet(0, 0) EXCEPT !.form = "CHECKSUM"]}

\* The sub processor has set up a DMA of four bytes to Word RAM and the
\* decoder, and the fader has come to a field.
Start(status, lba, at) ==
  [ResetDevices([Drive(status) EXCEPT !.hock = 1, !.frames = 1, !.lba = lba]) EXCEPT
     !.cdc = [Idle EXCEPT !.douten = 1, !.dbc = 3], !.destination = 7, !.dec.enabled = 1,
     !.mode = [m1 |-> 0, ret |-> 0, dmna |-> 1], !.cdda.field = at, !.cdda.target = at]

\* The drive plays from data or from audio, or pauses.
Starts(field) == {Start("PLAY", 0, field), Start("PLAY", 2, field), Start("PAUSE", 2, field)}

\* One program uses every device for 9 clocks, from the fader's unity; one
\* the drive for almost two seconds, while the fader falls to silence; one
\* fades the audio up, and down again, around the low codes and around unity.
MCPrograms ==
  [devices |-> [packets |-> AllPackets, faders |-> {1021}, reloads |-> {0, 1},
                drawings |-> {[clocks |-> 2, lines |-> 2], [clocks |-> 1, lines |-> 0]}, dma |-> TRUE, until |-> 9],
   player |-> [packets |-> {Packet(3, 4), Packet(6, 0), Packet(7, 0), Inward(4)}, faders |-> {0},
               reloads |-> {}, drawings |-> {}, dma |-> FALSE, until |-> 40],
   fader |-> [packets |-> {}, faders |-> {11, 1030},
              reloads |-> {}, drawings |-> {}, dma |-> FALSE, until |-> 24]]

MCInits == [devices |-> Starts(Full), player |-> Starts(9),
            fader |-> {Start("PLAY", 2, 2), Start("PLAY", 2, 1020)}]
=============================================================================
