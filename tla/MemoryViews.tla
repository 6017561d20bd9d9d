---------------------------- MODULE MemoryViews ----------------------------
(***************************************************************************)
(* Where an access of the Sega CD's two processors lands: byte accesses    *)
(* (segacd_read8/write8), word accesses resolved once (read16/write16),    *)
(* regions a processor may cache for one operation (segacd_memory_region)  *)
(* and code spans (segacd_code_span).  A location is <<memory, offset,     *)
(* lane>>, lane 0 for a whole byte and 1 or 2 for the nibbles of the dot   *)
(* view of Word RAM.                                                       *)
(***************************************************************************)
EXTENDS Integers

CONSTANTS
  Points,      \* even addresses to start from
  Protections, \* write-protect register values
  Banks,       \* program RAM bank register values
  Priorities   \* dot priority modes

VARIABLES
  r,  \* registers: m1, ret, dmna, priority (memory_mode), run (the sub processor
      \* is runnable), bank (prg_bank), protect (write_protect)
  a   \* the address looked at

vars == <<r, a>>

BIOS == 131072    \* SEGACD_BIOS_BYTES
PRG == 524288     \* SEGACD_PRG_BYTES
WORD == 262144    \* SEGACD_WORD_BYTES
MainWord == 2097152   \* 0x200000
SubDots == 524288     \* 0x080000
SubWord == 786432     \* 0x0C0000
SubWordEnd == 917504  \* 0x0E0000
Backup == 16646144    \* 0xFE0000
Pcm == 16711680       \* 0xFF0000
OddBytes == 16384     \* addresses of a memory on odd bytes only

-----------------------------------------------------------------------------
\* Word RAM: 1M banks are interleaved by words; the cell view is five bands
\* of column-major 8x8 cells.
Word1M(o, bank) == ((o \div 2) % 65536) * 4 + bank * 2 + (o % 2)

Band(o) ==
  IF o < 65536 THEN [base |-> 0, shift |-> 5] ELSE IF o < 98304 THEN [base |-> 65536, shift |-> 4]
  ELSE IF o < 114688 THEN [base |-> 98304, shift |-> 3] ELSE IF o < 122880 THEN [base |-> 114688, shift |-> 2]
  ELSE [base |-> 122880, shift |-> 2]

\* The bits of n from one position up to another.
Bits(n, from, to) == ((n \div 2^from) % 2^(to - from)) * 2^from

\* Mutant: the row field is one bit short.
CellToLinear_ShortRow(o) ==
  LET b == Band(o)
      n == o - b.base
  IN b.base + Bits(n, 2, 4 + b.shift) * 64 + (n \div 2^(5 + b.shift)) * 4 + (n % 4)

\* The bit permutation the build uses.
CellToLinear(o) ==
  LET b == Band(o)
      n == o - b.base
  IN b.base + Bits(n, 2, 5 + b.shift) * 64 + (n \div 2^(5 + b.shift)) * 4 + (n % 4)

\* The division it stands for (SEGACD_CELL_PERMUTATION off).
CellByDivision(o) ==
  LET b == Band(o)
      n == o - b.base
      rows == 2^b.shift
      tile == n \div 32
  IN b.base + ((tile % rows) * 8 + (n % 32) \div 4) * 256 + (tile \div rows) * 4 + (n % 4)

WordAddress(cpu, x) ==
  IF cpu = "MAIN"
  THEN IF x < MainWord \/ x >= MainWord + WORD THEN <<"UNMAPPED", 0, 0>>
       ELSE IF r.m1 = 0 THEN IF r.ret = 0 THEN <<"WAIT", 0, 0>> ELSE <<"OK", x - MainWord, 0>>
       ELSE LET o == (x - MainWord) % 131072
            IN <<"OK", Word1M(IF x >= MainWord + 131072 THEN CellToLinear(o) ELSE o, r.ret), 0>>
  ELSE IF r.m1 = 0
       THEN IF x < SubDots \/ x >= SubWord THEN <<"UNMAPPED", 0, 0>>
            ELSE IF r.ret = 1 THEN <<"WAIT", 0, 0>> ELSE <<"OK", x - SubDots, 0>>
       ELSE IF x >= SubDots /\ x < SubWord THEN <<"OK", Word1M((x - SubDots) \div 2, 1 - r.ret), 1 + (x % 2)>>
       ELSE IF x >= SubWord /\ x < SubWordEnd THEN <<"OK", Word1M(x - SubWord, 1 - r.ret), 0>>
       ELSE <<"UNMAPPED", 0, 0>>

-----------------------------------------------------------------------------
\* The answer and the location of an access; "none" takes no effect.
At(memory, offset, lane) == <<"OK", <<memory, offset, lane>>>>
Nowhere == At("none", 0, 0)
Refused(answer) == <<answer, <<"none", 0, 0>>>>

WordRam(cpu, x, write) ==
  LET w == WordAddress(cpu, x)
  IN IF w[1] # "OK" THEN Refused(w[1])
     ELSE IF write /\ w[3] # 0 /\ r.priority = 3 THEN Refused("UNMAPPED")
     ELSE At("word", w[2], w[3])

ProgramWindow(x) == IF r.run = 1 THEN Refused("WAIT") ELSE At("prg", (r.bank * BIOS + x) - BIOS, 0)

InOdd(x, base) == x >= base /\ x < base + OddBytes

Byte(cpu, x, write) ==
  IF cpu = "MAIN"
  THEN IF x < BIOS THEN IF write THEN Nowhere ELSE IF x \in {114, 115} THEN At("hint", x - 114, 0) ELSE At("bios", x, 0)
       ELSE IF x < 2 * BIOS THEN ProgramWindow(x) ELSE WordRam(cpu, x, write)
  ELSE IF x < PRG THEN IF write /\ x < r.protect * 512 THEN Nowhere ELSE At("prg", x, 0)
       ELSE IF InOdd(x, Backup) THEN IF x % 2 = 1 THEN At("backup", (x - Backup) \div 2, 0) ELSE Nowhere
       ELSE IF InOdd(x, Pcm) THEN IF x % 2 = 1 THEN At("pcm", (x - Pcm) \div 2, 0) ELSE Nowhere
       ELSE WordRam(cpu, x, write)

\* A word access resolves its even address and takes both lanes from there.
Pair(hi) == <<hi, <<hi[1], <<hi[2][1], hi[2][2] + 1, hi[2][3]>>>>>>

Word(cpu, x, write) ==
  IF cpu = "MAIN"
  THEN IF x < BIOS THEN IF write THEN <<Nowhere, Nowhere>>
                        ELSE IF x = 114 THEN Pair(At("hint", 0, 0)) ELSE Pair(At("bios", x, 0))
       ELSE IF x < 2 * BIOS
            THEN IF r.run = 1 THEN <<Refused("WAIT"), Refused("WAIT")>> ELSE Pair(ProgramWindow(x))
       ELSE LET w == WordRam(cpu, x, write) IN IF w[1] = "OK" THEN Pair(w) ELSE <<w, w>>
  ELSE IF x < PRG THEN IF write /\ x < r.protect * 512 THEN <<Nowhere, Nowhere>> ELSE Pair(At("prg", x, 0))
       ELSE IF InOdd(x, Backup) THEN <<Nowhere, At("backup", (x - Backup) \div 2, 0)>>
       ELSE IF InOdd(x, Pcm) THEN <<Nowhere, At("pcm", (x - Pcm) \div 2, 0)>>
       ELSE LET w == WordRam(cpu, x, write)
            IN IF w[1] # "OK" THEN <<w, w>>
               ELSE IF w[2][3] = 0 THEN Pair(w)
               ELSE <<At("word", w[2][2], 1), At("word", w[2][2], 2)>>

-----------------------------------------------------------------------------
\* The ordinary memory around x, as <<address, bytes, memory, offset>>.
Extent(cpu, x, bytes, write) ==
  IF cpu = "MAIN" /\ x < BIOS
  THEN IF write \/ (x < 116 /\ x + bytes > 114) THEN {}
       ELSE IF x < 114 THEN {<<0, 114, "bios", 0>>} ELSE {<<116, BIOS - 116, "bios", 116>>}
  ELSE IF cpu = "MAIN" /\ x < 2 * BIOS
  THEN IF r.run = 1 \/ r.bank >= 4 THEN {} ELSE {<<BIOS, BIOS, "prg", r.bank * BIOS>>}
  ELSE IF cpu = "SUB" /\ x < PRG
  THEN LET low == IF write THEN r.protect * 512 ELSE 0 IN {<<low, PRG - low, "prg", low>>}
  ELSE IF r.m1 = 1 THEN {}
  ELSE IF cpu = "MAIN" /\ x >= MainWord /\ x < MainWord + WORD /\ r.ret = 1 THEN {<<MainWord, WORD, "word", 0>>}
  ELSE IF cpu = "SUB" /\ x >= SubDots /\ x < SubWord /\ r.ret = 0 THEN {<<SubDots, WORD, "word", 0>>}
  ELSE {}

\* Mutant: the request is only checked at its first byte.
Region_Start(cpu, x, bytes, write) == {v \in Extent(cpu, x, 1, write) : x >= v[1] /\ x < v[1] + v[2]}

\* segacd_memory_region grants the whole extent when the request lies in it.
Region(cpu, x, bytes, write) ==
  {v \in Extent(cpu, x, bytes, write) : x >= v[1] /\ x < v[1] + v[2] /\ bytes <= v[2] - (x - v[1])}

\* segacd_code_span grants the bytes asked for.
CodeSpan(cpu, x, bytes) ==
  IF cpu = "MAIN" /\ x < BIOS /\ bytes <= BIOS - x
  THEN IF x < 116 /\ x + bytes > 114 THEN {} ELSE {<<x, bytes, "bios", x>>}
  ELSE IF cpu = "MAIN" /\ x >= BIOS /\ x < 2 * BIOS /\ bytes <= 2 * BIOS - x
  THEN IF r.run = 1 \/ r.bank >= 4 THEN {} ELSE {<<x, bytes, "prg", (r.bank * BIOS + x) - BIOS>>}
  ELSE IF cpu = "SUB" /\ x < PRG /\ bytes <= PRG - x THEN {<<x, bytes, "prg", x>>}
  ELSE LET w == WordAddress(cpu, x)
       IN IF r.m1 = 0 /\ w[1] = "OK" /\ bytes <= WORD - w[2] THEN {<<x, bytes, "word", w[2]>>} ELSE {}

-----------------------------------------------------------------------------
\* segacd_reset: Word RAM belongs to the main processor.
Init ==
  /\ r = [m1 |-> 0, ret |-> 1, dmna |-> 0, priority |-> 0, run |-> 0, bank |-> 0, protect |-> 0]
  /\ a \in Points

\* mode_write by the main processor: the bank, and a request to hand over.
MainMode(bank, dmna) ==
  r' = IF r.m1 = 1 THEN [r EXCEPT !.bank = bank, !.dmna = IF dmna = 0 THEN 1 ELSE @]
       ELSE IF dmna = 1 THEN [r EXCEPT !.bank = bank, !.ret = 0, !.dmna = 1]
       ELSE [r EXCEPT !.bank = bank]

\* mode_write by the sub processor: the mode, the priority, and the hand over.
SubMode(m1, priority, ret) ==
  r' = IF m1 = 1 THEN [r EXCEPT !.m1 = 1, !.priority = priority, !.ret = ret, !.dmna = 0]
       ELSE IF ret = 1 THEN [r EXCEPT !.m1 = 0, !.priority = priority, !.ret = 1, !.dmna = 0]
       ELSE IF r.m1 = 1 THEN [r EXCEPT !.m1 = 0, !.priority = priority, !.ret = 0, !.dmna = 1]
       ELSE [r EXCEPT !.priority = priority]

\* reg_write: main_control and write_protect, both the main processor's.
Control(run) == r' = [r EXCEPT !.run = run]
Protect(p) == r' = [r EXCEPT !.protect = p]

\* A 1M view is looked at word by word.
Walk ==
  /\ r.m1 = 1 /\ r.run = 1 /\ r.bank = 0 /\ r.protect = 0 /\ r.dmna = 0 /\ r.priority = 0
  /\ \/ a >= SubDots /\ a < SubWordEnd
     \/ a >= MainWord /\ a < MainWord + WORD
  /\ a' = a + 2 /\ UNCHANGED r

RegisterWrite ==
  \/ \E bank \in Banks, dmna \in {0, 1} : MainMode(bank, dmna)
  \/ \E m1, ret \in {0, 1}, priority \in Priorities : SubMode(m1, priority, ret)
  \/ \E run \in {0, 1} : Control(run)
  \/ \E p \in Protections : Protect(p)

Next == (a \in Points /\ RegisterWrite /\ UNCHANGED a) \/ Walk

Spec == Init /\ [][Next]_vars

-----------------------------------------------------------------------------
CPUs == {"MAIN", "SUB"}

\* A granted interval <<address, bytes, memory, offset>> is what byte
\* accesses of its ends, and of the bytes asked for, reach.
Agrees(v, cpu, x, bytes, write) ==
  \A y \in {v[1], (v[1] + v[2]) - 1} \cup x..(x + bytes - 1) :
    Byte(cpu, y, write) = At(v[3], v[4] + (y - v[1]), 0)

\* One program sees one memory whichever path its access takes: the lanes of
\* a word access (read16, write16), a cached region (segacd_memory_region) and
\* a code span (segacd_code_span) are exactly the bytes the byte path
\* (read8, write8) reaches, refusals and write protection included.  Regions
\* and spans are compared at the moment they are granted.
OneMemory ==
  \A cpu \in CPUs, write \in BOOLEAN :
    /\ Word(cpu, a, write) = <<Byte(cpu, a, write), Byte(cpu, a + 1, write)>>
    /\ \A x \in {a, a + 1}, bytes \in {1, 2, 4} : \A v \in Region(cpu, x, bytes, write) : Agrees(v, cpu, x, bytes, write)
    /\ \A bytes \in {2, 6} : \A v \in CodeSpan(cpu, a, bytes) : Agrees(v, cpu, a, bytes, FALSE)

\* The inverse of the cell view, from the manual's layout.
LinearToCell(p) ==
  LET b == Band(p)
      n == p - b.base
      line == n \div 256
      column == (n % 256) \div 4
  IN b.base + (column * 2^b.shift + line \div 8) * 32 + (line % 8) * 4 + (n % 4)

\* Word RAM holds every byte once: the bit permutation of cell_to_linear is
\* the manual's division and loses no byte, and in 1M mode word_address never
\* shows the two processors the same byte, whichever view each one uses.
WordRamPartition ==
  /\ a >= MainWord /\ a < MainWord + WORD =>
       LET o == (a - MainWord) % 131072
       IN CellToLinear(o) = CellByDivision(o) /\ LinearToCell(CellToLinear(o)) = o
  /\ \A cpu \in CPUs : LET w == WordAddress(cpu, a) IN
       w[1] = "OK" => /\ w[2] < WORD
                      /\ r.m1 = 1 => (w[2] \div 2) % 2 = IF cpu = "MAIN" THEN r.ret ELSE 1 - r.ret
=============================================================================
