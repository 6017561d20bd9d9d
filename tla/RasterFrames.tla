---------------------------- MODULE RasterFrames ----------------------------
(***************************************************************************)
(* runner/video/genesis_raster_jobs.c: three raster frames shared without  *)
(* a lock between the scanline renderer, which builds one, and presenters, *)
(* which lease the published one.  A slot's state is WRITING or the number *)
(* of leases, and changes only by compare-and-swap or by its writer.       *)
(* Every atomic operation is a step of its own.  The data of a row is      *)
(* named by the serial of the frame it was captured for and its VDP.       *)
(***************************************************************************)
EXTENDS Integers, FiniteSets

CONSTANTS
  Reader,      \* presenters
  Vdp,         \* machines whose rows reach the capture
  Height,      \* rows of a frame
  MaxSerial,   \* bound on frames begun
  CountLimit,  \* INT_MAX: leases one slot can count
  None

Slot == 0..2
Line == 0..(Height - 1)
WRITING == -1

ASSUME ReadersFinite == IsFiniteSet(Reader) /\ Height \in Nat \ {0} /\ CountLimit \in Nat \ {0}
ASSUME NoneDistinct == None \notin Slot /\ None \notin Vdp /\ None \notin Reader

VARIABLES
  state, frame,           \* per slot: its counter and its frame
  published,              \* s_published: -1 or a slot
  build, owner, active, line, serial,
  enabled,                \* gvdp_hd_enable
  ppc, pub, probe,        \* the renderer: its place, the published index it read, the slot it tries
  pc, at, count,          \* each reader: its place, and its locals i and n
  snap                    \* history: the frame as it was when its lease was granted

producer == <<build, owner, active, line, serial, enabled, ppc, pub, probe>>
readers == <<pc, at, count, snap>>
vars == <<state, frame, published, producer, readers>>

EmptyFrame == [serial |-> 0, owner |-> None, valid |-> 0, captured |-> {}, bound |-> {},
               rows |-> [l \in Line |-> 0]]

Init ==
  /\ state = [s \in Slot |-> 0] /\ frame = [s \in Slot |-> EmptyFrame] /\ published = -1
  /\ build = None /\ owner = None /\ active = 0 /\ line = 0 /\ serial = 0 /\ enabled = 0
  /\ ppc = "idle" /\ pub = -1 /\ probe = 0
  /\ pc = [r \in Reader |-> "idle"] /\ at = [r \in Reader |-> 0]
  /\ count = [r \in Reader |-> 0] /\ snap = [r \in Reader |-> EmptyFrame]

-----------------------------------------------------------------------------
\* begin_row of line 0 and gvdp_hd_reset start by giving up an unfinished
\* frame: its valid flag, then its slot.
Freeing(next) == IF next = "begin" THEN "freebegin" ELSE "freeidle"

Cancel(next) ==
  /\ active' = 0
  /\ IF build = None
     THEN ppc' = next /\ UNCHANGED frame
     ELSE ppc' = Freeing(next) /\ frame' = [frame EXCEPT ![build].valid = 0]

BeginFrame(v) ==
  /\ ppc = "idle" /\ enabled = 1 /\ serial < MaxSerial
  /\ Cancel("begin") /\ owner' = v
  /\ UNCHANGED <<state, published, build, line, serial, enabled, pub, probe, readers>>

CancelFree(next) ==
  /\ ppc = Freeing(next)
  /\ state' = [state EXCEPT ![build] = 0] /\ build' = None /\ ppc' = next /\ line' = 0
  /\ UNCHANGED <<frame, published, owner, active, serial, enabled, pub, probe, readers>>

ReadPublished ==
  /\ ppc = "begin"
  /\ pub' = published /\ probe' = 0 /\ ppc' = "probe"
  /\ UNCHANGED <<state, frame, published, build, owner, active, line, serial, enabled, readers>>

\* Mutant: reserves whatever the counter says.
Probe_NoCompare ==
  /\ ppc = "probe" /\ probe \in Slot
  /\ IF probe # pub
     THEN state' = [state EXCEPT ![probe] = WRITING] /\ build' = probe /\ ppc' = "start" /\ UNCHANGED probe
     ELSE probe' = probe + 1 /\ UNCHANGED <<state, build, ppc>>
  /\ UNCHANGED <<frame, published, owner, active, line, serial, enabled, pub, readers>>

\* Mutant: the published frame is a candidate.
Probe_IgnoresPublished ==
  /\ ppc = "probe" /\ probe \in Slot
  /\ IF state[probe] = 0
     THEN state' = [state EXCEPT ![probe] = WRITING] /\ build' = probe /\ ppc' = "start" /\ UNCHANGED probe
     ELSE probe' = probe + 1 /\ UNCHANGED <<state, build, ppc>>
  /\ UNCHANGED <<frame, published, owner, active, line, serial, enabled, pub, readers>>

\* One attempt to reserve a slot that is not published and not leased.
Probe ==
  /\ ppc = "probe" /\ probe \in Slot
  /\ IF probe # pub /\ state[probe] = 0
     THEN state' = [state EXCEPT ![probe] = WRITING] /\ build' = probe /\ ppc' = "start" /\ UNCHANGED probe
     ELSE probe' = probe + 1 /\ UNCHANGED <<state, build, ppc>>
  /\ UNCHANGED <<frame, published, owner, active, line, serial, enabled, pub, readers>>

\* All slots are retained: this frame falls back to native output.
NoSlot ==
  /\ ppc = "probe" /\ probe \notin Slot
  /\ published' = -1 /\ ppc' = "idle" /\ pub' = -1 /\ probe' = 0
  /\ UNCHANGED <<state, frame, build, owner, active, line, serial, enabled, readers>>

StartFrame ==
  /\ ppc = "start"
  /\ serial' = serial + 1
  /\ frame' = [frame EXCEPT ![build] = [@ EXCEPT !.serial = serial + 1, !.owner = owner, !.valid = 1,
                                                 !.captured = {}, !.bound = {}]]
  /\ line' = 0 /\ active' = 1 /\ ppc' = "idle" /\ pub' = -1 /\ probe' = 0
  /\ UNCHANGED <<state, published, build, owner, enabled, readers>>

\* begin_row of a later line; another machine's rows are ignored.
BeginRow(v, l) ==
  /\ ppc = "idle" /\ enabled = 1 /\ build # None /\ l > line
  /\ IF v = owner /\ frame[build].valid = 1
     THEN active' = 1 /\ line' = l /\ UNCHANGED published
     ELSE active' = 0 /\ UNCHANGED line /\ published' = IF v = owner THEN -1 ELSE published
  /\ UNCHANGED <<state, frame, build, owner, serial, enabled, ppc, pub, probe, readers>>

\* gvdp_hd_ineligible: a row that the jobs cannot represent, or a veto after
\* the last row, revokes what is published.
Ineligible ==
  /\ ppc = "idle"
  /\ published' = -1 /\ active' = 0
  /\ frame' = IF build = None THEN frame ELSE [frame EXCEPT ![build].valid = 0]
  /\ UNCHANGED <<state, build, owner, line, serial, enabled, ppc, pub, probe, readers>>

Complete(f) == f.valid = 1 /\ f.captured = Line /\ f.bound = Line

\* maybe_publish, after f becomes the frame being built: free the slot, then
\* publish it.
MaybePublish(f) == ppc' = IF Complete(f) THEN "release" ELSE "idle"

EndRow ==
  /\ ppc = "idle" /\ build # None /\ active = 1
  /\ LET f == [frame[build] EXCEPT !.rows[line] = frame[build].serial,
                                   !.captured = @ \cup {line}]
     IN  frame' = [frame EXCEPT ![build] = f] /\ MaybePublish(f)
  /\ active' = 0
  /\ UNCHANGED <<state, published, build, owner, line, serial, enabled, pub, probe, readers>>

\* The native row sink binds the palette of a captured row.
BindPalette(l) ==
  /\ ppc = "idle" /\ build # None /\ frame[build].valid = 1 /\ l \in frame[build].captured
  /\ LET f == [frame[build] EXCEPT !.bound = @ \cup {l}]
     IN  frame' = [frame EXCEPT ![build] = f] /\ MaybePublish(f)
  /\ UNCHANGED <<state, published, build, owner, active, line, serial, enabled, pub, probe, readers>>

ReleaseSlot ==
  /\ ppc = "release"
  /\ state' = [state EXCEPT ![build] = 0] /\ active' = 0 /\ ppc' = "publish"
  /\ UNCHANGED <<frame, published, build, owner, line, serial, enabled, pub, probe, readers>>

Publish ==
  /\ ppc = "publish"
  /\ published' = build /\ build' = None /\ ppc' = "idle" /\ line' = 0
  /\ UNCHANGED <<state, frame, owner, active, serial, enabled, pub, probe, readers>>

\* gvdp_hd_reset, called by a restored state, a new machine or a toggle.
Reset(on) ==
  /\ ppc = "idle"
  /\ published' = -1 /\ Cancel("idle") /\ owner' = None /\ enabled' = on
  /\ UNCHANGED <<state, build, line, serial, pub, probe, readers>>

-----------------------------------------------------------------------------
Step(r, next) == pc' = [pc EXCEPT ![r] = next]

\* gvdp_hd_acquire.
Acquire(r) ==
  /\ pc[r] \in {"idle", "retry"}
  /\ IF published = -1 THEN Step(r, "idle") /\ at' = [at EXCEPT ![r] = 0]
                       ELSE Step(r, "count") /\ at' = [at EXCEPT ![r] = published]
  /\ UNCHANGED <<state, frame, published, producer, count, snap>>

ReadCount(r) ==
  /\ pc[r] = "count"
  /\ count' = [count EXCEPT ![r] = state[at[r]]]
  /\ Step(r, IF state[at[r]] = WRITING \/ state[at[r]] = CountLimit THEN "retry" ELSE "swap")
  /\ UNCHANGED <<state, frame, published, producer, at, snap>>

Swap(r) ==
  /\ pc[r] = "swap"
  /\ IF state[at[r]] = count[r]
     THEN state' = [state EXCEPT ![at[r]] = count[r] + 1] /\ Step(r, "check")
     ELSE UNCHANGED state /\ Step(r, "retry")
  /\ UNCHANGED <<frame, published, producer, at, count, snap>>

\* Still published, and (valid, below) not revoked: the lease is granted.
Check(r) ==
  /\ pc[r] = "check"
  /\ Step(r, IF published = at[r] THEN "valid" ELSE "back")
  /\ UNCHANGED <<state, frame, published, producer, at, count, snap>>

Valid(r) ==
  /\ pc[r] = "valid"
  /\ IF frame[at[r]].valid = 1
     THEN Step(r, "lease") /\ snap' = [snap EXCEPT ![r] = frame[at[r]]]
     ELSE Step(r, "back") /\ UNCHANGED snap
  /\ UNCHANGED <<state, frame, published, producer, at, count>>

\* gvdp_hd_release, by the presenter when its upload is done, or by acquire.
Release(r) ==
  /\ pc[r] \in {"lease", "back"}
  /\ count' = [count EXCEPT ![r] = state[at[r]]]
  /\ snap' = [snap EXCEPT ![r] = EmptyFrame]
  /\ Step(r, IF pc[r] = "lease" THEN "drop" ELSE "dropback")
  /\ UNCHANGED <<state, frame, published, producer, at>>

\* Mutant: decrements without comparing.
Drop_Stores(r) ==
  /\ pc[r] \in {"drop", "dropback"}
  /\ state' = [state EXCEPT ![at[r]] = count[r] - 1]
  /\ Step(r, IF pc[r] = "drop" THEN "idle" ELSE "retry")
  /\ at' = [at EXCEPT ![r] = 0] /\ count' = [count EXCEPT ![r] = 0]
  /\ UNCHANGED <<frame, published, producer, snap>>

Drop(r) ==
  /\ pc[r] \in {"drop", "dropback"}
  /\ IF count[r] > 0 /\ state[at[r]] # count[r]
     THEN count' = [count EXCEPT ![r] = state[at[r]]] /\ UNCHANGED <<state, pc, at>>
     ELSE /\ state' = IF count[r] > 0 THEN [state EXCEPT ![at[r]] = count[r] - 1] ELSE state
          /\ Step(r, IF pc[r] = "drop" THEN "idle" ELSE "retry")
          /\ at' = [at EXCEPT ![r] = 0] /\ count' = [count EXCEPT ![r] = 0]
  /\ UNCHANGED <<frame, published, producer, snap>>

-----------------------------------------------------------------------------
ProducerStep ==
  \/ \E v \in Vdp : BeginFrame(v) \/ \E l \in Line : BeginRow(v, l)
  \/ \E next \in {"begin", "idle"} : CancelFree(next)
  \/ ReadPublished \/ Probe \/ NoSlot \/ StartFrame
  \/ Ineligible \/ EndRow \/ (\E l \in Line : BindPalette(l)) \/ ReleaseSlot \/ Publish
  \/ \E on \in {0, 1} : Reset(on)

ReaderStep(r) ==
  Acquire(r) \/ ReadCount(r) \/ Swap(r) \/ Check(r) \/ Valid(r) \/ Release(r) \/ Drop(r)

Next == ProducerStep \/ \E r \in Reader : ReaderStep(r)

Spec == Init /\ [][Next]_vars

-----------------------------------------------------------------------------
\* Places of a reader that is counted in its slot.
Holding == {"check", "valid", "lease", "back", "drop", "dropback"}
Holders(s) == {r \in Reader : pc[r] \in Holding /\ at[r] = s}

\* "A published frame never mutates while acquired": what a presenter holds is
\* what it was given, complete and valid, whatever the renderer does meanwhile
\* and however late its compare-and-swap came.
LeaseImmutable ==
  \A r \in Reader : pc[r] = "lease" => frame[at[r]] = snap[r] /\ Complete(frame[at[r]])

\* The published frame is complete, and every row of it was captured for it:
\* none is left over from the slot's former frame.
PublishedWhole ==
  published # -1 => /\ Complete(frame[published])
                    /\ \A l \in Line : frame[published].rows[l] = frame[published].serial

\* The counter of a slot is exactly its leases: none is lost, so a slot that
\* is not leased can be used again, and a slot being written is not leased.
LeasesCounted ==
  \A s \in Slot : IF state[s] = WRITING THEN Holders(s) = {} /\ build = s
                                        ELSE state[s] = Cardinality(Holders(s))

=============================================================================
