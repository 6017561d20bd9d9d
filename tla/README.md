# Formal models of the Genesis / Sega CD recompilation runtime

TLA+ models of the runtime in `runner/`, TLC configurations that check them on
small instances, and TLAPS proofs of the results that hold for every size.
`PROJECT.json` lists the runs, the mutants that show each property can fail,
the source lines behind every definition, the hazards and the theorems.

## The system and its parts

The repository turns a Mega Drive or Sega CD program into C and links it with a
host runtime.  The recompiler is a batch program; everything that runs
concurrently, keeps state between calls or can fail half-way is in `runner/`.

| Part | Source | State | Operations | What is hard |
| --- | --- | --- | --- | --- |
| Engine worker | `engine_worker.c` | one job slot, stop flag, mutex, one condition variable | create, start, try_start, busy, join, destroy; the thread | the gap between join and publication, spurious wakeups |
| Atomic file | `host_atomic_file.c` | destination and temporaries | store | each system call may fail; concurrent callers; power loss |
| Battery save | `persist_writer.c`, `main.c`, `cd/standalone.c` | committed, pending and live image, dirty and in-flight flags | autosave tick, flush, completion, exits of the two frame loops | hooks that edit memory, failed writes and resets, netplay roles |
| Save states | `host_state.h`, `local_states.c`, `main.c` | pending request, writer thread, slots, previews | save, load, tick, collect, menu, shutdown | deferred capture, rollback of a failed load |
| Rewind history | `local_states.c` | circular table beside a snapshot ring | note_frame, browse, accept | two structures kept in step |
| Host streams | `host_stream.c`, `audio.c` | two buffers, one in flight | write, flush, WAV header | short writes |
| Raster frames | `video/genesis_raster_jobs.c` | three slots with lease counters, published index | begin/end row, publish, acquire, release | lock-free, late readers |
| Replay report | `replay_writer.c`, `diagnostic_replay.c` | byte ring between simulation and disk thread, first error | enqueue, worker loop, destroy | wrap, overflow, simulation that hangs |
| Sega CD gate array | `cd/segacd.c` | memory mode, protection, interrupts, timer | register and memory accesses of two processors | ownership of Word RAM, many views of the same bytes |
| CDC and DMA | `cd/cdc.c`, `cd/dma.c` | counter, address, FIFO; DMA engine | trigger, host read, DMA word, abort | refused words, changes under way |
| Drive, CD audio, fader | `cd/cdd.c`, `cd/cdda.c`, `cd/fader.c` | deadlines, position; queue, sample clock, ramp | commands, frames; push, advance | coinciding deadlines, two roundings that must meet |
| Coordinator | `cd/segacd_coordinator.c` | two processor clocks, device clock, WAIT on the stack | step, run_until, register spans | batches must not be visible |
| Machine, glue, fiber | `cd/machine.c`, `glue.c`, `fiber_compat.c`, `sim_step.c`, `video/*` | guest fiber, raster position, interrupts | run a frame, deliver interrupts | yields inside the guest |
| Netplay | `netplay/*.c`, `rb_state.c` | session, inputs, snapshots | pump, roll back | external driver |
| Audio | `audio/*.c`, `cd/audio_mix.c` | stamped event queue, sample rings | push, drain, mix | timing |
| Recompiler, tools | `recompiler/`, `tools/` | none between calls | translate | batch |

The parts meet like this.  The frame loop of `main.c` runs the guest, then asks
the battery save and the save states for their periodic work; both hand files to
threads, the first through the engine worker and the atomic file store.  The
scanline renderer publishes raster frames to presenters on other threads.  On
the Sega CD the coordinator interleaves two processors and lets the devices
(timer, CDC, DMA, graphics, drive, CD audio, PCM) catch up with them.

## Modules

Each component has a module; `MC*` modules give constants for TLC; `*Proofs`
modules hold the theorems.  Large components are composed through the abstract
specification of what they use: `PersistWriter`, and with it `SramSave` and
`BackupSave`, use the worker as `SerialWorker` and the store as `AtomicStore`,
which `EngineWorker` and `AtomicFile` are shown to implement.

**SerialWorker, EngineWorker** (`engine_worker.c`).  A step is one critical
section, from lock (or return of `SDL_CondWait`) to unlock (or the next wait).
`wpc` and `opc` are the places of the worker thread and of the owner, `asleep`
the sleepers on the condition variable.  `start` and `destroy` release the mutex
between join and publication, so `opc = "publish"` and `"stop"` are states.  A
NULL worker (single CPU, or failed allocation) runs jobs inline.

**AtomicStore, AtomicFile** (`host_atomic_file.c`).  Every system call of
`genesis_atomic_file_store` is a step that may fail.  A file is an image with
how far it got to the disk (`written`, `synced`).  The temporary's name is the
address of an allocation and an attempt number, so an address that is reused
can meet a stale temporary.  `PowerLoss` tears what was not synchronised and may
undo the last rename (the code does not synchronise the directory).

**PersistWriter, SramSave, BackupSave** (`persist_writer.c`, `main.c`,
`cd/standalone.c`).  `PersistWriter` is the writer's state and operations.
`SramSave` is the cartridge's autosave with its hash and settle time, the
synchronous flush, the completion callback with the game's hook (which may edit
the memory), and the frame loop with its exits: quit, script EXIT, end of a
match, and the cold reset after it.  `pc` is the place in the loop, `role` the
netplay role.  The reset may fail, and its caller does not look: `KeepMachine`
goes on with the machine as it was, and the history `stale` marks such a
session.  `BackupSave` is the Sega CD's loop, which submits without force (so
the writer compares with its committed image), flushes with
`genesis_persist_flush` and turns the outcome into an exit code.
`MCBatterySaves` checks the two in one run, one or the other from the start.

**SaveSlots** (`host_state.h`, `main.c`, `local_states.c`).  A modern game's
save is a request that waits for a resumable boundary, is captured there, and
finished by a thread (`Patch`, `Replace`, `Announce`); a legacy game opens its
slot, which empties it, and writes in place (`LegacyOpen`, `LegacyWrite`).  A
load is checked (`LoadCheck`), then the machine's sections are read over the
live machine (`ReadMachine`), then the adapter's state is applied (`ApplyHost`);
a failure goes to `Undo`, which reads the backup and may fail itself: a modern
load ignores that, a legacy load aborts the process.  The guest is two versions,
adapter state and machine, so a half-applied load shows; a machine read in part
is `Torn`.  `Kill` may come at any step.

**RasterFrames** (`genesis_raster_jobs.c`).  Every atomic load, store and
compare-and-swap is a step.  A row is named by the serial of the frame it was
captured for.

**ReplayWriter** (`replay_writer.c`).  A ring of bytes, each named by its
command and offset; the producer writes byte by byte and then publishes
`write_pos`; the worker decodes, performs and releases.  Both report files are
fully buffered, so any write may spill what its buffer holds (`Spill`), and a
command that fails may have spilled too (`Fails`).

**Cdc, CdcTransfer** (`cdc.c`, `dma.c`, `mode_write` and the CDC registers of
`segacd.c`).  `Cdc` has the controller's operators, `CdcTransfer` the accesses of
both processors, the DMA engine's word and Word RAM's changes of hands.  Bytes
are named by their place in the buffer; ghosts record what was handed over.

**CdDrive, Cdda, DeviceClock** (`cdd.c`, `cdda.c`, `fader.c`, `stamp.c`,
`rf5c164.c`, `segacd_advance_io`).  Operators on the drive and on the CD-audio
source, and the machine that advances all devices over spans.  `Advance`
follows the code: cut the span at the next event, run PCM, audio, decoder,
graphics, DMA and drive, then the timer.  `EventClocks` is the coordinator's
`event_time`.  A skip's spiral geometry is a fixed number of sectors per turn;
packets are the numbers their digits encode.

**MemoryViews** (`segacd.c`).  Where an access lands, by each of the four ways
the code resolves it: bytes, words, regions and code spans.  Regions are
compared when they are granted; the processor core that keeps one is not in the
repository.  `MCGateArray` checks the views and the transfers in one run.

**Coordinator** (`segacd_coordinator.c`).  One operator per function on a record
that holds both processors, the devices' clock and events.  Two copies run the
same programs: `exact` without effect metadata (it steps) and `fast` with it (it
retires spans of register instructions).  A program is a sequence of
instructions with a kind and a cost, the last one its interrupt handler.  The
instruction core is generated or external: `Execute` is modelled from how the
coordinator uses it.  `Blocked` are the accesses answered WAIT; a WAIT given up
keeps its reason in `waitResult` (the other processor waits too, it is held, it
failed, or the limit was reached), while the instruction just fails.  The lookup
cache is taken to be warm; flow spans count as spans.

## Runs

| Run | Checks | Bounds, and why they suffice |
| --- | --- | --- |
| `engine_worker` | jobs run once, in order; idle answers are safe; calls return; implements `SerialWorker` | 4 jobs: one running, one in the gap, restart after destroy |
| `atomic_file` | temporaries are private; implements `AtomicStore` | 2 callers, 2 images, 2 addresses, 2 attempts: a stale name is met and retried, and retries run out |
| `battery_saves` | cartridge: no seen change is forgotten; a guest's file is left alone; notifications are about durable bytes; a settled change is written.  Sega CD: exit code 0 means saved | 3 images (live, in flight and committed all differ), 1 settle frame, a submission every other frame, 1 kill |
| `sram_host_quit`, `sram_guest_reset` | *violations*: see Findings | as above |
| `save_slots` | answers, files and previews agree; loads are whole and see accepted saves; requests are answered | 2 requests on a slot and another path, 2 frames of patience, any number of kills |
| `raster_frames` | leased frames do not change; the published frame is whole; counters are exact | 2 presenters, 1 VDP, 2 rows, 4 frames over 3 slots |
| `replay_writer` | commands arrive intact; the report is truthful; the last input is flushed | ring of 6 bytes, header 2, payloads 0, 3 (fills the ring), 4 (too large), 4 commands: a header and a payload that straddle the end, and a full ring |
| `gate_array` | transfers: bytes are handed over once and in order; owners are known.  Views: all access paths reach the same bytes; no byte is shown to both processors | 1 to 6 bytes, a buffer of 9, two start places, one of which wraps; the real addresses: edges of every aperture, and every word of the 1M views |
| `device_clock` | spans compose; the next event is complete; CD audio is fed; reserved spans are exact | second of 22 clocks, 3 frames, 12 samples; 2 accesses at any clock; one program over all devices for 9 clocks, one playing for 40 while it fades out, one fading for 24 with the fader's real field: up from 2 and from 1020, across the low codes and unity (1024) into the gains that clip, and down again |
| `coordinator` | batches are invisible; accesses are in clock order | 1,458 program pairs, calls of 2 and 7 clocks up to clock 24, timer 7, line 11 |
| `wait_events` | *violation*: see Findings | as above, with the Z80 |

The clocks of `device_clock` and `coordinator` are scaled down but keep what the
arithmetic depends on: frames and samples per second do not divide the clock,
frames times samples per sector is the sample rate, and the processor clocks
have a ratio with a remainder.  Both stop at a bound on the clock, and a
transfer of `gate_array` may stop at a programming error; deadlock is therefore
not checked there.

### What the mutants show

For each property a mutated definition stands beside the real one (comment
`Mutant:`): a dropped guard, a missing reset, a swapped order or an off-by-one
of the code it models.  With it TLC finds the property violated, so the property
depends on that code.

## Fairness

- `EngineWorker`: weak fairness of each thread's steps (both are scheduled by
  the host); the owner need not call anything, spurious wakeups need not happen.
- `SramSave` (`BackupSave` states no liveness): the worker and the loop run; frames keep coming while the loop
  runs (strong fairness of the guest frame or quitting, and of the tick, since
  branches of the loop may skip them now and then); a store does not fail for
  ever.  Without the last, no program could save.
- `SaveSlots`: the writer thread, a call in progress and shutdown run (weak);
  frames keep coming whenever the guest is not frozen (strong, as the slot
  browser and calls interrupt them).  Failing alternatives lie inside the fair
  actions, so success is never assumed.
- `ReplayWriter`: the worker runs, time passes and a call in `enqueue` returns.
  The simulation may hang between two calls for ever; the property is about that.

## Proofs

TLAPS proves, for every value of the constants allowed by the assumptions:

- `EngineWorkerProofs` (`MaxJobs \in Nat`): `JobsRunOnce`, `AnswersAreSafe`,
  `NothingOwedAtStop` and the refinement `ImplementsSerialWorker` (its safety
  part).  Invariant: the only accepted job that may not have run is
  the one in `w->task`, and a call that acts on an idle worker reaches its second
  critical section with `w->task` still NULL because one owner makes all calls.
- `AtomicFileProofs` (at least one attempt; `None` is no image or address):
  `DestinationWhole`, `TemporariesDisjoint` and the refinement `StoreIsAtomic`.
  Invariant: a caller's place determines the state of its temporary (`Position`),
  and live addresses are distinct; so a rename always moves a synchronised, whole
  image, which is the abstract store's one instant.
- `RasterFramesProofs` (finitely many presenters, any number of VDPs, rows and
  frames): `LeasedFramesImmutable`, `PublishedFramesWhole`, `LeasesAreCounted`.
  Invariant: a frame changes only in the slot marked WRITING; a slot is marked
  only when it counts no lease; a counter is the number of presenters between
  their swap and their release.
- `CdcTransferProofs` (counter not larger than the buffer): `TransfersAreExact`,
  `OwnersAreKnown`.  Invariant: the two-byte FIFO holds exactly the places that
  follow what was handed over, and DAC points behind them.

The invariants contain the modules' type invariants.  Only model-checked: every
liveness property (out of the prover's reach; so is the fairness of
`SerialWorker`), and `SramSave`, `BackupSave`, `SaveSlots`, `ReplayWriter` and `MemoryViews`; `Cdda`,
`DeviceClock` and `Coordinator` use recursive operators and stay with TLC.

## Findings

- `sram_host_quit`: a host that closes the window during a match loses the
  match's battery memory.  `main.c` and `docs/NETPLAY.md` say the host writes
  once per match; the tick that notices changes does not run online and the last
  flush looks only at its flag.
- `sram_guest_reset`: `main.c` says a guest never publishes the host's memory to
  its own file, and that without a captured cold machine a rematch is refused.
  The failure of `genesis_session_reset` after a match is ignored: the guest goes
  on offline with the host's memory live, and the autosave or the last flush
  stores it.  `GuestProgressKept`, which holds, leaves out exactly those offline
  sessions; `CleanMeansSaved` and `ChangeReachesFile` leave them out too, since
  the kept hash is about another file.
- `wait_events`: with the Z80 running, a WAIT for Word RAM whose owner is stopped
  until its timer is given up, although the comment in `bus_wait` says the event
  sources are advanced: `service_devices` caps the devices at the Z80's clock,
  which does not move during the access.

Also worth knowing: stopping the host clock (HOCK) while CD audio plays starves
it, and the underflow is a sticky device fault that stops the machine
(`AudioFed` names this case `gap`); after a power loss the last rename may be
undone, since the directory is not synchronised.  `host_state_load` does not look
at the result of its rollback, so a load that fails twice leaves a torn machine
(`MachineWhole` names this case `lost`).  A legacy save does not look at
`fclose`, so a slot announced as saved may lack its tail.  The report's rows are
ordered after the snapshots they name only at a flush; when the 64 KiB buffer of
the rows fills first, a row may be on disk before the end of its snapshot, which
is why `ReportTruthful` speaks of flushed rows.

## Not modelled

Signal processing, pixels, instruction semantics, parsers, diagnostic servers
and the recompiler: they are data or pure functions, or tests in themselves.
`PROJECT.json` lists each part with its reason.  Memory is sequentially
consistent in the lock-free models: `replay_writer.c` uses SDL's atomics, which
are full barriers; `genesis_raster_jobs.c` uses interlocked or C11 sequentially
consistent operations, and acquire and release on plain GCC builds, where the
model is stronger than the code asks for.

## Plan

1. Rewind history as an extension of `SaveSlots`; host streams over
   `SerialWorker`.
2. Diagnostic recording against playback above `ReplayWriter`: what is played
   back is what was recorded, whatever was dropped.
3. The Sega CD machine's frame schedule (68000, Z80, raster) above
   `Coordinator`, with the byte access of external masters; the audio mixer's
   reservation queue beside `Cdda`.
4. VDP ports and DMA; interrupt delivery and yields of the guest fiber; the
   stamped audio event queue; the netplay timeline.
5. Proofs: `ReplayWriter`'s ring (bytes between the positions are the accepted
   commands'), `SramSave`'s safety properties, `SaveSlots`'s file invariant.
