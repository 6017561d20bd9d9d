------------------------------ MODULE SramSave ------------------------------
(***************************************************************************)
(* Cartridge battery memory in runner/main.c: change detection by hash,    *)
(* autosave after SettleFrames quiet frames through a PersistWriter, the   *)
(* synchronous flush, and the frame loop around them with its three ways   *)
(* out (script EXIT, end of a netplay match, quit).  The worker runs       *)
(* beside the loop; every write may fail; the notification hook of a game  *)
(* may change the memory it is told about; the process may be killed.      *)
(* The hash is taken to separate images.  The battery memory is present.   *)
(***************************************************************************)
EXTENDS PersistWriter

CONSTANTS
  SettleFrames,   \* 30 in the code
  MaxKills        \* bound on the times the process is killed

VARIABLES
  live,           \* sram_buf()
  seen,           \* s_sram_hash: the image the last hash was taken of
  dirty,          \* s_sram_dirty
  settled,        \* frame_num - s_sram_dirty_at, up to SettleFrames
  io_pending,     \* s_sram_io_pending
  role,           \* "offline", "host" or "guest" of a match, or "playback"
  over,           \* s_netplay_match_over
  pc, ret,        \* where the loop is, and where runner_sram_flush returns to
  notified,       \* history: the image last passed to sram_flushed
  foreign,        \* history: live descends from another machine's image
  stale,          \* history: the session began with a cold reset that failed
  hooked,         \* history: the hook changed live after the last guest frame
  scripted,       \* history: the process ends by script EXIT
  kills

mem == <<live, seen, dirty, settled, io_pending>>
origin == <<foreign, stale>>
hist == <<notified, origin, hooked, scripted>>
vars == <<disk, w, job, mem, role, over, pc, ret, hist, kills>>

Flag(b) == IF b THEN 1 ELSE 0

\* runner_sram_init_and_load after a cold start: the file is the memory.  A
\* guest then receives the host's image before its first tick.
Load(d, r) ==
  /\ seen' = d /\ dirty' = 0 /\ settled' = SettleFrames /\ io_pending' = 0
  /\ w' \in {Created(d), NULL}
  /\ IF r = "guest" THEN live' \in Image /\ foreign' = 1
                    ELSE live' = d /\ foreign' = 0
  /\ role' = r /\ over' = 0 /\ pc' = "top" /\ stale' = 0
  /\ UNCHANGED ret

Init ==
  /\ disk \in Image
  /\ role \in {"offline", "host", "guest", "playback"}
  /\ seen = disk /\ dirty = 0 /\ settled = SettleFrames /\ io_pending = 0
  /\ w \in {Created(disk), NULL} /\ job = "none"
  /\ IF role = "guest" THEN live \in Image /\ foreign = 1 ELSE live = disk /\ foreign = 0
  /\ over = 0 /\ pc = "top" /\ ret = "top"
  /\ notified = disk /\ stale = 0 /\ hooked = 0 /\ scripted = 0 /\ kills = 0

-----------------------------------------------------------------------------
\* g_game_spec.sram_flushed, which may modify live memory.
Notify(d) ==
  /\ notified' = d
  /\ \/ UNCHANGED <<live, hooked>>
     \/ live' \in Image /\ hooked' = 1

\* runner_sram_completed, with the live memory the callback compares with.
Completed ==
  /\ w' = Polled(w) /\ io_pending' = 0
  /\ dirty' = Flag(w.pending # live)
  /\ Notify(w.pending)

\* The failure branch of runner_sram_complete: the writer is replaced by the
\* synchronous path and the change is still owed.
WriteFailed_Forgets ==
  /\ w' = NULL /\ io_pending' = 0 /\ dirty' = 0
  /\ UNCHANGED <<live, notified, hooked>>

WriteFailed ==
  /\ w' = NULL /\ io_pending' = 0 /\ dirty' = 1
  /\ UNCHANGED <<live, notified, hooked>>

\* runner_sram_complete(1): nothing is pending, or wait for the worker and
\* acknowledge.
Complete ==
  \/ /\ w = NULL \/ io_pending = 0
     /\ UNCHANGED <<w, live, dirty, io_pending, notified, hooked>>
  \/ w # NULL /\ io_pending = 1 /\ ~Running /\ Completes(w) /\ Completed
  \/ w # NULL /\ io_pending = 1 /\ ~Running /\ Polled(w).failed = 1 /\ WriteFailed

Goto(l) == pc' = l /\ UNCHANGED ret
Quiet == UNCHANGED <<disk, w, job, dirty, io_pending, notified>>

-----------------------------------------------------------------------------
\* The frame loop.
Top ==
  /\ pc = "top"
  /\ \/ Complete /\ Goto("events")
     \/ Goto("end") /\ UNCHANGED <<w, live, dirty, io_pending, notified, hooked>>   \* --max-frames
  /\ UNCHANGED <<disk, job, seen, settled, role, over, origin, scripted, kills>>

\* Input events: a save state is loaded (refused online), quit is requested,
\* or the match is over; otherwise the guest runs a frame.
LoadState ==
  /\ pc = "events" /\ role = "offline"
  /\ live' \in Image
  /\ Quiet /\ UNCHANGED <<seen, settled, role, over, pc, ret, origin, hooked, scripted, kills>>

Quit ==
  /\ pc = "events"
  /\ \/ UNCHANGED over
     \/ role \in {"host", "guest"} /\ over' = 1
  /\ Goto("end")
  /\ Quiet /\ UNCHANGED <<live, seen, settled, role, origin, hooked, scripted, kills>>

GuestFrame ==
  /\ pc = "events"
  /\ live' \in Image
  /\ hooked' = 0
  /\ Goto("script")
  /\ Quiet /\ UNCHANGED <<seen, settled, role, over, origin, scripted, kills>>

\* Script EXIT, before the autosave tick of its frame: hash again, flush.
ScriptExit ==
  /\ pc = "script"
  /\ scripted' = 1
  /\ dirty' = Flag(dirty = 1 \/ seen # live)
  /\ IF dirty' = 1 THEN pc' = "flush" /\ ret' = "settle" ELSE Goto("settle")
  /\ UNCHANGED <<disk, w, job, io_pending, notified>>
  /\ UNCHANGED <<live, seen, settled, role, over, origin, hooked, kills>>

\* runner_sram_autosave_tick, not called online and idle during playback.
\* With a writer it publishes the memory; the second poll of submit follows.
Tick_NoHash ==
  /\ pc = "script"
  /\ Goto("top")
  /\ Quiet /\ UNCHANGED <<live, seen, settled, role, over, origin, hooked, scripted, kills>>

Tick ==
  /\ pc = "script"
  /\ \/ /\ role # "offline"
        /\ Goto("top")
        /\ UNCHANGED <<disk, w, job, seen, dirty, settled, io_pending>>
     \/ /\ role = "offline"
        /\ seen' = live
        /\ settled' = CASE seen # live -> 0
                        [] seen = live /\ settled < SettleFrames -> settled + 1
                        [] OTHER -> settled
        /\ dirty' = Flag(dirty = 1 \/ seen # live)
        /\ \/ /\ dirty' = 0 \/ settled' < SettleFrames
              /\ Goto("top")
              /\ UNCHANGED <<disk, w, job, io_pending>>
           \/ /\ dirty' = 1 /\ settled' = SettleFrames /\ w # NULL
              /\ io_pending' = 1
              /\ LET x == Polled(w) IN
                   IF Refused(x, live, TRUE) THEN w' = x /\ UNCHANGED <<disk, job>>
                                             ELSE Start(x, live)
              /\ Goto("submitted")
           \/ /\ dirty' = 1 /\ settled' = SettleFrames /\ w = NULL
              /\ pc' = "flush" /\ ret' = "top"
              /\ UNCHANGED <<disk, w, job, io_pending>>
  /\ UNCHANGED <<live, role, over, origin, notified, hooked, scripted, kills>>

\* The poll that ends submit, and runner_sram_complete when it failed.
Submitted ==
  /\ pc = "submitted"
  /\ IF Answered(w) \/ w.failed = 1
     THEN Complete
     ELSE UNCHANGED <<w, live, dirty, io_pending, notified, hooked>>
  /\ Goto("top")
  /\ UNCHANGED <<disk, job, seen, settled, role, over, origin, scripted, kills>>

\* runner_sram_flush: nothing during playback; settle; then the store, which
\* a guest may not make, and a new writer based on the stored image.
FlushSettle ==
  /\ pc = "flush"
  /\ \/ /\ role = "playback" /\ Goto(ret)
        /\ UNCHANGED <<w, live, dirty, io_pending, notified, hooked>>
     \/ role # "playback" /\ Complete /\ Goto("store")
  /\ UNCHANGED <<disk, job, seen, settled, role, over, origin, scripted, kills>>


FlushStore ==
  /\ pc = "store"
  /\ \/ /\ role = "guest"
        /\ dirty' = 0
        /\ UNCHANGED <<disk, w, live, notified, hooked>>
     \/ /\ role # "guest" /\ Stored(live, 0)
        /\ UNCHANGED <<dirty, w, live, notified, hooked>>
     \/ /\ role # "guest" /\ Stored(live, 1)
        /\ dirty' = 0
        /\ w' \in {Created(live), NULL}
        /\ Notify(live)
  /\ Goto(ret)
  /\ UNCHANGED <<job, seen, settled, io_pending, role, over, origin, scripted, kills>>

-----------------------------------------------------------------------------
\* Mutant: leaves the match before it flushes.
End_ShutdownFirst ==
  /\ pc = "end"
  /\ Complete
  /\ IF over = 1 THEN pc' = "flush" /\ ret' = "shutdown" /\ role' = "offline"
                 ELSE Goto("final") /\ UNCHANGED role
  /\ UNCHANGED <<disk, job, seen, settled, over, origin, scripted, kills>>

\* After the loop: settle; after a match flush, leave the match, and perhaps
\* start another session from the file.
End ==
  /\ pc = "end"
  /\ Complete
  /\ IF over = 1 THEN pc' = "flush" /\ ret' = "shutdown" ELSE Goto("final")
  /\ UNCHANGED <<disk, job, seen, settled, role, over, origin, scripted, kills>>

Shutdown ==
  /\ pc = "shutdown"
  /\ over' = 0 /\ role' = "offline"
  /\ pc' \in {"reset", "final"} /\ UNCHANGED ret
  /\ Quiet /\ UNCHANGED <<live, seen, settled, origin, hooked, scripted, kills>>

\* The failure return of genesis_session_reset: no cold machine was captured,
\* or its first section is rejected (the later ones only check lengths the
\* same build wrote).  The caller ignores it and the next session begins with
\* the memory as it is; the frame counter restarts below s_sram_dirty_at, so
\* the unsigned difference counts as settled.
KeepMachine(r) ==
  /\ settled' = SettleFrames
  /\ IF r = "guest" THEN live' \in Image /\ foreign' = 1 ELSE UNCHANGED <<live, foreign>>
  /\ role' = r /\ over' = 0 /\ pc' = "top" /\ stale' = 1
  /\ UNCHANGED <<w, seen, dirty, io_pending, ret>>

\* genesis_session_reset; nothing is pending after the flush of End.
SessionReset ==
  /\ pc = "reset"
  /\ \E r \in {"offline", "host", "guest"} : Load(disk, r) \/ KeepMachine(r)
  /\ hooked' = 0
  /\ UNCHANGED <<disk, job, notified, scripted, kills>>

\* The last settle, the flush of a change still owed, and the end.
Final ==
  /\ pc = "final"
  /\ Complete
  /\ IF dirty' = 1 THEN pc' = "flush" /\ ret' = "destroy" ELSE Goto("destroy")
  /\ UNCHANGED <<disk, job, seen, settled, role, over, origin, scripted, kills>>

Settle ==
  /\ pc = "settle"
  /\ Complete
  /\ Goto("destroy")
  /\ UNCHANGED <<disk, job, seen, settled, role, over, origin, scripted, kills>>

Destroy ==
  /\ pc = "destroy" /\ ~Running
  /\ w' = NULL
  /\ Goto("exited")
  /\ UNCHANGED <<disk, job, mem, role, over, hist, kills>>

\* Start the program again, after it ended or was killed.
Boot ==
  /\ \E r \in {"offline", "host", "guest", "playback"} : Load(disk, r)
  /\ job' = "none" /\ hooked' = 0 /\ scripted' = 0 /\ notified' = disk
  /\ UNCHANGED disk

Restart == pc = "exited" /\ Boot /\ UNCHANGED kills

Kill == pc # "exited" /\ kills < MaxKills /\ kills' = kills + 1 /\ Boot

-----------------------------------------------------------------------------
JobStep == (JobWrite \/ JobDone) /\ UNCHANGED <<mem, role, over, pc, ret, hist, kills>>

LoopStep ==
  \/ Top \/ LoadState \/ Quit \/ GuestFrame \/ ScriptExit \/ Tick \/ Submitted
  \/ FlushSettle \/ FlushStore \/ End \/ Shutdown \/ SessionReset \/ Final \/ Settle \/ Destroy

Next == LoopStep \/ JobStep \/ Restart \/ Kill

\* Both threads run; frames keep coming; a store does not fail for ever.
StoreSucceeds ==
  \/ JobWrite /\ w'.job_ok = 1 /\ UNCHANGED <<mem, role, over, pc, ret, hist, kills>>
  \/ FlushStore /\ disk' = live /\ dirty' = 0

Spec ==
  /\ Init /\ [][Next]_vars
  /\ WF_vars(JobStep) /\ WF_vars(LoopStep)
  /\ SF_vars(GuestFrame \/ Quit) /\ SF_vars(Tick) /\ SF_vars(StoreSucceeds)

-----------------------------------------------------------------------------
InLoop == scripted = 0 /\ pc \in {"top", "events", "script", "submitted", "flush", "store"}

\* The autosave owes nothing it has seen: while the memory is clean and is the
\* image the last hash was taken of, the file holds it.  A failed write, a
\* late acknowledgement or a change made by the hook must not lose a change
\* (a change the hook makes after the loop has ended is nobody's to save).  A
\* scripted EXIT looks once more, and owes the memory of its last frame.  A
\* session that begins with a failed reset keeps a hash of an older memory
\* and is left out.
CleanMeansSaved ==
  /\ dirty = 0 /\ foreign = 0 /\ stale = 0 /\ role # "playback" /\ (InLoop \/ hooked = 0)
  /\ seen = live \/ (pc = "exited" /\ scripted = 1)
  => disk = live

\* "A guest never publishes the host's SRAM to its local progress file", as far
\* as it holds: while live descends from a host's image no step writes the
\* file, through the match, its end and the next session, unless that session
\* began with a failed reset and is not a guest's.
GuestProgressKept ==
  [][foreign = 1 /\ (stale = 0 \/ role = "guest") => disk' = disk]_vars

\* The same without the exception, which the code does not keep: the failure
\* of genesis_session_reset is ignored, a former guest plays on with the host's
\* image and the autosave writes it to the guest's file.
GuestNeverPublishes == [][foreign = 1 => disk' = disk]_vars


\* An offline change that settles reaches the file, through the worker or the
\* synchronous path, as long as stores do not fail for ever (and the session
\* does not go on from a failed reset, with its old hash).
ChangeReachesFile ==
  \A d \in Image :
    <>[](live = d /\ role = "offline" /\ stale = 0 /\ InLoop) => <>[](disk = d)

\* "Online the save is written once, by the host, at the end of the match":
\* a host's process that ends with nothing owed has the match in the file.
HostMatchSaved ==
  pc = "exited" /\ role = "host" /\ dirty = 0 /\ hooked = 0 => disk = live

=============================================================================
