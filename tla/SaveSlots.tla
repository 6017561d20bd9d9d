------------------------------ MODULE SaveSlots ------------------------------
(***************************************************************************)
(* Save states: runner_save_state_file and runner_load_state_file of       *)
(* runner/main.c, the deferred host states of runner/host_state.h with     *)
(* their writer thread, and the slot previews and slot menu of             *)
(* runner/local_states.c.  A modern game queues a request, captures it at  *)
(* the next resumable boundary and lets a thread checksum, patch and       *)
(* rename the temporary file; a legacy game writes the slot in place.      *)
(* The guest is two parts (the adapter's host state and the machine) with  *)
(* a version each, so that a half-applied load shows, and a machine whose  *)
(* sections were read in part is Torn.  The process may be killed at any   *)
(* step of the runner thread or of the writer.                             *)
(***************************************************************************)
EXTENDS Integers, Sequences, FiniteSets

CONSTANTS
  Slot,           \* native_save_N.bin: the paths with a preview
  Other,          \* any other path a script or the debug server names
  None,
  MaxRequests,    \* bound on accepted requests
  MaxVersion,     \* guest versions, counted round
  PendingFrames   \* 120: frames a request waits for a boundary

Path == Slot \cup {Other}

VARIABLES
  modern,         \* 1 when the game has a state adapter (state_size)
  playing,        \* genesis_replay_playing
  guest,          \* [host, dev]: versions
  file,           \* each path: None or [req, state, whole]
  thumb,          \* each slot: 0 or the request whose preview is stored
  pending,        \* host_state_pending: [path, req] or None
  pending_frames,
  writer,         \* host_state_writer: None or [path, req, state, stage, ok]
  pending_slot,   \* s_pending_slot: None or the slot
  pending_thumb,  \* s_pending_thumb, named by its request
  menu,           \* 1 while the slot browser freezes the guest
  pc, path,       \* the runner thread: "run"; "save", "write"; "load", "read",
                  \* "apply", "undo"; "exit" or "gone"
  backup,         \* the machine a load saved before it changed anything, or None
  target,         \* history: the path of every accepted request
  answer,         \* history: "open", "saved", "failed" or "dropped" for each
  last_load,      \* history: [path, req] of the last state loaded
  lost            \* history: a rollback failed since the launch

request == <<pending, pending_frames, pending_slot, pending_thumb>>
history == <<target, answer, last_load, lost>>
loading == <<path, backup>>
vars == <<modern, playing, guest, file, thumb, request, writer, menu, pc, loading, history>>

Torn == -1
Requests == DOMAIN answer
Whole(r, v) == [req |-> r, state |-> v, whole |-> 1]

Init ==
  /\ modern \in {0, 1} /\ playing \in {0, 1}
  /\ guest = [host |-> 0, dev |-> 0]
  /\ file \in [Path -> {None, Whole(0, 0)}]
  /\ thumb = [s \in Slot |-> 0]
  /\ pending = None /\ pending_frames = 0 /\ writer = None
  /\ pending_slot = None /\ pending_thumb = 0
  /\ menu = 0 /\ pc = "run" /\ path = None /\ backup = None
  /\ target = <<>> /\ answer = <<>> /\ last_load = [path |-> None, req |-> 0]
  /\ lost = 0

-----------------------------------------------------------------------------
\* genesis_local_states_save_finished: a stored request publishes its preview,
\* if the thumbnail file can be opened; a failed one keeps the old preview.
SaveFinished(p, ok) ==
  IF pending_slot = None \/ pending_slot # p
  THEN UNCHANGED <<pending_slot, thumb, pending_thumb>>
  ELSE /\ thumb' \in IF ok = 1 THEN {thumb, [thumb EXCEPT ![pending_slot] = pending_thumb]}
                               ELSE {thumb}
       /\ pending_slot' = None /\ pending_thumb' = 0

Answered(r, ok) == [answer EXCEPT ![r] = IF ok = 1 THEN "saved" ELSE "failed"]
Done == writer # None /\ writer.stage = "done"

\* Mutant: reports every write as a success.
Collect_Announces ==
  /\ answer' = Answered(writer.req, 1)
  /\ SaveFinished(writer.path, 1)
  /\ writer' = None

\* host_state_collect of a finished write.
Collect ==
  /\ answer' = Answered(writer.req, writer.ok)
  /\ SaveFinished(writer.path, writer.ok)
  /\ writer' = None

-----------------------------------------------------------------------------
\* A call of runner_save_state_file from a key, the menu, a script, the
\* server or the runtime menu; both calls first wait for the writer.
Call(op, p) ==
  /\ pc = "run" /\ op \in {"save", "load"} /\ p \in IF menu = 1 THEN Slot ELSE Path
  /\ pc' = op /\ path' = p
  /\ UNCHANGED <<modern, playing, guest, file, thumb, request, writer, menu, backup, history>>

Return == pc' = "run" /\ path' = None /\ backup' = None

\* The caller collects a finished writer; a load goes no further after a
\* failed write.
CollectFirst ==
  /\ pc \in {"save", "load"} /\ Done
  /\ pc = "load" => pending = None
  /\ Collect
  /\ IF pc = "load" /\ writer.ok = 0 THEN Return ELSE UNCHANGED <<pc, loading>>
  /\ UNCHANGED <<modern, playing, guest, file, pending, pending_frames, menu, target, last_load, lost>>

\* host_state_save accepts: one request at a time; save_started keeps the
\* preview, and the slot browser resumes the guest.
SaveAccept ==
  /\ pc = "save" /\ modern = 1 /\ writer = None /\ pending = None /\ Len(answer) < MaxRequests
  /\ pending' = [path |-> path, req |-> Len(answer) + 1] /\ pending_frames' = 0
  /\ pending_slot' = IF path \in Slot THEN path ELSE pending_slot
  /\ pending_thumb' = IF path \in Slot THEN Len(answer) + 1 ELSE pending_thumb
  /\ target' = Append(target, path) /\ answer' = Append(answer, "open")
  /\ menu' = 0
  /\ Return
  /\ UNCHANGED <<modern, playing, guest, file, thumb, writer, last_load, lost>>

\* Refused: a capture is pending or, unless a replay plays, a write is going
\* on; or the game has no state to give just now.
SaveReject ==
  /\ pc = "save"
  /\ \/ modern = 1 /\ writer = None
     \/ modern = 1 /\ writer # None /\ ~Done /\ playing = 0
     \/ modern = 0
  /\ Return
  /\ UNCHANGED <<modern, playing, guest, file, thumb, request, writer, menu, history>>

\* The legacy writer opens the slot, which empties it, and writes it in place.
LegacyOpen ==
  /\ pc = "save" /\ modern = 0 /\ Len(answer) < MaxRequests
  /\ target' = Append(target, path)
  /\ \/ /\ answer' = Append(answer, "failed")                      \* fopen fails
        /\ Return
        /\ UNCHANGED file
     \/ /\ answer' = Append(answer, "open")
        /\ file' = [file EXCEPT ![path] = [Whole(Len(answer'), guest.dev) EXCEPT !.whole = 0]]
        /\ pc' = "write" /\ UNCHANGED loading
  /\ UNCHANGED <<modern, playing, guest, thumb, request, writer, menu, last_load, lost>>

\* The writes are checked and fclose is not: a success may still lose its tail.
\* A key or the menu then stores the preview, a script or the server does not.
LegacyWrite ==
  /\ pc = "write"
  /\ LET r == Len(answer) IN
       \E ok, closed \in {0, 1} :
         /\ file' = [file EXCEPT ![path].whole = IF ok = 1 THEN closed ELSE 0]
         /\ answer' = Answered(r, ok)
         /\ thumb' \in IF ok = 1 /\ path \in Slot THEN {thumb, [thumb EXCEPT ![path] = r]}
                                                  ELSE {thumb}
  /\ Return
  /\ UNCHANGED <<modern, playing, guest, request, writer, menu, target, last_load, lost>>

-----------------------------------------------------------------------------
\* A capture is pending; or the file is missing, damaged or another game's, or
\* the present machine cannot be saved: nothing has changed yet.
LoadReject ==
  /\ pc = "load"
  /\ pending # None \/ writer = None
  /\ Return
  /\ UNCHANGED <<modern, playing, guest, file, thumb, request, writer, menu, history>>

\* Mutant: does not wait for the accepted snapshot.
LoadCheck_AnyTime ==
  /\ pc = "load" /\ file[path] # None /\ (modern = 1 => file[path].whole = 1)
  /\ pc' = "read" /\ backup' = guest.dev
  /\ UNCHANGED <<modern, playing, guest, file, thumb, request, writer, menu, path, history>>

\* The checks before the first change, once nothing is being written.  A host
\* state is checked as a whole, a legacy file only by its first bytes.
LoadCheck ==
  /\ pc = "load" /\ pending = None /\ writer = None
  /\ file[path] # None /\ (modern = 1 => file[path].whole = 1)
  /\ pc' = "read" /\ backup' = guest.dev
  /\ UNCHANGED <<modern, playing, guest, file, thumb, request, writer, menu, path, history>>

\* Mutant: installs the adapter's state before the machine is read.
ReadMachine_HostFirst ==
  /\ pc = "read"
  /\ \/ guest' = [host |-> file[path].state, dev |-> file[path].state] /\ pc' = "apply"
     \/ guest' = [host |-> file[path].state, dev |-> Torn] /\ pc' = "undo"
  /\ UNCHANGED <<modern, playing, file, thumb, request, writer, menu, loading, history>>

\* host_machine_read(staged), or the legacy readers: section by section into
\* the live machine, and any of them may fail.
ReadMachine ==
  /\ pc = "read"
  /\ \/ file[path].whole = 1 /\ guest' = [guest EXCEPT !.dev = file[path].state] /\ pc' = "apply"
     \/ guest' = [guest EXCEPT !.dev = Torn] /\ pc' = "undo"
  /\ UNCHANGED <<modern, playing, file, thumb, request, writer, menu, loading, history>>

\* state_load(.., 1), and the success of the load; the browser resumes.
ApplyHost ==
  /\ pc = "apply"
  /\ \/ /\ guest' = [guest EXCEPT !.host = file[path].state]
        /\ last_load' = [path |-> path, req |-> file[path].req] /\ menu' = 0
        /\ Return
     \/ /\ modern = 1
        /\ pc' = "undo" /\ UNCHANGED <<guest, last_load, menu, loading>>
  /\ UNCHANGED <<modern, playing, file, thumb, request, writer, target, answer, lost>>

\* The backup is read over the machine.  host_state_load ignores whether that
\* worked; the legacy load aborts the process when it did not.
Undo ==
  /\ pc = "undo"
  /\ \/ guest' = [guest EXCEPT !.dev = backup] /\ Return /\ UNCHANGED lost
     \/ modern = 1 /\ guest' = [guest EXCEPT !.dev = Torn] /\ Return /\ lost' = 1
     \/ modern = 0 /\ pc' = "gone" /\ path' = None /\ backup' = None /\ UNCHANGED <<guest, lost>>
  /\ UNCHANGED <<modern, playing, file, thumb, request, writer, menu, target, answer, last_load>>

-----------------------------------------------------------------------------
\* One guest frame and the host_state_tick after it.
Coherent == guest.host = guest.dev /\ guest.dev # Torn
Advance ==
  LET v == (guest.dev + 1) % (MaxVersion + 1)
  IN  guest' \in IF Coherent THEN {guest, [host |-> v, dev |-> v]} ELSE {guest}
Running == pc = "run" /\ menu = 0

Frame ==
  /\ Running /\ pending = None /\ Advance
  /\ IF Done THEN Collect ELSE UNCHANGED <<answer, writer, thumb, pending_slot, pending_thumb>>
  /\ UNCHANGED <<modern, playing, file, pending, pending_frames, menu, pc, loading, target, last_load, lost>>

\* Mutant: the frames of a pending request are not counted.
FrameWait_Uncounted ==
  /\ Running /\ pending # None /\ writer = None /\ Advance
  /\ UNCHANGED <<modern, playing, file, thumb, request, writer, menu, pc, loading, history>>

\* With a capture pending there is no writer, so the tick's
\* collect has nothing to do.
FrameWait ==
  /\ Running /\ pending # None /\ writer = None /\ Advance
  /\ pending_frames + 1 < PendingFrames
  /\ pending_frames' = pending_frames + 1
  /\ UNCHANGED <<modern, playing, file, thumb, pending, pending_slot, pending_thumb>>
  /\ UNCHANGED <<writer, menu, pc, loading, history>>

\* No boundary in time, or host_state_save_now could not capture.
FrameGiveUp ==
  /\ Running /\ pending # None /\ writer = None /\ Advance
  /\ answer' = Answered(pending.req, 0)
  /\ SaveFinished(pending.path, 0)
  /\ pending' = None /\ pending_frames' = 0
  /\ UNCHANGED <<modern, playing, file, writer, menu, pc, loading, target, last_load, lost>>

\* host_state_save_now at a boundary: the snapshot leaves the guest.
FrameCapture ==
  /\ Running /\ pending # None /\ writer = None /\ Advance
  /\ writer' = [path |-> pending.path, req |-> pending.req, state |-> guest'.dev,
                stage |-> "captured", ok |-> 0]
  /\ pending' = None /\ pending_frames' = 0
  /\ UNCHANGED <<modern, playing, file, thumb, pending_slot, pending_thumb, menu, pc, loading, history>>

\* The same when no thread can be created: written and collected at once.
FrameCaptureInline ==
  /\ Running /\ pending # None /\ writer = None /\ Advance
  /\ \E ok \in {0, 1} :
       /\ file' = IF ok = 1 THEN [file EXCEPT ![pending.path] = Whole(pending.req, guest'.dev)] ELSE file
       /\ answer' = Answered(pending.req, ok)
       /\ SaveFinished(pending.path, ok)
  /\ pending' = None /\ pending_frames' = 0
  /\ UNCHANGED <<modern, playing, writer, menu, pc, loading, target, last_load, lost>>

-----------------------------------------------------------------------------
\* host_state_write_finish on its thread: checksum and header, then rename.
Patch ==
  /\ writer # None /\ writer.stage = "captured"
  /\ writer' \in {[writer EXCEPT !.stage = "patched", !.ok = ok] : ok \in {0, 1}}
  /\ UNCHANGED <<modern, playing, guest, file, thumb, request, menu, pc, loading, history>>

Replace ==
  /\ writer # None /\ writer.stage = "patched"
  /\ \/ /\ writer.ok = 1
        /\ file' = [file EXCEPT ![writer.path] = Whole(writer.req, writer.state)]
        /\ writer' = [writer EXCEPT !.stage = "replaced"]
     \/ /\ writer' = [writer EXCEPT !.stage = "replaced", !.ok = 0]
        /\ UNCHANGED file
  /\ UNCHANGED <<modern, playing, guest, thumb, request, menu, pc, loading, history>>

Announce ==
  /\ writer # None /\ writer.stage = "replaced"
  /\ writer' = [writer EXCEPT !.stage = "done"]
  /\ UNCHANGED <<modern, playing, guest, file, thumb, request, menu, pc, loading, history>>

-----------------------------------------------------------------------------
OpenMenu ==
  /\ pc = "run" /\ menu = 0
  /\ menu' = 1
  /\ UNCHANGED <<modern, playing, guest, file, thumb, request, writer, pc, loading, history>>

CancelMenu ==
  /\ pc = "run" /\ menu = 1
  /\ menu' = 0
  /\ UNCHANGED <<modern, playing, guest, file, thumb, request, writer, pc, loading, history>>

\* The window closes, or a script exits; host_state_shutdown waits for the
\* writer and drops a request that was not captured.
Quit ==
  /\ pc = "run"
  /\ pc' = "exit"
  /\ UNCHANGED <<modern, playing, guest, file, thumb, request, writer, menu, loading, history>>

Shutdown ==
  /\ pc = "exit" /\ (writer = None \/ Done)
  /\ pc' = "gone"
  /\ IF Done THEN Collect ELSE UNCHANGED <<answer, writer, thumb, pending_slot, pending_thumb>>
  /\ UNCHANGED <<modern, playing, guest, file, pending, pending_frames, menu, loading, target, last_load, lost>>

\* The next launch finds the files.
Relaunch ==
  /\ pc = "gone"
  /\ pc' = "run" /\ menu' = 0 /\ guest' = [host |-> 0, dev |-> 0]
  /\ pending' = None /\ pending_frames' = 0 /\ pending_slot' = None /\ pending_thumb' = 0
  /\ answer' = [r \in Requests |-> IF answer[r] = "open" THEN "dropped" ELSE answer[r]]
  /\ lost' = 0
  /\ UNCHANGED <<modern, playing, file, thumb, writer, loading, target, last_load>>

\* The process stops where it is, and its writer with it.
Kill ==
  /\ pc # "gone"
  /\ pc' = "gone" /\ path' = None /\ backup' = None /\ writer' = None
  /\ UNCHANGED <<modern, playing, guest, file, thumb, request, menu, target, answer, last_load, lost>>

-----------------------------------------------------------------------------
CallStep ==
  \/ CollectFirst \/ SaveAccept \/ SaveReject \/ LegacyOpen \/ LegacyWrite
  \/ LoadReject \/ LoadCheck \/ ReadMachine \/ ApplyHost \/ Undo
FrameStep == Frame \/ FrameWait \/ FrameGiveUp \/ FrameCapture \/ FrameCaptureInline
WriterStep == Patch \/ Replace \/ Announce

Next ==
  \/ \E op \in {"save", "load"}, p \in Path : Call(op, p)
  \/ CallStep \/ FrameStep \/ WriterStep
  \/ OpenMenu \/ CancelMenu \/ Quit \/ Shutdown \/ Relaunch \/ Kill

\* Frames keep coming while the guest is not frozen, the writer thread and a
\* call in progress run; nobody has to press a key.
Spec == Init /\ [][Next]_vars /\ WF_vars(CallStep) /\ SF_vars(FrameStep) /\ WF_vars(WriterStep)
             /\ WF_vars(Shutdown)

-----------------------------------------------------------------------------
\* "Success is announced only after replacement. A failed write retains the
\* old slot": wherever the process was stopped, a host state's file is
\* complete, is not older than the last request announced as saved, and is
\* never one announced as failed; a request not yet announced is in the file
\* only while its writer is about to say so, or the process died before it
\* could.  A preview is of a state announced as saved in its own slot.
AnswersTruthful ==
  /\ \A s \in Slot : thumb[s] # 0 => target[thumb[s]] = s /\ answer[thumb[s]] = "saved"
  /\ modern = 1 =>
      \A p \in Path :
        LET saved == {r \in Requests : target[r] = p /\ answer[r] = "saved"}
            stored == file[p].req
        IN  /\ saved # {} => file[p] # None /\ \A r \in saved : stored >= r
            /\ file[p] # None => file[p].whole = 1
            /\ file[p] # None /\ stored # 0 =>
                 \/ answer[stored] \in {"saved", "dropped"}
                 \/ answer[stored] = "open" /\ pc = "gone"
                 \/ answer[stored] = "open" /\ writer # None /\ writer.req = stored /\ writer.ok = 1

\* "A later short read must not leave a rejected file's CPU/RAM/chips installed
\* in the live game": between calls the machine and the adapter's state belong
\* together, whichever step of a load failed, unless the rollback itself
\* failed.
MachineWhole ==
  pc \in {"run", "save", "write", "load", "exit"} /\ lost = 0 => guest.host = guest.dev

\* A load sees the accepted saves before it: no later request for the path is
\* still on its way or already stored.
LoadIsLatest ==
  [][last_load' # last_load =>
       \A r \in Requests : target[r] = last_load'.path /\ r > last_load'.req =>
                             answer[r] \in {"failed", "dropped"}]_vars

\* An accepted request is answered, by capture or by the timeout, unless the
\* player freezes the guest again or leaves.
RequestAnswered ==
  \A r \in 1..MaxRequests :
    (r \in Requests /\ answer[r] = "open") ~>
      ((r \in Requests /\ answer[r] # "open") \/ menu = 1 \/ pc \in {"exit", "gone"})
=============================================================================
