----------------------------- MODULE AtomicFile -----------------------------
(***************************************************************************)
(* runner/host_atomic_file.c: genesis_atomic_file_store, one system call   *)
(* per step.  Several threads of the process may store the same path at    *)
(* once (the autosave worker and the settings dialog, say); each names its *)
(* temporary file after the address of its own allocation and an attempt   *)
(* number and creates it exclusively.  Every call may fail, and the power  *)
(* may go at any point: bytes that were not synchronised are then torn,    *)
(* temporaries stay behind, and the last rename may be undone.             *)
(***************************************************************************)
EXTENDS Integers

CONSTANTS
  Writer,        \* concurrent callers
  Image,         \* what they store
  Address,       \* what malloc can return for the temporary's name
  MaxAttempts,   \* 16 in the code
  None

ASSUME AttemptsAssumption == MaxAttempts \in Nat \ {0}
ASSUME NoneAssumption == None \notin Image /\ None \notin Address

VARIABLES
  target,   \* the destination: an image and how far it got to the disk
  prior,    \* what the destination held before the last rename
  temp,     \* the temporary files, by name
  pc, data, addr, attempt, ok   \* the locals of each caller

vars == <<target, prior, temp, pc, data, addr, attempt, ok>>

Name == Address \X (0..MaxAttempts - 1)
File == [img : Image, st : {"written", "synced"}]
Absent == [img |-> None, st |-> "absent"]
Partial == [img |-> None, st |-> "partial"]   \* some bytes of no image

TempName(w) == <<addr[w], attempt[w]>>

Init ==
  /\ target \in [img : Image, st : {"synced"}]
  /\ prior = target
  /\ temp = [n \in Name |-> Absent]
  /\ pc = [w \in Writer |-> "idle"]
  /\ data = [w \in Writer |-> None]
  /\ addr = [w \in Writer |-> None]
  /\ attempt = [w \in Writer |-> 0]
  /\ ok = [w \in Writer |-> 0]

\* The call goes on at l; it returns, freeing the name.
Goto(w, l) ==
  /\ pc' = [pc EXCEPT ![w] = l]
  /\ UNCHANGED <<data, addr>>

Return(w) ==
  /\ pc' = [pc EXCEPT ![w] = "idle"]
  /\ data' = [data EXCEPT ![w] = None]
  /\ addr' = [addr EXCEPT ![w] = None]
  /\ attempt' = [attempt EXCEPT ![w] = 0]
  /\ ok' = [ok EXCEPT ![w] = 0]

\* malloc of the name: the address is not one another caller still holds.
Begin(w, d) ==
  /\ pc[w] = "idle"
  /\ \E a \in Address :
       /\ \A x \in Writer : addr[x] # a
       /\ addr' = [addr EXCEPT ![w] = a]
  /\ data' = [data EXCEPT ![w] = d]
  /\ pc' = [pc EXCEPT ![w] = "open"]
  /\ UNCHANGED <<target, prior, temp, attempt, ok>>

\* One pass of the "wbx" loop: created, refused because the name exists (the
\* next attempt, or failure after the last), or refused for another reason.
Open(w) ==
  /\ pc[w] = "open"
  /\ \/ /\ temp[TempName(w)] = Absent
        /\ temp' = [temp EXCEPT ![TempName(w)] = Partial]
        /\ ok' = [ok EXCEPT ![w] = 1]
        /\ Goto(w, "write")
        /\ UNCHANGED attempt
     \/ /\ temp[TempName(w)] # Absent /\ attempt[w] + 1 < MaxAttempts
        /\ attempt' = [attempt EXCEPT ![w] = @ + 1]
        /\ UNCHANGED <<temp, pc, ok, data, addr>>
     \/ /\ temp[TempName(w)] = Absent \/ attempt[w] + 1 = MaxAttempts
        /\ Return(w)
        /\ UNCHANGED temp
  /\ UNCHANGED <<target, prior>>

Fail(w, l) ==
  /\ ok' = [ok EXCEPT ![w] = 0]
  /\ Goto(w, l)
  /\ UNCHANGED temp

\* Mutant: the file written is the one of the first attempt.
WriteTemp_FirstName(w) ==
  /\ pc[w] = "write"
  /\ \/ /\ temp' = [temp EXCEPT ![<<addr[w], 0>>] = [img |-> data[w], st |-> "written"]]
        /\ Goto(w, "sync")
        /\ UNCHANGED ok
     \/ Fail(w, "close")
  /\ UNCHANGED <<target, prior, attempt>>

\* fwrite and fflush; fsync only after they succeeded.
WriteTemp(w) ==
  /\ pc[w] = "write"
  /\ \/ /\ temp' = [temp EXCEPT ![TempName(w)] = [img |-> data[w], st |-> "written"]]
        /\ Goto(w, "sync")
        /\ UNCHANGED ok
     \/ Fail(w, "close")
  /\ UNCHANGED <<target, prior, attempt>>

SyncTemp(w) ==
  /\ pc[w] = "sync"
  /\ \/ /\ temp' = [temp EXCEPT ![TempName(w)].st = "synced"]
        /\ Goto(w, "close")
        /\ UNCHANGED ok
     \/ Fail(w, "close")
  /\ UNCHANGED <<target, prior, attempt>>

\* Mutant: the file is renamed whatever happened before.
CloseTemp_IgnoresFailure(w) ==
  /\ pc[w] = "close"
  /\ Goto(w, "rename")
  /\ UNCHANGED <<target, prior, temp, ok, attempt>>

CloseTemp(w) ==
  /\ pc[w] = "close"
  /\ \/ ok[w] = 1 /\ Goto(w, "rename") /\ UNCHANGED <<ok, temp>>
     \/ Fail(w, "remove")
  /\ UNCHANGED <<target, prior, attempt>>

Rename(w) ==
  /\ pc[w] = "rename"
  /\ \/ /\ target' = temp[TempName(w)]
        /\ prior' = target
        /\ temp' = [temp EXCEPT ![TempName(w)] = Absent]
        /\ Return(w)
     \/ Fail(w, "remove") /\ UNCHANGED <<target, prior, attempt>>

\* The result of remove is ignored: the temporary may stay.
RemoveTemp(w) ==
  /\ pc[w] = "remove"
  /\ \/ temp' = [temp EXCEPT ![TempName(w)] = Absent]
     \/ UNCHANGED temp
  /\ Return(w)
  /\ UNCHANGED <<target, prior>>

Torn(f) == IF f.st = "written" THEN Partial ELSE f

\* The power goes and comes back, and the process starts again.
PowerLoss ==
  /\ \E t \in {target, prior} : target' = Torn(t) /\ prior' = Torn(t)
  /\ temp' = [n \in Name |-> Torn(temp[n])]
  /\ pc' = [w \in Writer |-> "idle"]
  /\ data' = [w \in Writer |-> None]
  /\ addr' = [w \in Writer |-> None]
  /\ attempt' = [w \in Writer |-> 0]
  /\ ok' = [w \in Writer |-> 0]

-----------------------------------------------------------------------------
Step(w) == Open(w) \/ WriteTemp(w) \/ SyncTemp(w) \/ CloseTemp(w) \/ Rename(w) \/ RemoveTemp(w)

Next ==
  \/ \E w \in Writer : Step(w) \/ \E d \in Image : Begin(w, d)
  \/ PowerLoss

\* A caller that has begun keeps running.
Spec == Init /\ [][Next]_vars /\ \A w \in Writer : WF_vars(Step(w))

-----------------------------------------------------------------------------
TypeOK ==
  /\ target \in File \cup {Partial} /\ prior \in File \cup {Partial}
  /\ temp \in [Name -> File \cup {Partial, Absent}]
  /\ pc \in [Writer -> {"idle", "open", "write", "sync", "close", "rename", "remove"}]
  /\ data \in [Writer -> Image \cup {None}]
  /\ addr \in [Writer -> Address \cup {None}]
  /\ attempt \in [Writer -> 0..MaxAttempts - 1]
  /\ ok \in [Writer -> {0, 1}]

\* "Concurrent independent writers have disjoint temporaries": between its
\* exclusive creation and its removal a temporary holds what its creator has
\* written so far, whoever else is storing and whatever was left behind.
OwnTemporary ==
  \A w \in Writer :
    /\ pc[w] = "write" => temp[TempName(w)] = Partial
    /\ pc[w] \in {"sync", "close", "rename"} /\ ok[w] = 1 => temp[TempName(w)].img = data[w]
    /\ pc[w] = "remove" => temp[TempName(w)] # Absent

\* The destination is never partial, and neither a failed step nor a loss of
\* power leaves one behind: what is renamed over it has been synchronised.
TargetWhole == target.st = "synced" /\ prior.st = "synced"

\* The store is atomic: it implements AtomicStore, the moment of replacement
\* being the rename.
Shown(f) == IF f.st = "synced" THEN f.img ELSE None

Abstract == INSTANCE AtomicStore WITH
  file <- Shown(target), prior <- Shown(prior),
  request <- data

RefinesAtomicStore == Abstract!Spec

=============================================================================
