-------------------------- MODULE AtomicFileProofs --------------------------
(***************************************************************************)
(* For any number of writers, images, addresses and attempts, and any      *)
(* sequence of failures and power losses: the destination is always whole, *)
(* a temporary is its creator's alone, and the store is atomic.            *)
(***************************************************************************)
EXTENDS AtomicFile, TLAPS

\* What a caller's position says about its locals and its temporary.
Position(w) ==
  /\ (data[w] = None) <=> (pc[w] = "idle")
  /\ (addr[w] = None) <=> (pc[w] = "idle")
  /\ pc[w] = "write" => ok[w] = 1 /\ temp[TempName(w)] = Partial
  /\ pc[w] = "sync" => ok[w] = 1 /\ temp[TempName(w)] = [img |-> data[w], st |-> "written"]
  /\ pc[w] = "close" /\ ok[w] = 1 => temp[TempName(w)] = [img |-> data[w], st |-> "synced"]
  /\ pc[w] = "rename" => ok[w] = 1 /\ temp[TempName(w)] = [img |-> data[w], st |-> "synced"]
  /\ pc[w] \in {"close", "remove"} => temp[TempName(w)] # Absent

Distinct == \A w, x \in Writer : w # x /\ pc[w] # "idle" => addr[w] # addr[x]

IndInv ==
  /\ TypeOK
  /\ \A w \in Writer : Position(w)
  /\ Distinct
  /\ TargetWhole

\* A step of another caller leaves a caller's locals and temporary alone.
LEMMA OthersKeep ==
  ASSUME NEW x \in Writer, Position(x),
         pc'[x] = pc[x], data'[x] = data[x], addr'[x] = addr[x],
         attempt'[x] = attempt[x], ok'[x] = ok[x],
         pc[x] # "idle" => temp'[TempName(x)] = temp[TempName(x)]
  PROVE  Position(x)'
  <1>1. TempName(x)' = TempName(x)
    BY DEF TempName
  <1>2. CASE pc[x] = "idle"
    BY <1>2 DEF Position
  <1>3. CASE pc[x] # "idle"
    <2>1. temp'[TempName(x)'] = temp[TempName(x)]
      BY <1>1, <1>3
    <2> QED BY <2>1, <1>3 DEF Position
  <1> QED BY <1>2, <1>3

\* A call that returns holds nothing any more.
LEMMA ReturnKeeps ==
  ASSUME TypeOK, Distinct, \A x \in Writer : Position(x), NEW w \in Writer, Return(w)
  PROVE  Position(w)' /\ Distinct'
  <1>1. /\ pc'[w] = "idle" /\ data'[w] = None /\ addr'[w] = None
        /\ \A x \in Writer \ {w} : pc'[x] = pc[x] /\ addr'[x] = addr[x]
    BY DEF Return, TypeOK
  <1>2. Position(w)'
    <2> USE <1>1
    <2>1. (data[w] = None)' /\ (addr[w] = None)' /\ (pc[w] = "idle")'
      OBVIOUS
    <2> QED BY <2>1 DEF Position
  <1>3. \A x \in Writer : pc[x] # "idle" => addr[x] # None
    BY DEF Position
  <1>4. Distinct'
    BY <1>1, <1>3 DEF Distinct
  <1> QED BY <1>2, <1>4

\* The initial states satisfy the inductive invariant.
LEMMA IndInvInit == Init => IndInv
  <1> SUFFICES ASSUME Init PROVE IndInv
    OBVIOUS
  <1>1. TypeOK
    BY AttemptsAssumption DEF Init, TypeOK, File, Partial, Absent, Name
  <1>2. \A w \in Writer : Position(w)
    BY DEF Init, Position
  <1>3. Distinct
    BY DEF Init, Distinct
  <1>4. TargetWhole
    BY DEF Init, TargetWhole
  <1> QED BY <1>1, <1>2, <1>3, <1>4 DEF IndInv

\* Every step of every caller, and a loss of power, preserves it.
LEMMA IndInvNext == IndInv /\ [Next]_vars => IndInv'
  <1> SUFFICES ASSUME IndInv, [Next]_vars PROVE IndInv'
    OBVIOUS
  <1> USE AttemptsAssumption, NoneAssumption
  <1>a. /\ TypeOK /\ Distinct /\ TargetWhole
        /\ \A w \in Writer : Position(w)
    BY DEF IndInv
  <1>b. \A w \in Writer : pc[w] # "idle" => TempName(w) \in Name
    BY <1>a DEF TypeOK, TempName, Name, Position
  <1>c. \A w, x \in Writer : w # x /\ pc[w] # "idle" => TempName(w) # TempName(x)
    BY <1>a DEF Distinct, TempName
  <1>d. Partial # Absent /\ \A i, t : t # "absent" => [img |-> i, st |-> t] # Absent
    BY DEF Partial, Absent
  <1>1. ASSUME NEW w \in Writer, NEW d \in Image, Begin(w, d) PROVE IndInv'
    <2>1. TypeOK'
      BY <1>1, <1>a DEF Begin, TypeOK
    <2>2. \A x \in Writer : Position(x)'
      BY <1>1, <1>a DEF Begin, TypeOK, Position, TempName
    <2>3. Distinct'
      BY <1>1, <1>a DEF Begin, TypeOK, Distinct, Position
    <2>4. TargetWhole'
      BY <1>1, <1>a DEF Begin, TargetWhole
    <2> QED BY <2>1, <2>2, <2>3, <2>4 DEF IndInv
  <1>2. ASSUME NEW w \in Writer, Step(w) PROVE IndInv'
    <2>1. CASE Open(w)
      <3>1. TypeOK'
        BY <2>1, <1>a, <1>b DEF Open, Goto, Return, TypeOK, File, Partial, Absent
      <3>2. \A x \in Writer \ {w} :
              /\ pc'[x] = pc[x] /\ data'[x] = data[x] /\ addr'[x] = addr[x]
              /\ attempt'[x] = attempt[x] /\ ok'[x] = ok[x]
              /\ pc[x] # "idle" => temp'[TempName(x)] = temp[TempName(x)]
        BY <2>1, <1>a, <1>b, <1>c DEF Open, Goto, Return, TypeOK
      <3>3. \A x \in Writer \ {w} : Position(x)'
        BY <3>2, <1>a, OthersKeep
      <3>4. Position(w)' /\ Distinct'
        <4>1. CASE Return(w)
          BY <4>1, <1>a, ReturnKeeps
        <4>2. CASE pc' = [pc EXCEPT ![w] = "write"]
          <5>1. /\ pc'[w] = "write" /\ ok'[w] = 1 /\ TempName(w)' = TempName(w)
                /\ temp'[TempName(w)] = Partial /\ UNCHANGED <<data, addr>>
            BY <2>1, <4>2, <1>a, <1>b DEF Open, Goto, Return, TypeOK, TempName
          <5>2. Position(w)'
            BY <5>1, <2>1, <1>a DEF Position, Open
          <5>3. Distinct'
            BY <5>1, <4>2, <2>1, <1>a DEF Distinct, Open, TypeOK
          <5> QED BY <5>2, <5>3
        <4>3. CASE UNCHANGED <<temp, pc, ok, data, addr>>
          BY <4>3, <2>1, <1>a DEF Position, Distinct, Open
        <4> QED BY <2>1, <4>1, <4>2, <4>3 DEF Open, Goto
      <3>6. TargetWhole'
        BY <2>1, <1>a DEF Open, Goto, Return, TargetWhole
      <3> QED BY <3>1, <3>3, <3>4, <3>6 DEF IndInv
    <2>2. CASE WriteTemp(w)
      <3>a. /\ pc[w] = "write" /\ pc'[w] \in {"sync", "close"} /\ data[w] \in Image
            /\ UNCHANGED <<target, prior, data, addr, attempt>> /\ TempName(w)' = TempName(w)
        BY <2>2, <1>a DEF WriteTemp, Fail, Goto, TypeOK, Position, TempName
      <3>b. \/ /\ temp' = [temp EXCEPT ![TempName(w)] = [img |-> data[w], st |-> "written"]]
               /\ pc' = [pc EXCEPT ![w] = "sync"] /\ ok' = ok
            \/ /\ temp' = temp
               /\ pc' = [pc EXCEPT ![w] = "close"] /\ ok' = [ok EXCEPT ![w] = 0]
        BY <2>2, <1>a, <1>b DEF WriteTemp, Fail, Goto, Position
      <3>c. [img |-> data[w], st |-> "written"] \in File
        BY <3>a DEF File
      <3>1. TypeOK'
        BY <3>a, <3>b, <3>c, <1>a, <1>b DEF TypeOK
      <3>2. \A x \in Writer \ {w} :
              /\ pc'[x] = pc[x] /\ data'[x] = data[x] /\ addr'[x] = addr[x]
              /\ attempt'[x] = attempt[x] /\ ok'[x] = ok[x]
              /\ pc[x] # "idle" => temp'[TempName(x)] = temp[TempName(x)]
        BY <2>2, <1>a, <1>b, <1>c DEF WriteTemp, Fail, Goto, TypeOK
      <3>3. \A x \in Writer \ {w} : Position(x)'
        BY <3>2, <1>a, OthersKeep
      <3>4. Position(w)'
        <4>1. pc'[w] = "sync" /\ ok'[w] = 1 => temp'[TempName(w)] = [img |-> data[w], st |-> "written"]
          BY <3>a, <3>b, <1>a, <1>b DEF TypeOK
        <4>2. temp'[TempName(w)] # Absent
          <5>1. temp[TempName(w)] # Absent
            BY <3>a, <1>a, <1>d DEF Position
          <5> QED BY <3>b, <5>1, <1>a, <1>b, <1>d, <3>a DEF TypeOK
        <4>3. pc'[w] = "sync" => ok'[w] = 1
          BY <3>a, <3>b, <1>a DEF TypeOK, Position
        <4>4. data'[w] # None /\ addr'[w] # None
          BY <3>a, <1>a DEF Position
        <4>5. pc'[w] = "close" => ok'[w] # 1
          BY <3>a, <3>b, <1>a DEF TypeOK
        <4> QED BY <3>a, <4>1, <4>2, <4>3, <4>4, <4>5 DEF Position
      <3>5. Distinct'
        BY <2>2, <1>a DEF WriteTemp, Fail, Goto, TypeOK, Distinct, Position
      <3>6. TargetWhole'
        BY <2>2, <1>a DEF WriteTemp, Fail, Goto, TargetWhole
      <3> QED BY <3>1, <3>3, <3>4, <3>5, <3>6 DEF IndInv
    <2>3. CASE SyncTemp(w)
      <3>a. /\ pc[w] = "sync" /\ pc'[w] \in {"close", "close"} /\ data[w] \in Image
            /\ UNCHANGED <<target, prior, data, addr, attempt>> /\ TempName(w)' = TempName(w)
        BY <2>3, <1>a DEF SyncTemp, Fail, Goto, TypeOK, Position, TempName
      <3>b. \/ /\ temp' = [temp EXCEPT ![TempName(w)] = [img |-> data[w], st |-> "synced"]]
               /\ pc' = [pc EXCEPT ![w] = "close"] /\ ok' = ok
            \/ /\ temp' = temp
               /\ pc' = [pc EXCEPT ![w] = "close"] /\ ok' = [ok EXCEPT ![w] = 0]
        <4>1. temp[TempName(w)] = [img |-> data[w], st |-> "written"]
          BY <3>a, <1>a DEF Position
        <4>0. [temp[TempName(w)] EXCEPT !.st = "synced"] = [img |-> data[w], st |-> "synced"]
          BY <4>1
        <4>2. [temp EXCEPT ![TempName(w)].st = "synced"]
                = [temp EXCEPT ![TempName(w)] = [img |-> data[w], st |-> "synced"]]
          BY <4>0, Zenon
        <4> QED BY <4>2, <2>3 DEF SyncTemp, Fail, Goto
      <3>c. [img |-> data[w], st |-> "synced"] \in File
        BY <3>a DEF File
      <3>1. TypeOK'
        BY <3>a, <3>b, <3>c, <1>a, <1>b DEF TypeOK
      <3>2. \A x \in Writer \ {w} :
              /\ pc'[x] = pc[x] /\ data'[x] = data[x] /\ addr'[x] = addr[x]
              /\ attempt'[x] = attempt[x] /\ ok'[x] = ok[x]
              /\ pc[x] # "idle" => temp'[TempName(x)] = temp[TempName(x)]
        BY <2>3, <1>a, <1>b, <1>c DEF SyncTemp, Fail, Goto, TypeOK
      <3>3. \A x \in Writer \ {w} : Position(x)'
        BY <3>2, <1>a, OthersKeep
      <3>4. Position(w)'
        <4>1. pc'[w] = "close" /\ ok'[w] = 1 => temp'[TempName(w)] = [img |-> data[w], st |-> "synced"]
          BY <3>a, <3>b, <1>a, <1>b DEF TypeOK
        <4>2. temp'[TempName(w)] # Absent
          <5>1. temp[TempName(w)] # Absent
            BY <3>a, <1>a, <1>d DEF Position
          <5> QED BY <3>b, <5>1, <1>a, <1>b, <1>d, <3>a DEF TypeOK
        <4>3. pc'[w] = "sync" => ok'[w] = 1
          BY <3>a, <3>b, <1>a DEF TypeOK, Position
        <4>4. data'[w] # None /\ addr'[w] # None
          BY <3>a, <1>a DEF Position
        <4> QED BY <3>a, <4>1, <4>2, <4>3, <4>4 DEF Position
      <3>5. Distinct'
        BY <2>3, <1>a DEF SyncTemp, Fail, Goto, TypeOK, Distinct, Position
      <3>6. TargetWhole'
        BY <2>3, <1>a DEF SyncTemp, Fail, Goto, TargetWhole
      <3> QED BY <3>1, <3>3, <3>4, <3>5, <3>6 DEF IndInv
    <2>4. CASE CloseTemp(w)
      <3>1. TypeOK'
        BY <2>4, <1>a, <1>b DEF CloseTemp, Fail, Goto, TypeOK, File, Partial, Absent
      <3>2. \A x \in Writer \ {w} :
              /\ pc'[x] = pc[x] /\ data'[x] = data[x] /\ addr'[x] = addr[x]
              /\ attempt'[x] = attempt[x] /\ ok'[x] = ok[x]
              /\ pc[x] # "idle" => temp'[TempName(x)] = temp[TempName(x)]
        BY <2>4, <1>a, <1>b, <1>c DEF CloseTemp, Fail, Goto, TypeOK
      <3>3. \A x \in Writer \ {w} : Position(x)'
        BY <3>2, <1>a, OthersKeep
      <3>4. Position(w)'
        BY <2>4, <1>a, <1>b DEF CloseTemp, Fail, Goto, TypeOK, File, Partial, Absent, Position, TempName
      <3>5. Distinct'
        BY <2>4, <1>a DEF CloseTemp, Fail, Goto, TypeOK, Distinct, Position
      <3>6. TargetWhole'
        BY <2>4, <1>a DEF CloseTemp, Fail, Goto, TargetWhole
      <3> QED BY <3>1, <3>3, <3>4, <3>5, <3>6 DEF IndInv
    <2>5. CASE Rename(w)
      <3>a. /\ pc[w] = "rename" /\ data[w] \in Image
            /\ temp[TempName(w)] = [img |-> data[w], st |-> "synced"]
        BY <2>5, <1>a DEF Rename, Position, TypeOK
      <3>b. [img |-> data[w], st |-> "synced"] \in File
        BY <3>a DEF File
      <3>c. \/ /\ target' = [img |-> data[w], st |-> "synced"] /\ prior' = target
               /\ temp' = [temp EXCEPT ![TempName(w)] = Absent] /\ Return(w)
            \/ Fail(w, "remove") /\ UNCHANGED <<target, prior, attempt>>
        BY <2>5, <3>a DEF Rename
      <3>1. TypeOK'
        BY <3>b, <3>c, <1>a, <1>b DEF TypeOK, Return, Fail, Goto
      <3>2. \A x \in Writer \ {w} :
              /\ pc'[x] = pc[x] /\ data'[x] = data[x] /\ addr'[x] = addr[x]
              /\ attempt'[x] = attempt[x] /\ ok'[x] = ok[x]
              /\ pc[x] # "idle" => temp'[TempName(x)] = temp[TempName(x)]
        BY <3>a, <3>c, <1>a, <1>b, <1>c DEF Fail, Goto, Return, TypeOK
      <3>3. \A x \in Writer \ {w} : Position(x)'
        BY <3>2, <1>a, OthersKeep
      <3>4. Position(w)' /\ Distinct'
        <4>1. CASE Return(w)
          BY <4>1, <1>a, ReturnKeeps
        <4>2. CASE Fail(w, "remove") /\ UNCHANGED attempt
          <5>1. /\ pc'[w] = "remove" /\ TempName(w)' = TempName(w)
                /\ UNCHANGED <<temp, data, addr>>
            BY <4>2, <1>a DEF Fail, Goto, TypeOK, TempName
          <5>2. Position(w)'
            BY <5>1, <3>a, <1>a, <1>d DEF Position
          <5>3. Distinct'
            BY <5>1, <4>2, <3>a, <1>a DEF Distinct, Fail, Goto, TypeOK
          <5> QED BY <5>2, <5>3
        <4> QED BY <3>c, <4>1, <4>2
      <3>6. TargetWhole'
        BY <3>c, <1>a DEF TargetWhole
      <3> QED BY <3>1, <3>3, <3>4, <3>6 DEF IndInv
    <2>6. CASE RemoveTemp(w)
      <3>1. TypeOK'
        BY <2>6, <1>a, <1>b DEF RemoveTemp, Return, TypeOK, File, Partial, Absent
      <3>2. \A x \in Writer \ {w} :
              /\ pc'[x] = pc[x] /\ data'[x] = data[x] /\ addr'[x] = addr[x]
              /\ attempt'[x] = attempt[x] /\ ok'[x] = ok[x]
              /\ pc[x] # "idle" => temp'[TempName(x)] = temp[TempName(x)]
        BY <2>6, <1>a, <1>b, <1>c DEF RemoveTemp, Return, TypeOK
      <3>3. \A x \in Writer \ {w} : Position(x)'
        BY <3>2, <1>a, OthersKeep
      <3>4. Position(w)'
        BY <2>6, <1>a, <1>b DEF RemoveTemp, Return, TypeOK, File, Partial, Absent, Position, TempName
      <3>5. Distinct'
        BY <2>6, <1>a DEF RemoveTemp, Return, TypeOK, Distinct, Position
      <3>6. TargetWhole'
        BY <2>6, <1>a DEF RemoveTemp, Return, TargetWhole
      <3> QED BY <3>1, <3>3, <3>4, <3>5, <3>6 DEF IndInv
    <2> QED BY <1>2, <2>1, <2>2, <2>3, <2>4, <2>5, <2>6 DEF Step
  <1>3. CASE PowerLoss
    <2>1. target' \in {target, prior} /\ prior' \in {target, prior}
      BY <1>3, <1>a DEF PowerLoss, Torn, TargetWhole
    <2>2. TypeOK'
      BY <1>3, <2>1, <1>a DEF PowerLoss, Torn, TypeOK, Partial, Absent, File
    <2>3. (\A w \in Writer : Position(w)') /\ Distinct'
      BY <1>3 DEF PowerLoss, Position, Distinct
    <2>4. TargetWhole'
      BY <2>1, <1>a DEF TargetWhole
    <2> QED BY <2>2, <2>3, <2>4 DEF IndInv
  <1>4. CASE UNCHANGED vars
    BY <1>4, <1>a DEF vars, IndInv, TypeOK, Position, TempName, Distinct, TargetWhole
  <1> QED BY <1>1, <1>2, <1>3, <1>4 DEF Next

\* The inductive invariant holds in every reachable state.
THEOREM Inductive == Spec => []IndInv
  BY IndInvInit, IndInvNext, PTL DEF Spec

\* The destination of genesis_atomic_file_store is whole in every reachable
\* state, after any failures and power losses.
THEOREM DestinationWhole == Spec => []TargetWhole
  <1>1. IndInv => TargetWhole
    BY DEF IndInv
  <1> QED BY <1>1, Inductive, PTL

\* A caller's temporary holds what that caller wrote, until it is removed.
THEOREM TemporariesDisjoint == Spec => []OwnTemporary
  <1>1. ASSUME NEW w \in Writer, Position(w)
        PROVE  /\ pc[w] = "write" => temp[TempName(w)] = Partial
               /\ pc[w] \in {"sync", "close", "rename"} /\ ok[w] = 1 => temp[TempName(w)].img = data[w]
               /\ pc[w] = "remove" => temp[TempName(w)] # Absent
    <2>1. pc[w] = "sync" => temp[TempName(w)].img = data[w]
      BY <1>1 DEF Position
    <2>2. pc[w] = "close" /\ ok[w] = 1 => temp[TempName(w)].img = data[w]
      BY <1>1 DEF Position
    <2>3. pc[w] = "rename" => temp[TempName(w)].img = data[w]
      BY <1>1 DEF Position
    <2> QED BY <1>1, <2>1, <2>2, <2>3 DEF Position
  <1>2. IndInv => OwnTemporary
    BY <1>1 DEF IndInv, OwnTemporary
  <1> QED BY <1>2, Inductive, PTL

\* The store implements AtomicStore: it replaces the file at one instant with
\* the whole image, or not at all.
THEOREM StoreIsAtomic == Spec => RefinesAtomicStore
  <1> USE NoneAssumption DEF Abstract!vars
  <1>1. Init => Abstract!Init
    BY DEF Init, Abstract!Init, Shown
  <1>2. IndInv /\ [Next]_vars => [Abstract!Next]_(Abstract!vars)
    <2> SUFFICES ASSUME IndInv, [Next]_vars PROVE [Abstract!Next]_(Abstract!vars)
      OBVIOUS
    <2>a. TypeOK /\ TargetWhole /\ \A w \in Writer : Position(w)
      BY DEF IndInv
    <2>1. ASSUME NEW w \in Writer, NEW d \in Image, Begin(w, d) PROVE Abstract!Start(w, d)
      BY <2>1, <2>a DEF Begin, Abstract!Start, Position
    <2>2. ASSUME NEW w \in Writer, Return(w), pc[w] # "idle", UNCHANGED <<target, prior>>
          PROVE Abstract!Abort(w)
      BY <2>2, <2>a DEF Return, Abstract!Abort, Position
    <2>3. ASSUME NEW w \in Writer, Rename(w)
          PROVE Abstract!Commit(w) \/ UNCHANGED <<target, prior, data>>
      <3>0. /\ temp[TempName(w)] = [img |-> data[w], st |-> "synced"]
            /\ data[w] # None
        BY <2>3, <2>a DEF Rename, Position
      <3>1. CASE target' = temp[TempName(w)] /\ prior' = target /\ Return(w)
        <4>1. Shown(target)' = data[w]
          BY <3>0, <3>1 DEF Shown
        <4>2. Shown(prior)' = Shown(target)
          BY <3>1 DEF Shown
        <4> QED BY <3>0, <3>1, <4>1, <4>2 DEF Return, Abstract!Commit
      <3> QED BY <2>3, <3>1 DEF Rename, Fail, Goto
    <2>4. ASSUME NEW w \in Writer, Step(w)
          PROVE Abstract!Commit(w) \/ Abstract!Abort(w) \/ UNCHANGED <<target, prior, data>>
      BY <2>2, <2>3, <2>4 DEF Step, Open, WriteTemp, SyncTemp, CloseTemp, RemoveTemp, Fail, Goto
    <2>5. CASE PowerLoss
      BY <2>5, <2>a DEF PowerLoss, Torn, TargetWhole, Shown, Abstract!Next, Abstract!PowerLoss
    <2>6. UNCHANGED <<target, prior, data>> => UNCHANGED Abstract!vars
      BY DEF Shown
    <2>7. UNCHANGED vars => UNCHANGED <<target, prior, data>>
      BY DEF vars
    <2> QED BY <2>1, <2>4, <2>5, <2>6, <2>7 DEF Next, Abstract!Next
  <1> QED BY <1>1, <1>2, Inductive, PTL DEF Spec, RefinesAtomicStore, Abstract!Spec

=============================================================================
