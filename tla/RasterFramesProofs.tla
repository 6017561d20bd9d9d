------------------------- MODULE RasterFramesProofs -------------------------
(***************************************************************************)
(* Proofs about RasterFrames for any number of presenters, machines, rows  *)
(* and frames: leased frames are immutable and complete, and every slot    *)
(* counts its leases exactly.  The argument: a frame changes only in the   *)
(* slot the renderer has marked WRITING, a slot is marked only when it     *)
(* counts no lease, and a presenter is counted from its compare-and-swap   *)
(* to its release.                                                         *)
(***************************************************************************)
EXTENDS RasterFrames, FiniteSetTheorems, TLAPS

Frames == [serial : Int, owner : Vdp \cup {None}, valid : {0, 1},
           captured : SUBSET Line, bound : SUBSET Line, rows : [Line -> Int]]

ProducerPlaces == {"idle", "begin", "probe", "start", "freebegin", "freeidle", "release", "publish"}
Owning == {"start", "freebegin", "freeidle", "release", "publish"}

Types ==
  /\ state \in [Slot -> Int] /\ frame \in [Slot -> Frames]
  /\ published \in {-1} \cup Slot /\ build \in {None} \cup Slot
  /\ owner \in {None} \cup Vdp /\ line \in Line /\ serial \in Int
  /\ ppc \in ProducerPlaces /\ pub \in {-1} \cup Slot /\ probe \in Int
  /\ pc \in [Reader -> Holding \cup {"idle", "retry", "count", "swap"}]
  /\ at \in [Reader -> Slot] /\ count \in [Reader -> Int] /\ snap \in [Reader -> Frames]

\* The renderer's slot is the one that is marked, until it is published.
Marked ==
  /\ \A s \in Slot : state[s] = WRITING <=> (build = s /\ ppc # "publish")
  /\ ppc \in Owning => build # None
  /\ ppc \in {"begin", "probe"} => build = None
  /\ ppc = "probe" => pub = published

Counted ==
  \A s \in Slot : /\ state[s] = WRITING => Holders(s) = {}
                  /\ state[s] # WRITING => state[s] = Cardinality(Holders(s))

RowsTagged == \A s \in Slot : \A l \in frame[s].captured : frame[s].rows[l] = frame[s].serial

PublishedOK ==
  /\ published # -1 => Complete(frame[published]) /\ published # build
  /\ ppc \in {"release", "publish"} => Complete(frame[build])

ReadersOK ==
  \A r \in Reader :
    /\ pc[r] = "swap" => count[r] # WRITING
    /\ pc[r] \in {"drop", "dropback"} => count[r] > 0
    /\ pc[r] = "valid" => Complete(frame[at[r]])
    /\ pc[r] = "lease" => frame[at[r]] = snap[r] /\ Complete(frame[at[r]])

IndInv == Types /\ Marked /\ Counted /\ RowsTagged /\ PublishedOK /\ ReadersOK

-----------------------------------------------------------------------------
LEMMA HoldersFinite == \A s \in Slot : IsFiniteSet(Holders(s))
BY FS_Subset, ReadersFinite DEF Holders

LEMMA Numbers == None \notin Slot /\ WRITING \notin Slot /\ Slot = {0, 1, 2} /\ 0 \in Line /\ WRITING = -1
BY NoneDistinct, ReadersFinite DEF Slot, Line, WRITING

\* The initial state satisfies the invariant: no lease, no frame.
LEMMA InitInv == Init => IndInv
<1> SUFFICES ASSUME Init PROVE IndInv
  OBVIOUS
<1>1. EmptyFrame \in Frames
  BY DEF EmptyFrame, Frames
<1>2. Types
  BY <1>1, Numbers DEF Init, Types, Holding, ProducerPlaces
<1>3. Marked
  BY Numbers DEF Init, Marked, Owning
<1>4. \A s \in Slot : Holders(s) = {}
  BY DEF Init, Holders, Holding
<1>5. Counted
  BY <1>4, FS_EmptySet, Numbers DEF Init, Counted
<1>6. RowsTagged
  BY DEF Init, RowsTagged, EmptyFrame
<1>7. PublishedOK /\ ReadersOK
  BY DEF Init, PublishedOK, ReadersOK
<1> QED
  BY <1>2, <1>3, <1>5, <1>6, <1>7 DEF IndInv

-----------------------------------------------------------------------------
(* Steps of the renderer.                                                  *)

\* While the renderer owns a slot that is not yet freed, no presenter is
\* counted in it, so the frame may change.
LEMMA OwnedUnleased ==
  ASSUME IndInv, build # None, ppc # "publish"
  PROVE  build \in Slot /\ state[build] = WRITING /\ Holders(build) = {}
BY DEF IndInv, Types, Marked, Counted

LEMMA FrameWrite ==
  ASSUME IndInv, build # None, ppc # "publish", NEW f \in Frames,
         frame' = [frame EXCEPT ![build] = f], UNCHANGED readers
  PROVE  /\ frame' \in [Slot -> Frames] /\ frame'[build] = f
         /\ \A s \in Slot : s # build => frame'[s] = frame[s]
         /\ ReadersOK'
<1>1. build \in Slot /\ Holders(build) = {}
  BY OwnedUnleased
<1>2. frame \in [Slot -> Frames] /\ at \in [Reader -> Slot]
  BY DEF IndInv, Types
<1>3. /\ frame' \in [Slot -> Frames] /\ frame'[build] = f
      /\ \A s \in Slot : s # build => frame'[s] = frame[s]
  BY <1>1, <1>2
<1>4. \A r \in Reader : pc[r] \in {"valid", "lease"} => at[r] # build
  BY <1>1 DEF Holders, Holding
<1>5. ReadersOK'
  <2> SUFFICES ASSUME NEW r \in Reader
      PROVE  /\ pc'[r] = "swap" => count'[r] # WRITING
             /\ pc'[r] \in {"drop", "dropback"} => count'[r] > 0
             /\ pc'[r] = "valid" => Complete(frame'[at'[r]])
             /\ pc'[r] = "lease" => frame'[at'[r]] = snap'[r] /\ Complete(frame'[at'[r]])
    BY DEF ReadersOK, Complete, WRITING
  <2>1. pc' = pc /\ at' = at /\ count' = count /\ snap' = snap
    BY DEF readers
  <2>2. pc[r] \in {"valid", "lease"} => frame'[at[r]] = frame[at[r]]
    BY <1>2, <1>3, <1>4
  <2> QED
    BY <2>1, <2>2 DEF IndInv, ReadersOK
<1> QED
  BY <1>3, <1>5

LEMMA ReadersKeep ==
  ASSUME IndInv, UNCHANGED <<frame, readers>>
  PROVE  ReadersOK'
BY DEF IndInv, ReadersOK, readers, Complete, WRITING

LEMMA HoldersKeep ==
  ASSUME UNCHANGED readers
  PROVE  \A s \in Slot : Holders(s)' = Holders(s)
BY DEF readers, Holders

LEMMA CountedKeep ==
  ASSUME IndInv, UNCHANGED <<state, readers>>
  PROVE  Counted'
BY HoldersKeep DEF IndInv, Counted, WRITING

\* Every step of the renderer preserves the invariant.
LEMMA ProducerInv == IndInv /\ ProducerStep => IndInv'
<1> SUFFICES ASSUME IndInv, ProducerStep PROVE IndInv'
  OBVIOUS
<1> USE Numbers
<1>0. Types /\ Marked /\ Counted /\ RowsTagged /\ PublishedOK /\ ReadersOK
  BY DEF IndInv
<1>a. ASSUME build # None, ppc # "publish", NEW f \in Frames,
             frame' = [frame EXCEPT ![build] = f], UNCHANGED readers,
             \A l \in f.captured : f.rows[l] = f.serial
      PROVE  RowsTagged' /\ ReadersOK' /\ frame' \in [Slot -> Frames] /\ frame'[build] = f
  <2>1. ReadersOK' /\ frame' \in [Slot -> Frames] /\ frame'[build] = f
        /\ \A s \in Slot : s # build => frame'[s] = frame[s]
    BY <1>a, FrameWrite
  <2>2. RowsTagged'
    BY <2>1, <1>0, <1>a DEF RowsTagged
  <2> QED
    BY <2>1, <2>2
<1>b. ASSUME build # None, ppc # "publish", UNCHANGED readers,
             frame' = [frame EXCEPT ![build].valid = 0]
      PROVE  /\ RowsTagged' /\ ReadersOK' /\ frame' \in [Slot -> Frames]
             /\ \A s \in Slot : s # build => frame'[s] = frame[s]
  <2> DEFINE f == [frame[build] EXCEPT !.valid = 0]
  <2>1. build \in Slot /\ frame[build] \in Frames
    BY <1>0, <1>b DEF Types
  <2>2. f \in Frames /\ f.captured = frame[build].captured /\ f.rows = frame[build].rows
        /\ f.serial = frame[build].serial
    BY <2>1 DEF Frames
  <2>3. frame' = [frame EXCEPT ![build] = f]
    BY <1>b, Zenon
  <2>4. \A l \in f.captured : f.rows[l] = f.serial
    BY <2>1, <2>2, <1>0 DEF RowsTagged
  <2> HIDE DEF f
  <2> QED
    BY <1>a, <1>b, <2>2, <2>3, <2>4, FrameWrite, <1>0
<1>1. ASSUME NEW v \in Vdp, BeginFrame(v) PROVE IndInv'
  <2> USE <1>1 DEF BeginFrame, Cancel, Freeing
  <2>1. UNCHANGED readers /\ UNCHANGED state
    OBVIOUS
  <2>2. CASE build = None
    <3>1. ppc' = "begin" /\ frame' = frame
      BY <2>2
    <3> QED
      BY <3>1, <2>1, <1>0, <2>2, ReadersKeep, CountedKeep
         DEF IndInv, Types, Marked, RowsTagged, PublishedOK, Owning, ProducerPlaces, readers, Complete, WRITING
  <2>3. CASE build # None
    <3>1. ppc' = "freebegin" /\ frame' = [frame EXCEPT ![build].valid = 0] /\ ppc = "idle"
      BY <2>3
    <3>2. RowsTagged' /\ ReadersOK' /\ frame' \in [Slot -> Frames]
          /\ \A s \in Slot : s # build => frame'[s] = frame[s]
      BY <1>b, <2>1, <2>3, <3>1
    <3> QED
      BY <3>1, <3>2, <2>1, <1>0, <2>3, CountedKeep
         DEF IndInv, Types, Marked, PublishedOK, Owning, ProducerPlaces, readers, Complete, WRITING
  <2> QED
    BY <2>2, <2>3
<1>2. ASSUME NEW v \in Vdp, NEW l \in Line, BeginRow(v, l) PROVE IndInv'
  <2> USE <1>2 DEF BeginRow
  <2>1. UNCHANGED <<state, frame, readers>>
    OBVIOUS
  <2>2. line' \in Line /\ published' \in {-1, published}
    BY <1>0 DEF Types
  <2> QED
    BY <2>1, <2>2, <1>0, ReadersKeep, CountedKeep
       DEF IndInv, Types, Marked, RowsTagged, PublishedOK, Owning, ProducerPlaces, readers, Complete, WRITING
<1>3. ASSUME NEW next \in {"begin", "idle"}, CancelFree(next) PROVE IndInv'
  <2> USE <1>3 DEF CancelFree, Freeing
  <2>1. UNCHANGED <<frame, readers>> /\ ppc \in {"freebegin", "freeidle"} /\ ppc' \in {"begin", "idle"}
    OBVIOUS
  <2>2. build \in Slot /\ Holders(build) = {}
    BY <2>1, <1>0, OwnedUnleased DEF Marked, Owning
  <2>3. state' = [state EXCEPT ![build] = 0] /\ build' = None /\ line' = 0
    OBVIOUS
  <2>4. Counted'
    <3>1. Cardinality(Holders(build)) = 0
      BY <2>2, FS_EmptySet
    <3> QED
      BY <3>1, <2>1, <2>2, <2>3, <1>0, HoldersKeep DEF Counted, Types, WRITING
  <2> QED
    BY <2>1, <2>2, <2>3, <2>4, <1>0, ReadersKeep
       DEF IndInv, Types, Marked, RowsTagged, PublishedOK, Owning, ProducerPlaces, readers, Complete, WRITING
<1>4. ASSUME ReadPublished \/ NoSlot PROVE IndInv'
  <2>1. UNCHANGED <<state, frame, readers>>
    BY <1>4 DEF ReadPublished, NoSlot
  <2> QED
    BY <1>4, <2>1, <1>0, ReadersKeep, CountedKeep
       DEF ReadPublished, NoSlot, IndInv, Types, Marked, RowsTagged, PublishedOK, Owning, ProducerPlaces,
           readers, Complete, WRITING
<1>5. ASSUME Probe PROVE IndInv'
  <2> USE <1>5 DEF Probe
  <2>1. UNCHANGED <<frame, readers, published, pub, owner, line, serial>> /\ ppc = "probe"
    OBVIOUS
  <2>2. CASE probe # pub /\ state[probe] = 0
    <3>1. state' = [state EXCEPT ![probe] = WRITING] /\ build' = probe /\ ppc' = "start" /\ probe' = probe
      BY <2>2
    <3>2. Holders(probe) = {}
      <4>1. Cardinality(Holders(probe)) = 0
        BY <2>2, <1>0 DEF Counted, WRITING
      <4> QED
        BY <4>1, FS_EmptySet, HoldersFinite
    <3>3. Counted'
      BY <3>1, <3>2, <2>1, <1>0, HoldersKeep DEF Counted, Types, WRITING
    <3>4. published # probe
      BY <2>1, <2>2, <1>0 DEF Marked
    <3> QED
      BY <3>1, <3>3, <3>4, <2>1, <1>0, ReadersKeep
         DEF IndInv, Types, Marked, RowsTagged, PublishedOK, Owning, ProducerPlaces, readers, Complete, WRITING
  <2>3. CASE ~(probe # pub /\ state[probe] = 0)
    <3>1. UNCHANGED <<state, build, ppc>> /\ probe' = probe + 1
      BY <2>3
    <3> QED
      BY <3>1, <2>1, <1>0, ReadersKeep, CountedKeep
         DEF IndInv, Types, Marked, RowsTagged, PublishedOK, Owning, ProducerPlaces, readers, Complete, WRITING
  <2> QED
    BY <2>2, <2>3
<1>6. ASSUME StartFrame PROVE IndInv'
  <2> USE <1>6 DEF StartFrame
  <2> DEFINE f == [frame[build] EXCEPT !.serial = serial + 1, !.owner = owner, !.valid = 1,
                                       !.captured = {}, !.bound = {}]
  <2>1. build \in Slot /\ build # None /\ ppc = "start" /\ frame[build] \in Frames
    BY <1>0 DEF Types, Marked, Owning
  <2>2. f \in Frames /\ f.captured = {}
    <3>1. owner \in Vdp \cup {None} /\ serial + 1 \in Int
      BY <1>0 DEF Types
    <3> HIDE <1>6 DEF StartFrame
    <3> QED
      BY <2>1, <3>1 DEF Frames
  <2>3. frame' = [frame EXCEPT ![build] = f]
    BY Zenon
  <2>4. UNCHANGED <<state, published, build, owner, readers>> /\ ppc' = "idle" /\ line' = 0
        /\ serial' = serial + 1 /\ pub' = -1 /\ probe' = 0
    OBVIOUS
  <2> HIDE DEF f
  <2>5. RowsTagged' /\ ReadersOK' /\ frame' \in [Slot -> Frames]
        /\ \A s \in Slot : s # build => frame'[s] = frame[s]
    BY <1>a, <2>1, <2>2, <2>3, <2>4, FrameWrite
  <2> HIDE <1>6 DEF StartFrame
  <2> QED
    BY <2>1, <2>4, <2>5, <1>0, CountedKeep
       DEF IndInv, Types, Marked, PublishedOK, Owning, ProducerPlaces, readers, Complete, WRITING
<1>7. ASSUME Ineligible PROVE IndInv'
  <2> USE <1>7 DEF Ineligible
  <2>1. UNCHANGED <<state, build, owner, line, serial, ppc, pub, probe, readers>> /\ ppc = "idle"
        /\ published' = -1
    OBVIOUS
  <2>2. RowsTagged' /\ ReadersOK' /\ frame' \in [Slot -> Frames]
    <3>1. CASE build = None
      BY <3>1, <2>1, <1>0, ReadersKeep DEF RowsTagged, Types
    <3>2. CASE build # None
      BY <3>2, <2>1, <1>b
    <3> QED
      BY <3>1, <3>2
  <2> HIDE <1>7 DEF Ineligible
  <2> QED
    BY <2>1, <2>2, <1>0, CountedKeep
       DEF IndInv, Types, Marked, PublishedOK, Owning, ProducerPlaces, readers, Complete, WRITING
<1>8. ASSUME NEW f \in Frames, ppc = "idle", build # None, frame' = [frame EXCEPT ![build] = f],
             \A l \in f.captured : f.rows[l] = f.serial, MaybePublish(f),
             UNCHANGED <<state, published, build, owner, line, serial, enabled, pub, probe, readers>>
      PROVE  IndInv'
  <2>1. RowsTagged' /\ ReadersOK' /\ frame' \in [Slot -> Frames] /\ frame'[build] = f
        /\ \A s \in Slot : s # build => frame'[s] = frame[s]
    BY <1>8, <1>a, FrameWrite
  <2>2. ppc' \in {"idle", "release"} /\ (ppc' = "release" => Complete(f))
    BY <1>8 DEF MaybePublish
  <2>3. PublishedOK'
    BY <2>1, <2>2, <1>8, <1>0 DEF PublishedOK, Types, Complete
  <2> QED
    BY <2>1, <2>2, <2>3, <1>8, <1>0, CountedKeep
       DEF IndInv, Types, Marked, Owning, ProducerPlaces, readers, WRITING
<1>9. ASSUME EndRow PROVE IndInv'
  <2> USE <1>9 DEF EndRow
  <2> DEFINE f == [frame[build] EXCEPT !.rows[line] = frame[build].serial, !.captured = @ \cup {line}]
  <2>1. build \in Slot /\ frame[build] \in Frames /\ line \in Line
    BY <1>0 DEF Types
  <2>2. f \in Frames /\ f.captured = frame[build].captured \cup {line} /\ f.serial = frame[build].serial
        /\ f.rows = [frame[build].rows EXCEPT ![line] = frame[build].serial]
    BY <2>1 DEF Frames
  <2>3. \A l \in f.captured : f.rows[l] = f.serial
    <3> HIDE DEF f
    <3>1. frame[build].rows \in [Line -> Int] /\ frame[build].captured \subseteq Line
      BY <2>1 DEF Frames
    <3> QED
      BY <2>1, <2>2, <3>1, <1>0 DEF RowsTagged
  <2>4. frame' = [frame EXCEPT ![build] = f] /\ MaybePublish(f)
    OBVIOUS
  <2> HIDE DEF f
  <2> QED
    BY <2>2, <2>3, <2>4, <1>8
<1>10. ASSUME NEW l \in Line, BindPalette(l) PROVE IndInv'
  <2> USE <1>10 DEF BindPalette
  <2> DEFINE f == [frame[build] EXCEPT !.bound = @ \cup {l}]
  <2>1. build \in Slot /\ frame[build] \in Frames
    BY <1>0 DEF Types
  <2>2. f \in Frames /\ f.captured = frame[build].captured /\ f.serial = frame[build].serial
        /\ f.rows = frame[build].rows
    BY <2>1 DEF Frames
  <2>3. \A k \in f.captured : f.rows[k] = f.serial
    BY <2>1, <2>2, <1>0 DEF RowsTagged
  <2>4. frame' = [frame EXCEPT ![build] = f] /\ MaybePublish(f)
    OBVIOUS
  <2> HIDE DEF f
  <2> QED
    BY <2>2, <2>3, <2>4, <1>8
<1>11. ASSUME ReleaseSlot PROVE IndInv'
  <2> USE <1>11 DEF ReleaseSlot
  <2>1. UNCHANGED <<frame, published, build, owner, line, serial, pub, probe, readers>>
        /\ ppc = "release" /\ ppc' = "publish" /\ state' = [state EXCEPT ![build] = 0]
    OBVIOUS
  <2>2. build \in Slot /\ Holders(build) = {} /\ build # None
    BY <2>1, <1>0, OwnedUnleased DEF Marked, Owning
  <2>3. Cardinality(Holders(build)) = 0
    BY <2>2, FS_EmptySet
  <2>4. Counted'
    BY <2>1, <2>2, <2>3, <1>0, HoldersKeep DEF Counted, Types, WRITING
  <2> HIDE <1>11 DEF ReleaseSlot
  <2> QED
    BY <2>1, <2>2, <2>4, <1>0, ReadersKeep
       DEF IndInv, Types, Marked, RowsTagged, PublishedOK, Owning, ProducerPlaces, readers, Complete, WRITING
<1>12. ASSUME Publish PROVE IndInv'
  <2>1. UNCHANGED <<state, frame, owner, serial, pub, probe, readers>> /\ ppc = "publish"
        /\ published' = build /\ build' = None /\ ppc' = "idle" /\ line' = 0
    BY <1>12 DEF Publish
  <2> QED
    BY <2>1, <1>0, ReadersKeep, CountedKeep
       DEF IndInv, Types, Marked, RowsTagged, PublishedOK, Owning, ProducerPlaces, readers, Complete, WRITING
<1>13. ASSUME NEW on \in {0, 1}, Reset(on) PROVE IndInv'
  <2> USE <1>13 DEF Reset, Cancel, Freeing
  <2>1. UNCHANGED <<state, build, line, serial, pub, probe, readers>> /\ ppc = "idle" /\ published' = -1
        /\ owner' = None
    OBVIOUS
  <2>2. CASE build = None
    <3>1. ppc' = "idle" /\ frame' = frame
      BY <2>2
    <3> QED
      BY <3>1, <2>1, <2>2, <1>0, ReadersKeep, CountedKeep
         DEF IndInv, Types, Marked, RowsTagged, PublishedOK, Owning, ProducerPlaces, readers, Complete, WRITING
  <2>3. CASE build # None
    <3>1. ppc' = "freeidle" /\ frame' = [frame EXCEPT ![build].valid = 0]
      BY <2>3
    <3>2. RowsTagged' /\ ReadersOK' /\ frame' \in [Slot -> Frames]
      BY <1>b, <2>1, <2>3, <3>1
    <3> QED
      BY <3>1, <3>2, <2>1, <2>3, <1>0, CountedKeep
         DEF IndInv, Types, Marked, PublishedOK, Owning, ProducerPlaces, readers, Complete, WRITING
  <2> QED
    BY <2>2, <2>3
<1> QED
  BY <1>1, <1>2, <1>3, <1>4, <1>5, <1>6, <1>7, <1>9, <1>10, <1>11, <1>12, <1>13 DEF ProducerStep

-----------------------------------------------------------------------------
(* Steps of a presenter.  The slot it is counted in changes only with its  *)
(* place or its index.                                                     *)

\* A step of r that keeps every slot's holders and counters.
LEMMA CountedSame ==
  ASSUME IndInv, NEW r \in Reader, NEW next, NEW i \in Slot, state' = state,
         pc' = [pc EXCEPT ![r] = next], at' = [at EXCEPT ![r] = i],
         (next \in Holding) <=> (pc[r] \in Holding), pc[r] \in Holding => i = at[r]
  PROVE  Counted'
<1>1. pc \in [Reader -> Holding \cup {"idle", "retry", "count", "swap"}] /\ at \in [Reader -> Slot]
  BY DEF IndInv, Types
<1>2. \A s \in Slot : Holders(s)' = Holders(s)
  <2> SUFFICES ASSUME NEW s \in Slot, NEW q \in Reader
      PROVE  (pc'[q] \in Holding /\ at'[q] = s) <=> (pc[q] \in Holding /\ at[q] = s)
    BY DEF Holders
  <2> QED
    BY <1>1
<1> QED
  BY <1>2 DEF IndInv, Counted, WRITING

\* The compare-and-swap of acquire counts r.
LEMMA CountedMore ==
  ASSUME IndInv, NEW r \in Reader, pc[r] \notin Holding, state[at[r]] # WRITING,
         state' = [state EXCEPT ![at[r]] = state[at[r]] + 1],
         pc' = [pc EXCEPT ![r] = "check"], at' = at
  PROVE  Counted' /\ \A s \in Slot : (state'[s] = WRITING) <=> (state[s] = WRITING)
<1>0. PICK i \in Slot : i = at[r]
  BY DEF IndInv, Types
<1>1. /\ pc \in [Reader -> Holding \cup {"idle", "retry", "count", "swap"}] /\ at \in [Reader -> Slot]
      /\ state \in [Slot -> Int]
  BY DEF IndInv, Types
<1>2. Holders(i)' = Holders(i) \cup {r} /\ r \notin Holders(i)
  BY <1>0, <1>1 DEF Holders, Holding
<1>3. \A s \in Slot : s # i => Holders(s)' = Holders(s)
  BY <1>0, <1>1 DEF Holders, Holding
<1>4. Cardinality(Holders(i)') = Cardinality(Holders(i)) + 1 /\ Cardinality(Holders(i)) \in Nat
  BY <1>1, <1>2, HoldersFinite, FS_AddElement, FS_CardinalityType
<1>5. state[i] = Cardinality(Holders(i)) /\ state'[i] = state[i] + 1
  BY <1>0, <1>1 DEF IndInv, Counted
<1>6. \A s \in Slot : s # i => state'[s] = state[s]
  BY <1>0, <1>1
<1>7. state'[i] = Cardinality(Holders(i)') /\ state'[i] # WRITING
  BY <1>4, <1>5 DEF WRITING
<1>8. Counted'
  <2> SUFFICES ASSUME NEW s \in Slot
      PROVE  /\ state'[s] = WRITING => Holders(s)' = {}
             /\ state'[s] # WRITING => state'[s] = Cardinality(Holders(s)')
    BY DEF Counted, WRITING
  <2> QED
    BY <1>3, <1>6, <1>7 DEF IndInv, Counted
<1> QED
  BY <1>5, <1>6, <1>7, <1>8

\* The compare-and-swap of release no longer counts r.
LEMMA CountedLess ==
  ASSUME IndInv, NEW r \in Reader, pc[r] \in Holding, NEW next, next \notin Holding,
         state' = [state EXCEPT ![at[r]] = state[at[r]] - 1],
         pc' = [pc EXCEPT ![r] = next], at' = [at EXCEPT ![r] = 0]
  PROVE  Counted' /\ \A s \in Slot : (state'[s] = WRITING) <=> (state[s] = WRITING)
<1>0. PICK i \in Slot : i = at[r]
  BY DEF IndInv, Types
<1>1. /\ pc \in [Reader -> Holding \cup {"idle", "retry", "count", "swap"}] /\ at \in [Reader -> Slot]
      /\ state \in [Slot -> Int]
  BY DEF IndInv, Types
<1>2. Holders(i)' = Holders(i) \ {r} /\ r \in Holders(i)
  BY <1>0, <1>1 DEF Holders
<1>3. \A s \in Slot : s # i => Holders(s)' = Holders(s)
  BY <1>0, <1>1 DEF Holders
<1>4. /\ Cardinality(Holders(i)') = Cardinality(Holders(i)) - 1 /\ Cardinality(Holders(i)) \in Nat
      /\ Cardinality(Holders(i)') \in Nat
  <2>1. IsFiniteSet(Holders(i)) /\ IsFiniteSet(Holders(i)')
    BY <1>1, <1>2, HoldersFinite, FS_Subset
  <2> QED
    BY <2>1, <1>2, FS_RemoveElement, FS_CardinalityType
<1>5. state[i] # WRITING /\ state[i] = Cardinality(Holders(i)) /\ state'[i] = state[i] - 1
  BY <1>0, <1>1, <1>2 DEF IndInv, Counted
<1>6. \A s \in Slot : s # i => state'[s] = state[s]
  BY <1>0, <1>1
<1>7. state'[i] = Cardinality(Holders(i)') /\ state'[i] # WRITING
  BY <1>4, <1>5 DEF WRITING
<1>8. Counted'
  <2> SUFFICES ASSUME NEW s \in Slot
      PROVE  /\ state'[s] = WRITING => Holders(s)' = {}
             /\ state'[s] # WRITING => state'[s] = Cardinality(Holders(s)')
    BY DEF Counted, WRITING
  <2> QED
    BY <1>3, <1>6, <1>7 DEF IndInv, Counted
<1> QED
  BY <1>5, <1>6, <1>7, <1>8

\* A counted presenter's slot counts at least one lease.
LEMMA HolderCounted ==
  ASSUME IndInv, NEW r \in Reader, pc[r] \in Holding
  PROVE  state[at[r]] \in Nat /\ state[at[r]] > 0
<1>1. at[r] \in Slot /\ r \in Holders(at[r])
  BY DEF IndInv, Types, Holders
<1>2. state[at[r]] = Cardinality(Holders(at[r]))
  BY <1>1 DEF IndInv, Counted
<1>3. Cardinality(Holders(at[r])) \in Nat /\ Cardinality(Holders(at[r])) # 0
  BY <1>1, HoldersFinite, FS_CardinalityType, FS_EmptySet
<1> QED
  BY <1>2, <1>3

\* The renderer's part of the invariant is not about the presenters.
LEMMA RendererKeeps ==
  ASSUME IndInv, UNCHANGED <<frame, published, producer>>,
         \A s \in Slot : (state'[s] = WRITING) <=> (state[s] = WRITING)
  PROVE  Marked' /\ RowsTagged' /\ PublishedOK'
BY DEF IndInv, Marked, RowsTagged, PublishedOK, producer, WRITING, Complete

\* Every step of a presenter preserves the invariant.
LEMMA ReaderInv == ASSUME IndInv, NEW r \in Reader, ReaderStep(r) PROVE IndInv'
<1> USE Numbers
<1>0. Types /\ Counted /\ ReadersOK
  BY DEF IndInv
<1>1. /\ pc \in [Reader -> Holding \cup {"idle", "retry", "count", "swap"}]
      /\ at \in [Reader -> Slot] /\ count \in [Reader -> Int] /\ snap \in [Reader -> Frames]
      /\ state \in [Slot -> Int] /\ at[r] \in Slot /\ state[at[r]] \in Int
      /\ snap[r] \in Frames /\ frame[at[r]] \in Frames
  BY <1>0 DEF Types
<1>2. UNCHANGED <<frame, published, producer>>
  BY DEF ReaderStep, Acquire, ReadCount, Swap, Check, Valid, Release, Drop
<1>3. published # -1 => published \in Slot /\ Complete(frame[published])
  BY DEF IndInv, Types, PublishedOK
<1>4. ASSUME state' \in [Slot -> Int], Counted',
             \A s \in Slot : (state'[s] = WRITING) <=> (state[s] = WRITING),
             NEW next \in Holding \cup {"idle", "retry", "count", "swap"}, NEW i \in Slot, NEW n \in Int, NEW f \in Frames,
             pc' = [pc EXCEPT ![r] = next], at' = [at EXCEPT ![r] = i],
             count' = [count EXCEPT ![r] = n], snap' = [snap EXCEPT ![r] = f],
             next = "swap" => n # WRITING, next \in {"drop", "dropback"} => n > 0,
             next = "valid" => Complete(frame[i]), next = "lease" => frame[i] = f /\ Complete(frame[i])
      PROVE  IndInv'
  <2>1. Types'
    BY <1>0, <1>1, <1>2, <1>4 DEF Types, producer, Frames
  <2>2. ReadersOK'
    <3> SUFFICES ASSUME NEW q \in Reader
        PROVE  /\ pc'[q] = "swap" => count'[q] # WRITING
               /\ pc'[q] \in {"drop", "dropback"} => count'[q] > 0
               /\ pc'[q] = "valid" => Complete(frame[at'[q]])
               /\ pc'[q] = "lease" => frame[at'[q]] = snap'[q] /\ Complete(frame[at'[q]])
      BY <1>2 DEF ReadersOK, WRITING, Complete
    <3>1. CASE q = r
      BY <3>1, <1>1, <1>4
    <3>2. CASE q # r
      <4>1. pc'[q] = pc[q] /\ count'[q] = count[q] /\ at'[q] = at[q] /\ snap'[q] = snap[q]
        BY <3>2, <1>1, <1>4
      <4> QED
        BY <4>1, <1>0 DEF ReadersOK
    <3> QED
      BY <3>1, <3>2
  <2> QED
    BY <2>1, <2>2, <1>2, <1>4, RendererKeeps DEF IndInv
<1>5. at = [at EXCEPT ![r] = at[r]] /\ count = [count EXCEPT ![r] = count[r]]
      /\ snap = [snap EXCEPT ![r] = snap[r]] /\ pc = [pc EXCEPT ![r] = pc[r]] /\ count[r] \in Int
  BY <1>1
<1>6. CASE Acquire(r)
  <2>1. /\ state' = state /\ pc[r] \notin Holding /\ count' = [count EXCEPT ![r] = count[r]]
        /\ snap' = [snap EXCEPT ![r] = snap[r]]
    BY <1>5, <1>6 DEF Acquire, Holding
  <2>2. CASE published = -1
    <3>1. pc' = [pc EXCEPT ![r] = "idle"] /\ at' = [at EXCEPT ![r] = 0]
      BY <1>6, <2>2 DEF Acquire, Step
    <3> QED
      BY <2>1, <3>1, <1>1, <1>5, <1>4, CountedSame DEF Holding
  <2>3. CASE published # -1
    <3>1. pc' = [pc EXCEPT ![r] = "count"] /\ at' = [at EXCEPT ![r] = published] /\ published \in Slot
      BY <1>6, <2>3, <1>3 DEF Acquire, Step
    <3> QED
      BY <2>1, <3>1, <1>1, <1>5, <1>4, CountedSame DEF Holding
  <2> QED
    BY <2>2, <2>3
<1>7. CASE ReadCount(r)
  <2>1. /\ state' = state /\ pc[r] \notin Holding /\ count' = [count EXCEPT ![r] = state[at[r]]]
        /\ snap' = [snap EXCEPT ![r] = snap[r]] /\ at' = [at EXCEPT ![r] = at[r]]
    BY <1>5, <1>7 DEF ReadCount, Holding
  <2>2. PICK next \in {"retry", "swap"} :
          pc' = [pc EXCEPT ![r] = next] /\ (next = "swap" => state[at[r]] # WRITING)
    BY <1>7 DEF ReadCount, Step
  <2>3. Counted'
    BY <2>1, <2>2, <1>1, CountedSame DEF Holding
  <2> QED
    BY <2>1, <2>2, <2>3, <1>1, <1>4 DEF Holding
<1>8. CASE Swap(r)
  <2>1. /\ pc[r] = "swap" /\ at' = at /\ count' = [count EXCEPT ![r] = count[r]]
        /\ snap' = [snap EXCEPT ![r] = snap[r]] /\ at' = [at EXCEPT ![r] = at[r]] /\ pc[r] \notin Holding
    BY <1>5, <1>8 DEF Swap, Holding
  <2>2. CASE state[at[r]] = count[r]
    <3>1. /\ pc' = [pc EXCEPT ![r] = "check"] /\ state' = [state EXCEPT ![at[r]] = state[at[r]] + 1]
          /\ state[at[r]] # WRITING
      BY <1>8, <2>1, <2>2, <1>0 DEF Swap, Step, ReadersOK
    <3>2. Counted' /\ \A s \in Slot : (state'[s] = WRITING) <=> (state[s] = WRITING)
      BY <2>1, <3>1, CountedMore
    <3>3. state' \in [Slot -> Int]
      BY <3>1, <1>1
    <3> QED
      BY <2>1, <3>1, <3>2, <3>3, <1>1, <1>5, <1>4 DEF Holding
  <2>3. CASE state[at[r]] # count[r]
    <3>1. pc' = [pc EXCEPT ![r] = "retry"] /\ state' = state
      BY <1>8, <2>3 DEF Swap, Step
    <3>2. Counted'
      BY <2>1, <3>1, <1>1, CountedSame DEF Holding
    <3> QED
      BY <2>1, <3>1, <3>2, <1>1, <1>5, <1>4 DEF Holding
  <2> QED
    BY <2>2, <2>3
<1>9. CASE Check(r)
  <2>1. /\ state' = state /\ pc[r] \in Holding /\ count' = [count EXCEPT ![r] = count[r]]
        /\ snap' = [snap EXCEPT ![r] = snap[r]] /\ at' = [at EXCEPT ![r] = at[r]]
    BY <1>5, <1>9 DEF Check, Holding
  <2>2. PICK next \in {"valid", "back"} :
          pc' = [pc EXCEPT ![r] = next] /\ (next = "valid" => published = at[r])
    BY <1>9 DEF Check, Step
  <2>3. Counted'
    BY <2>1, <2>2, <1>1, CountedSame DEF Holding
  <2>4. next = "valid" => Complete(frame[at[r]])
    BY <2>2, <1>1, <1>3
  <2> QED
    BY <2>1, <2>2, <2>3, <2>4, <1>1, <1>5, <1>4 DEF Holding
<1>10. CASE Valid(r)
  <2>1. /\ state' = state /\ pc[r] = "valid" /\ pc[r] \in Holding /\ count' = [count EXCEPT ![r] = count[r]]
        /\ at' = [at EXCEPT ![r] = at[r]] /\ Complete(frame[at[r]])
    BY <1>5, <1>10, <1>0 DEF Valid, Holding, ReadersOK
  <2>2. pc' = [pc EXCEPT ![r] = "lease"] /\ snap' = [snap EXCEPT ![r] = frame[at[r]]]
    BY <1>10, <2>1 DEF Valid, Step, Complete
  <2>3. Counted'
    BY <2>1, <2>2, <1>1, CountedSame DEF Holding
  <2> QED
    BY <2>1, <2>2, <2>3, <1>1, <1>5, <1>4 DEF Holding
<1>11. CASE Release(r)
  <2>1. /\ state' = state /\ pc[r] \in Holding /\ count' = [count EXCEPT ![r] = state[at[r]]]
        /\ at' = [at EXCEPT ![r] = at[r]] /\ snap' = [snap EXCEPT ![r] = EmptyFrame]
    BY <1>5, <1>11 DEF Release, Holding
  <2>2. PICK next \in {"drop", "dropback"} : pc' = [pc EXCEPT ![r] = next]
    BY <1>11 DEF Release, Step
  <2>3. Counted'
    BY <2>1, <2>2, <1>1, CountedSame DEF Holding
  <2>4. state[at[r]] > 0
    BY <2>1, HolderCounted
  <2>5. EmptyFrame \in Frames
    BY DEF EmptyFrame, Frames
  <2> QED
    BY <2>1, <2>2, <2>3, <2>4, <2>5, <1>1, <1>4 DEF Holding
<1>12. CASE Drop(r)
  <2>1. /\ pc[r] \in {"drop", "dropback"} /\ pc[r] \in Holding /\ count[r] > 0
        /\ snap' = [snap EXCEPT ![r] = snap[r]]
    BY <1>5, <1>12, <1>0 DEF Drop, Holding, ReadersOK
  <2>2. CASE state[at[r]] # count[r]
    <3>1. /\ count' = [count EXCEPT ![r] = state[at[r]]] /\ state' = state
          /\ pc' = [pc EXCEPT ![r] = pc[r]] /\ at' = [at EXCEPT ![r] = at[r]]
      BY <1>5, <1>12, <2>1, <2>2 DEF Drop
    <3>2. Counted' /\ state[at[r]] > 0
      BY <3>1, <2>1, <1>1, CountedSame, HolderCounted
    <3> QED
      BY <2>1, <3>1, <3>2, <1>1, <1>4 DEF Holding
  <2>3. CASE state[at[r]] = count[r]
    <3>1. /\ count' = [count EXCEPT ![r] = 0] /\ state' = [state EXCEPT ![at[r]] = state[at[r]] - 1]
          /\ at' = [at EXCEPT ![r] = 0]
      BY <1>12, <2>1, <2>3 DEF Drop
    <3>2. PICK next \in {"idle", "retry"} : pc' = [pc EXCEPT ![r] = next]
      BY <1>12, <2>1, <2>3 DEF Drop, Step
    <3>3. Counted' /\ \A s \in Slot : (state'[s] = WRITING) <=> (state[s] = WRITING)
      BY <2>1, <3>1, <3>2, CountedLess DEF Holding
    <3>4. state' \in [Slot -> Int]
      BY <3>1, <1>1
    <3>5. next \in Holding \cup {"idle", "retry", "count", "swap"} /\ 0 \in Slot /\ 0 \in Int
          /\ next \notin {"swap", "drop", "dropback", "valid", "lease"}
      BY <3>2
    <3> HIDE Numbers
    <3> QED
      BY <2>1, <3>1, <3>2, <3>3, <3>4, <3>5, <1>1, <1>4
  <2> QED
    BY <2>2, <2>3
<1> QED
  BY <1>6, <1>7, <1>8, <1>9, <1>10, <1>11, <1>12 DEF ReaderStep

-----------------------------------------------------------------------------
LEMMA StutterInv == IndInv /\ UNCHANGED vars => IndInv'
<1> SUFFICES ASSUME IndInv, UNCHANGED vars PROVE IndInv'
  OBVIOUS
<1>1. UNCHANGED <<state, frame, published, producer, readers>>
  BY DEF vars
<1>2. Types'
  BY <1>1 DEF IndInv, Types, producer, readers, Frames
<1>3. Marked' /\ RowsTagged' /\ PublishedOK'
  BY <1>1, RendererKeeps
<1> QED
  BY <1>1, <1>2, <1>3, CountedKeep, ReadersKeep DEF IndInv

\* The inductive invariant, for any number of presenters and any frame height.
THEOREM Inductive == Spec => []IndInv
<1>1. IndInv /\ [Next]_vars => IndInv'
  BY ProducerInv, ReaderInv, StutterInv DEF Next
<1> QED
  BY InitInv, <1>1, PTL DEF Spec

\* What a presenter has leased from gvdp_hd_acquire is complete and does not
\* change until it calls gvdp_hd_release.
THEOREM LeasedFramesImmutable == Spec => []LeaseImmutable
<1>1. IndInv => LeaseImmutable
  BY DEF IndInv, ReadersOK, LeaseImmutable
<1> QED
  BY Inductive, <1>1, PTL

\* s_published names a complete frame whose rows are all its own.
THEOREM PublishedFramesWhole == Spec => []PublishedWhole
<1>1. IndInv => PublishedWhole
  BY DEF IndInv, Types, PublishedOK, RowsTagged, PublishedWhole, Complete
<1> QED
  BY Inductive, <1>1, PTL

\* A slot's counter is WRITING for the renderer's slot and the number of its
\* presenters otherwise: no lease is lost or counted twice.
THEOREM LeasesAreCounted == Spec => []LeasesCounted
<1>1. IndInv => LeasesCounted
  BY DEF IndInv, Marked, Counted, LeasesCounted
<1> QED
  BY Inductive, <1>1, PTL

=============================================================================
