---------------------------- MODULE HbmSession_proofs ----------------------------
(***************************************************************************)
(* One packed model file, for any graphs, tensors, device buffers and      *)
(* number of loads: memory has one owner, and a launch is given an open    *)
(* model, complete metadata and live memory.  The inductive invariant is   *)
(* HbmSession!HbmInv.                                                      *)
(***************************************************************************)
EXTENDS HbmSession, TLAPS

USE HbmAssumption

Launching == {"ensure", "bind", "task", "unpack"}
Loading == {"names", "resolve", "describe", "check"}

LEMMA Ranges ==
  /\ Tensors \in Nat /\ InTensors \union OutTensors = 1 .. Tensors
  /\ InTensors \intersect OutTensors = {} /\ OutTensors # {} /\ Inputs + 1 \in OutTensors
  /\ Own \in BoundTo
  BY DEF Tensors, InTensors, OutTensors, BoundTo

LEMMA InitInv == Init => HbmInv
<1> SUFFICES ASSUME Init PROVE HbmInv
  OBVIOUS
<1>1. TypeOK
  <2>1. initialized \in BOOLEAN
    BY Zenon DEF Init
  <2> QED
    BY <2>1, Ranges DEF Init, TypeOK
<1>2. CallPlace
  BY DEF Init, CallPlace
<1>3. HandlesOpen /\ GraphsComplete /\ InputsBound
  BY DEF Init, HandlesOpen, GraphsComplete, InputsBound
<1>4. MemoryAccounted
  BY DEF Init, MemoryAccounted, Holds
<1> QED
  BY <1>1, <1>2, <1>3, <1>4 DEF HbmInv

------------------------------------------------------------------------------
(* Initialize                                                                   *)

\* Between launches no buffer is local to a call, so its place does not matter.
LEMMA MemoryKept ==
  ASSUME HbmInv, UNCHANGED memVars, pc \notin Launching, pc' \notin Launching,
         name' = NoGraph <=> pc' \in {"idle", "names", "resolve", "closed"},
         pc' = "describe" => at' <= Tensors
  PROVE  CallPlace' /\ InputsBound' /\ MemoryAccounted'
<1>1. local = {}
  BY DEF HbmInv, CallPlace, Launching
<1>2. CallPlace'
  BY <1>1 DEF HbmInv, CallPlace, Launching, memVars
<1>3. InputsBound'
  BY DEF InputsBound, Launching
<1>4. MemoryAccounted'
  BY <1>1 DEF HbmInv, MemoryAccounted, Holds, Launching, memVars
<1> QED
  BY <1>2, <1>3, <1>4

\* What a step may do to the model, by the parts of the invariant it concerns.
LEMMA LoadStepKeepsInv ==
  ASSUME HbmInv, UNCHANGED memVars, pc \notin Launching, pc' \notin Launching,
         name' = NoGraph <=> pc' \in {"idle", "names", "resolve", "closed"},
         pc' = "describe" => at' <= Tensors,
         initialized' \in BOOLEAN, packed' \in 0 .. MaxLoads, loads' \in 0 .. MaxLoads,
         opened' \subseteq 1 .. MaxLoads, model' \in [Graphs -> 0 .. MaxLoads],
         described' \in [Graphs -> 0 .. Tensors], todo' \subseteq Graphs,
         name' \in Graphs \union {NoGraph}, at' \in 0 .. Tensors + 1,
         pc' \in Loading \union {"idle"}, HandlesOpen', GraphsComplete'
  PROVE  HbmInv'
<1>1. TypeOK'
  BY DEF HbmInv, TypeOK, memVars, Loading
<1> QED
  BY <1>1, MemoryKept DEF HbmInv

LEMMA LoadFileKeepsInv == HbmInv /\ LoadFile => HbmInv'
<1> SUFFICES ASSUME HbmInv, LoadFile PROVE HbmInv'
  OBVIOUS
<1>1. loads \in 0 .. MaxLoads /\ loads < MaxLoads /\ opened \subseteq 1 .. MaxLoads
  BY DEF HbmInv, TypeOK, LoadFile
<1>2. loads + 1 \in 1 .. MaxLoads
  BY <1>1
<1>3. pc = "idle" /\ pc' = "names" /\ name = NoGraph
  BY DEF HbmInv, CallPlace, LoadFile
<1>4. HandlesOpen'
  <2>1. opened' \subseteq 1 .. loads'
    BY <1>1 DEF HbmInv, HandlesOpen, LoadFile
  <2>2. packed' # 0 /\ packed' \in opened'
    BY <1>1 DEF LoadFile
  <2>3. \A g \in Graphs : model'[g] # 0 => model'[g] \in opened'
    BY DEF HbmInv, HandlesOpen, LoadFile
  <2>4. ~initialized'
    BY Zenon DEF LoadFile
  <2> QED
    BY <2>1, <2>2, <2>3, <2>4 DEF HandlesOpen
<1>5. GraphsComplete'
  <2>1. ~initialized'
    BY Zenon DEF LoadFile
  <2> QED
    BY <1>3, <2>1 DEF GraphsComplete
<1>6. initialized' \in BOOLEAN
  BY Zenon DEF HbmInv, TypeOK, LoadFile
<1> QED
  BY <1>1, <1>2, <1>3, <1>4, <1>5, <1>6, LoadStepKeepsInv
  DEF HbmInv, TypeOK, LoadFile, Launching, Loading

\* Steps of Initialize that only move on: the graphs are as they were, and none
\* is taken from `todo`.
LEMMA LoadMoveKeepsInv ==
  ASSUME HbmInv,
         \/ ListNames \/ InitializeFails \/ DescribeTensor \/ DescribeFails
         \/ \E g \in Graphs : FindGraph(g) \/ MakeGraph(g)
  PROVE  HbmInv'
<1>1. /\ TypeOK /\ CallPlace /\ HandlesOpen /\ GraphsComplete
      /\ UNCHANGED <<packed, opened, loads, model, described, initialized, memVars>>
      /\ pc \in Loading
  BY DEF HbmInv, ListNames, InitializeFails, DescribeTensor, DescribeFails, FindGraph,
         MakeGraph, Loading, modelVars
<1>2. /\ pc' \in Loading \union {"idle"} /\ todo' \subseteq Graphs
      /\ name' \in Graphs \union {NoGraph} /\ at' \in 0 .. Tensors + 1
      /\ name' = NoGraph <=> pc' \in {"idle", "names", "resolve", "closed"}
      /\ pc' = "describe" => at' <= Tensors
  <2>1. CASE ListNames
    BY <1>1, <2>1 DEF ListNames, TypeOK, CallPlace, Loading
  <2>2. CASE InitializeFails \/ DescribeFails
    BY <1>1, <2>2, Ranges DEF InitializeFails, DescribeFails, Leave, TypeOK
  <2>3. CASE DescribeTensor
    BY <1>1, <2>3, Ranges DEF DescribeTensor, TypeOK, CallPlace, Loading, modelVars
  <2>4. CASE \E g \in Graphs : FindGraph(g) \/ MakeGraph(g)
    <3>1. PICK g \in Graphs : FindGraph(g) \/ MakeGraph(g)
      BY <2>4
    <3>2. /\ todo' = todo /\ name' = g /\ g # NoGraph
          /\ \/ pc' = "check" /\ at' = at
             \/ pc' = "describe" /\ at' = 0
      BY <1>1, <3>1 DEF FindGraph, MakeGraph, modelVars
    <3>3. 0 <= Tensors /\ 0 \in 0 .. Tensors + 1
      BY Ranges
    <3> QED
      BY <1>1, <3>2, <3>3 DEF TypeOK, Loading
  <2> QED
    BY <2>1, <2>2, <2>3, <2>4
<1>3. initialized' \in BOOLEAN /\ ~initialized'
  BY <1>1, Zenon DEF TypeOK, HandlesOpen, Loading
<1>4. HandlesOpen'
  <2>1. packed # 0
    BY <1>1 DEF HandlesOpen, Loading
  <2> QED
    BY <1>1, <1>3, <2>1 DEF HandlesOpen
<1>5. GraphsComplete'
  <2>1. CASE ListNames
    BY <1>3, <2>1 DEF ListNames, GraphsComplete
  <2>2. CASE InitializeFails \/ DescribeFails
    BY <1>3, <2>2 DEF InitializeFails, DescribeFails, Leave, GraphsComplete
  <2>3. CASE DescribeTensor
    BY <1>1, <1>3, <2>3 DEF DescribeTensor, modelVars, GraphsComplete, Complete
  <2>4. CASE \E g \in Graphs : FindGraph(g) \/ MakeGraph(g)
    BY <1>1, <1>3, <2>4 DEF FindGraph, MakeGraph, modelVars, GraphsComplete, Complete
  <2> QED
    BY <2>1, <2>2, <2>3, <2>4
<1> QED
  BY <1>1, <1>2, <1>3, <1>4, <1>5, LoadStepKeepsInv DEF TypeOK, Loading, Launching

LEMMA CacheGraphKeepsInv == HbmInv /\ CacheGraph => HbmInv'
<1> SUFFICES ASSUME HbmInv, CacheGraph PROVE HbmInv'
  OBVIOUS
<1>1. /\ TypeOK /\ CallPlace /\ HandlesOpen /\ GraphsComplete /\ pc = "describe"
      /\ UNCHANGED <<packed, opened, loads, initialized, todo, memVars, name>>
      /\ pc' = "check" /\ at' = 0
  BY DEF HbmInv, CacheGraph
<1>2. name \in todo /\ name \in Graphs /\ at \in 0 .. Tensors /\ packed # 0
  BY <1>1, Ranges DEF TypeOK, CallPlace, GraphsComplete, HandlesOpen
<1>3. initialized' \in BOOLEAN /\ ~initialized'
  BY <1>1, Zenon DEF TypeOK, HandlesOpen
<1>4. /\ model' \in [Graphs -> 0 .. MaxLoads] /\ described' \in [Graphs -> 0 .. Tensors]
      /\ model'[name] = packed
      /\ \A g \in Graphs : g # name => model'[g] = model[g] /\ described'[g] = described[g]
  BY <1>1, <1>2 DEF TypeOK, CacheGraph
<1>5. HandlesOpen'
  BY <1>1, <1>2, <1>3, <1>4 DEF HandlesOpen
<1>6. GraphsComplete'
  BY <1>1, <1>2, <1>3, <1>4 DEF GraphsComplete, Complete
<1>7. name # NoGraph /\ 0 \in 0 .. Tensors + 1
  BY <1>2, Ranges
<1> QED
  BY <1>1, <1>2, <1>3, <1>4, <1>5, <1>6, <1>7, LoadStepKeepsInv
  DEF TypeOK, Loading, Launching

LEMMA CheckedKeepsInv == HbmInv /\ (CheckGraph \/ Initialized) => HbmInv'
<1> SUFFICES ASSUME HbmInv, CheckGraph \/ Initialized PROVE HbmInv'
  OBVIOUS
<1>1. TypeOK /\ CallPlace /\ HandlesOpen /\ GraphsComplete
  BY DEF HbmInv
<1>2. CASE CheckGraph
  <2>1. /\ pc = "check" /\ pc' = "resolve" /\ name' = NoGraph /\ todo' = todo \ {name}
        /\ UNCHANGED <<packed, opened, loads, model, described, initialized, memVars, at>>
        /\ Complete(name) /\ name \in todo
    BY <1>1, <1>2 DEF CheckGraph, GraphsComplete, Complete
  <2>2. initialized' \in BOOLEAN /\ ~initialized'
    BY <1>1, <2>1, Zenon DEF TypeOK, HandlesOpen
  <2>3. HandlesOpen'
    BY <1>1, <2>1, <2>2 DEF HandlesOpen
  <2>4. GraphsComplete'
    BY <1>1, <2>1, <2>2 DEF GraphsComplete, Complete
  <2> QED
    BY <1>1, <2>1, <2>2, <2>3, <2>4, LoadStepKeepsInv DEF TypeOK, Loading, Launching
<1>3. CASE Initialized
  <2>1. /\ pc = "resolve" /\ pc' = "idle" /\ name' = NoGraph /\ at' = 0 /\ todo = {}
        /\ UNCHANGED <<packed, opened, loads, model, described, todo, memVars>>
    BY <1>3 DEF Initialized, Leave
  <2>2. initialized' \in BOOLEAN
    BY <1>3, Zenon DEF Initialized
  <2>3. HandlesOpen'
    BY <1>1, <2>1 DEF HandlesOpen
  <2>4. GraphsComplete'
    BY <1>1, <2>1 DEF GraphsComplete, Complete
  <2>5. 0 \in 0 .. Tensors + 1
    BY Ranges
  <2> QED
    BY <1>1, <2>1, <2>2, <2>3, <2>4, <2>5, LoadStepKeepsInv DEF TypeOK, Loading, Launching
<1> QED
  BY <1>2, <1>3

------------------------------------------------------------------------------
(* Execute                                                                      *)

\* A launch, and what it allocates, leaves the model alone.
LEMMA ModelKept ==
  ASSUME HbmInv, UNCHANGED modelVars, initialized,
         pc \in Launching \union {"idle"}, pc' \in Launching \union {"idle"}
  PROVE  HandlesOpen' /\ GraphsComplete'
<1>1. initialized' = initialized
  BY Zenon DEF modelVars
<1>2. UNCHANGED <<packed, opened, loads, model, described, todo>>
  BY DEF modelVars
<1>3. HandlesOpen'
  BY <1>2 DEF HbmInv, HandlesOpen, Launching
<1>4. GraphsComplete'
  <2>1. \A g \in Graphs : Complete(g)'
    BY <1>2 DEF HbmInv, GraphsComplete, Complete, Launching
  <2>2. initialized'
    BY <1>1
  <2> QED
    BY <2>1, <2>2 DEF GraphsComplete, Launching
<1> QED
  BY <1>3, <1>4

\* What a step of a launch may do, by the parts of the invariant it concerns.
LEMMA LaunchStepKeepsInv ==
  ASSUME HbmInv, UNCHANGED modelVars, initialized,
         pc \in Launching \union {"idle"}, pc' \in Launching \union {"idle"},
         private' \in [Graphs -> SUBSET (1 .. Tensors)],
         bound' \in [Graphs -> [InTensors -> BoundTo]],
         live' \in [Graphs -> [1 .. Tensors -> Nat]],
         resident' \subseteq Resident, tasks' \in Nat,
         name' \in Graphs \union {NoGraph}, at' \in 0 .. Tensors + 1,
         local' \subseteq OutTensors,
         CallPlace', InputsBound', MemoryAccounted'
  PROVE  HbmInv'
<1>1. TypeOK'
  <2>1. initialized' \in BOOLEAN
    BY Zenon DEF HbmInv, TypeOK, modelVars
  <2> QED
    BY <2>1 DEF HbmInv, TypeOK, modelVars, Launching
<1> QED
  BY <1>1, ModelKept DEF HbmInv

LEMMA LaunchFacts ==
  HbmInv => /\ TypeOK /\ CallPlace /\ InputsBound /\ MemoryAccounted
            /\ pc \in Launching => initialized /\ name \in Graphs /\ name # NoGraph
BY DEF HbmInv, GraphsComplete, CallPlace, TypeOK, Launching

LEMMA BeginExecuteKeepsInv ==
  ASSUME HbmInv, NEW g \in Graphs, BeginExecute(g)
  PROVE  HbmInv'
<1>1. /\ TypeOK /\ CallPlace /\ MemoryAccounted /\ local = {} /\ pc = "idle"
      /\ UNCHANGED <<modelVars, memVars>> /\ name' = g /\ g # NoGraph
  BY DEF HbmInv, CallPlace, BeginExecute
<1>2. initialized
  BY Zenon DEF BeginExecute
<1>3. CASE OutTensors \subseteq private[g]
  <2>1. pc' = "bind" /\ at' = 1
    BY <1>3 DEF BeginExecute
  <2>2. CallPlace' /\ InputsBound' /\ MemoryAccounted'
    BY <1>1, <1>3, <2>1 DEF CallPlace, InputsBound, MemoryAccounted, Holds, memVars
  <2>3. 1 \in 0 .. Tensors + 1
    BY Ranges
  <2> QED
    BY <1>1, <1>2, <2>1, <2>2, <2>3, LaunchStepKeepsInv DEF TypeOK, Launching, memVars
<1>4. CASE ~(OutTensors \subseteq private[g])
  <2>1. pc' = "ensure" /\ at' = Inputs + 1
    BY <1>4 DEF BeginExecute
  <2>2. Inputs + 1 .. (Inputs + 1) - 1 = {}
    OBVIOUS
  <2>3. CallPlace'
    BY <1>1, <1>4, <2>1, <2>2 DEF CallPlace, memVars
  <2>4. InputsBound' /\ MemoryAccounted'
    BY <1>1, <2>1 DEF InputsBound, MemoryAccounted, Holds, memVars
  <2>5. Inputs + 1 \in 0 .. Tensors + 1
    BY DEF Tensors
  <2> QED
    BY <1>1, <1>2, <2>1, <2>3, <2>4, <2>5, LaunchStepKeepsInv DEF TypeOK, Launching, memVars
<1> QED
  BY <1>3, <1>4

\* One tensor of one graph is allocated.
LEMMA LiveAfter ==
  ASSUME TypeOK, name \in Graphs, NEW i \in 1 .. Tensors,
         live' = [live EXCEPT ![name][i] = @ + 1]
  PROVE  /\ live' \in [Graphs -> [1 .. Tensors -> Nat]]
         /\ \A g \in Graphs : \A j \in 1 .. Tensors :
              live'[g][j] = IF g = name /\ j = i THEN live[g][j] + 1 ELSE live[g][j]
<1> DEFINE old == live[name]
           more == [old EXCEPT ![i] = old[i] + 1]
<1>1. old \in [1 .. Tensors -> Nat]
  BY DEF TypeOK
<1>2. live' = [live EXCEPT ![name] = more]
  OBVIOUS
<1> HIDE DEF old
<1>3. old[i] \in Nat /\ old[i] + 1 \in Nat
  BY <1>1
<1>4. /\ more \in [1 .. Tensors -> Nat]
      /\ \A j \in 1 .. Tensors : more[j] = IF j = i THEN old[j] + 1 ELSE old[j]
  BY <1>1, <1>3
<1> HIDE DEF more
<1>5. live' \in [Graphs -> [1 .. Tensors -> Nat]]
  BY <1>2, <1>4 DEF TypeOK
<1>6. ASSUME NEW g \in Graphs, NEW j \in 1 .. Tensors
      PROVE  live'[g][j] = IF g = name /\ j = i THEN live[g][j] + 1 ELSE live[g][j]
  <2>1. live'[g] = IF g = name THEN more ELSE live[g]
    BY <1>2 DEF TypeOK
  <2>2. CASE g = name
    <3>1. live'[g][j] = more[j] /\ old = live[g]
      BY <2>1, <2>2 DEF old
    <3>2. more[j] = IF j = i THEN live[g][j] + 1 ELSE live[g][j]
      BY <1>4, <3>1
    <3> QED
      BY <2>2, <3>1, <3>2, Zenon
  <2>3. CASE g # name
    <3>1. live'[g] = live[g]
      BY <2>1, <2>3
    <3>2. ~(g = name /\ j = i) /\ live'[g][j] = live[g][j]
      BY <2>3, <3>1
    <3> QED
      BY <3>2, Zenon
  <2> QED
    BY <2>2, <2>3
<1> QED
  BY <1>5, <1>6

LEMMA AllocateOutputKeepsInv == HbmInv /\ AllocateOutput => HbmInv'
<1> SUFFICES ASSUME HbmInv, AllocateOutput PROVE HbmInv'
  OBVIOUS
<1>1. /\ TypeOK /\ CallPlace /\ MemoryAccounted /\ initialized /\ name \in Graphs
      /\ pc = "ensure" /\ name # NoGraph
  BY LaunchFacts DEF AllocateOutput, Launching
<1>2. /\ live' = [live EXCEPT ![name][at] = @ + 1] /\ local' = local \union {at}
      /\ at' = at + 1 /\ UNCHANGED <<modelVars, private, bound, resident, tasks, pc, name>>
  BY DEF AllocateOutput
<1>3. at \in OutTensors /\ at \in 1 .. Tensors /\ at \in Nat /\ at' \in 0 .. Tensors + 1
  BY <1>1, <1>2, Ranges DEF TypeOK, CallPlace, AllocateOutput, OutTensors
<1>4. local = Inputs + 1 .. at - 1 /\ local' = Inputs + 1 .. at' - 1 /\ at \notin local
  <2>1. (Inputs + 1 .. at - 1) \union {at} = Inputs + 1 .. (at + 1) - 1
    BY <1>3 DEF OutTensors
  <2> QED
    BY <1>1, <1>2, <2>1 DEF CallPlace
<1>5. CallPlace'
  BY <1>1, <1>2, <1>3, <1>4 DEF CallPlace
<1>6. InputsBound'
  BY <1>1, <1>2 DEF InputsBound
<1>7. MemoryAccounted'
  <2>1. at \notin private[name]
    BY <1>1, <1>3 DEF CallPlace
  <2>2. \A g \in Graphs : \A j \in 1 .. Tensors :
          live'[g][j] = IF g = name /\ j = at THEN live[g][j] + 1 ELSE live[g][j]
    BY <1>1, <1>2, <1>3, LiveAfter
  <2> QED
    BY <1>1, <1>2, <1>3, <1>4, <2>1, <2>2 DEF MemoryAccounted, Holds
<1>8. live' \in [Graphs -> [1 .. Tensors -> Nat]]
  BY <1>1, <1>2, <1>3, LiveAfter
<1>9. local' \subseteq OutTensors
  BY <1>1, <1>2, <1>3 DEF TypeOK
<1> QED
  BY <1>1, <1>2, <1>3, <1>5, <1>6, <1>7, <1>8, <1>9, LaunchStepKeepsInv
  DEF TypeOK, Launching

LEMMA KeepBuffersKeepsInv == HbmInv /\ KeepBuffers => HbmInv'
<1> SUFFICES ASSUME HbmInv, KeepBuffers PROVE HbmInv'
  OBVIOUS
<1>1. /\ TypeOK /\ CallPlace /\ MemoryAccounted /\ initialized /\ name \in Graphs
      /\ pc = "ensure" /\ name # NoGraph
  BY LaunchFacts DEF KeepBuffers, Launching
<1>2. /\ private' = [private EXCEPT ![name] = @ \union local] /\ local' = {}
      /\ at = Tensors + 1 /\ pc' = "bind" /\ at' = 1
      /\ UNCHANGED <<modelVars, bound, live, resident, tasks, name>>
  BY DEF KeepBuffers
<1>3. local = OutTensors /\ OutTensors \subseteq 1 .. Tensors
  BY <1>1, <1>2, Ranges DEF CallPlace, OutTensors
<1>4. /\ private' \in [Graphs -> SUBSET (1 .. Tensors)]
      /\ private'[name] = private[name] \union OutTensors
      /\ \A g \in Graphs : g # name => private'[g] = private[g]
  BY <1>1, <1>2, <1>3 DEF TypeOK
<1>5. CallPlace'
  BY <1>1, <1>2, <1>4 DEF CallPlace
<1>6. InputsBound'
  BY <1>1, <1>2, <1>4 DEF InputsBound
<1>7. MemoryAccounted'
  BY <1>1, <1>2, <1>3, <1>4 DEF MemoryAccounted, Holds
<1>8. 1 \in 0 .. Tensors + 1
  BY Ranges
<1> QED
  BY <1>1, <1>2, <1>4, <1>5, <1>6, <1>7, <1>8, LaunchStepKeepsInv DEF TypeOK, Launching

LEMMA EnsureFailsKeepsInv == HbmInv /\ EnsureFails => HbmInv'
<1> SUFFICES ASSUME HbmInv, EnsureFails PROVE HbmInv'
  OBVIOUS
<1>1. /\ TypeOK /\ CallPlace /\ MemoryAccounted /\ initialized /\ name \in Graphs
      /\ pc = "ensure" /\ name # NoGraph
  BY LaunchFacts DEF EnsureFails, Launching
<1>2. /\ local' = {} /\ pc' = "idle" /\ name' = NoGraph /\ at' = 0
      /\ UNCHANGED <<modelVars, private, bound, resident, tasks>>
  BY DEF EnsureFails, Leave
<1>3. \A i \in 1 .. Tensors : live[name][i] \in Nat /\ (i \in local => live[name][i] = 1)
  BY <1>1 DEF TypeOK, MemoryAccounted, Holds
<1>4. /\ live' = [live EXCEPT ![name] =
            [i \in 1 .. Tensors |-> IF i \in local THEN live[name][i] - 1 ELSE live[name][i]]]
      /\ [i \in 1 .. Tensors |-> IF i \in local THEN live[name][i] - 1 ELSE live[name][i]]
           \in [1 .. Tensors -> Nat]
  BY <1>1, <1>3 DEF TypeOK, EnsureFails
<1>5. /\ live' \in [Graphs -> [1 .. Tensors -> Nat]]
      /\ \A g \in Graphs : \A i \in 1 .. Tensors :
           live'[g][i] = IF g = name /\ i \in local THEN live[g][i] - 1 ELSE live[g][i]
  <2> DEFINE freed == [i \in 1 .. Tensors |-> IF i \in local THEN live[name][i] - 1
                                                              ELSE live[name][i]]
  <2>1. live' = [live EXCEPT ![name] = freed] /\ freed \in [1 .. Tensors -> Nat]
    BY <1>4
  <2>2. \A i \in 1 .. Tensors : freed[i] = IF i \in local THEN live[name][i] - 1
                                                          ELSE live[name][i]
    OBVIOUS
  <2> HIDE DEF freed
  <2> QED
    BY <1>1, <2>1, <2>2 DEF TypeOK
<1>6. CallPlace'
  BY <1>1, <1>2 DEF CallPlace
<1>7. InputsBound'
  BY <1>2 DEF InputsBound
<1>8. MemoryAccounted'
  <2>1. local \intersect private[name] = {}
    BY <1>1 DEF CallPlace, TypeOK
  <2> QED
    BY <1>1, <1>2, <1>3, <1>5, <2>1 DEF MemoryAccounted, Holds
<1>9. 0 \in 0 .. Tensors + 1
  BY Ranges
<1> QED
  BY <1>1, <1>2, <1>5, <1>6, <1>7, <1>8, <1>9, LaunchStepKeepsInv DEF TypeOK, Launching

\* One input of one graph is bound to b.
LEMMA BoundAfter ==
  ASSUME TypeOK, name \in Graphs, NEW i \in InTensors, NEW b \in BoundTo,
         bound' = [bound EXCEPT ![name][i] = b]
  PROVE  /\ bound' \in [Graphs -> [InTensors -> BoundTo]]
         /\ bound'[name][i] = b
         /\ \A j \in InTensors : j # i => bound'[name][j] = bound[name][j]
<1> DEFINE more == [bound[name] EXCEPT ![i] = b]
<1>1. bound[name] \in [InTensors -> BoundTo]
  BY DEF TypeOK
<1>2. bound' = [bound EXCEPT ![name] = more]
  OBVIOUS
<1>3. /\ more \in [InTensors -> BoundTo] /\ more[i] = b
      /\ \A j \in InTensors : j # i => more[j] = bound[name][j]
  BY <1>1
<1> HIDE DEF more
<1> QED
  BY <1>2, <1>3 DEF TypeOK

\* The inputs before `at`, and the one just bound.
LEMMA OneMoreBound ==
  ASSUME TypeOK, InputsBound, pc = "bind", at \in InTensors,
         UNCHANGED <<resident, pc, name>>, at' = at + 1, name \in Graphs,
         private[name] \subseteq private'[name],
         \A j \in InTensors : j # at => bound'[name][j] = bound[name][j],
         IF bound'[name][at] = Own THEN at \in private'[name] ELSE bound'[name][at] \in resident
  PROVE  InputsBound'
<1>1. at \in 1 .. Inputs
  BY DEF InTensors
<1>2. at' \in 1 .. Inputs + 1
  BY <1>1
<1>3. ASSUME NEW i \in 1 .. at' - 1 PROVE WellBound(i)'
  <2>1. i \in InTensors /\ (i = at \/ i \in 1 .. at - 1)
    BY <1>1 DEF InTensors
  <2>2. CASE i = at
    BY <2>2 DEF WellBound
  <2>3. CASE i \in 1 .. at - 1 /\ i # at
    <3>1. WellBound(i)
      BY <2>3 DEF InputsBound
    <3> QED
      BY <2>1, <2>3, <3>1 DEF WellBound
  <2> QED
    BY <1>1, <2>1, <2>2, <2>3
<1>4. OutTensors \subseteq private'[name]
  BY DEF InputsBound
<1> QED
  BY <1>2, <1>3, <1>4 DEF InputsBound

LEMMA BindResidentKeepsInv ==
  ASSUME HbmInv, NEW b \in Resident, BindResident(b)
  PROVE  HbmInv'
<1>1. /\ TypeOK /\ CallPlace /\ InputsBound /\ MemoryAccounted /\ initialized
      /\ name \in Graphs /\ pc = "bind" /\ name # NoGraph
  BY LaunchFacts DEF BindResident, Launching
<1>2. /\ at \in InTensors /\ b \in resident /\ bound' = [bound EXCEPT ![name][at] = b]
      /\ at' = at + 1
      /\ UNCHANGED <<modelVars, private, live, resident, tasks, local, pc, name>>
  BY DEF BindResident
<1>3. /\ bound' \in [Graphs -> [InTensors -> BoundTo]] /\ bound'[name][at] = b
      /\ \A j \in InTensors : j # at => bound'[name][j] = bound[name][j]
  BY <1>1, <1>2, BoundAfter DEF BoundTo
<1>4. InputsBound'
  <2>1. b # Own
    OBVIOUS
  <2>2. IF bound'[name][at] = Own THEN at \in private'[name] ELSE bound'[name][at] \in resident
    BY <1>2, <1>3, <2>1
  <2>3. \A j \in InTensors : j # at => bound'[name][j] = bound[name][j]
    BY <1>3
  <2> QED
    BY <1>1, <1>2, <2>2, <2>3, OneMoreBound
<1>5. CallPlace' /\ MemoryAccounted'
  BY <1>1, <1>2 DEF CallPlace, MemoryAccounted, Holds
<1>6. at' \in 0 .. Tensors + 1
  BY <1>2 DEF InTensors, Tensors
<1> QED
  BY <1>1, <1>2, <1>3, <1>4, <1>5, <1>6, LaunchStepKeepsInv DEF TypeOK, Launching

LEMMA BindHostKeepsInv ==
  ASSUME HbmInv, NEW ok \in BOOLEAN, BindHost(ok)
  PROVE  HbmInv'
<1>1. /\ TypeOK /\ CallPlace /\ InputsBound /\ MemoryAccounted /\ initialized
      /\ name \in Graphs /\ pc = "bind" /\ name # NoGraph /\ local = {}
  BY LaunchFacts DEF BindHost, Launching, CallPlace
<1>2. /\ at \in InTensors /\ bound' = [bound EXCEPT ![name][at] = Own]
      /\ private' = [private EXCEPT ![name] = @ \union {at}]
      /\ live' = IF at \in private[name] THEN live ELSE [live EXCEPT ![name][at] = @ + 1]
      /\ UNCHANGED <<modelVars, resident, tasks, local>>
  BY DEF BindHost
<1>3. \/ at' = at + 1 /\ UNCHANGED <<pc, name>>
      \/ pc' = "idle" /\ name' = NoGraph /\ at' = 0
  BY DEF BindHost, Leave
<1>4. /\ bound' \in [Graphs -> [InTensors -> BoundTo]] /\ bound'[name][at] = Own
      /\ \A j \in InTensors : j # at => bound'[name][j] = bound[name][j]
  BY <1>1, <1>2, Ranges, BoundAfter
<1>5. at \in 1 .. Tensors /\ at \notin OutTensors
  BY <1>2, Ranges
<1>6. /\ private' \in [Graphs -> SUBSET (1 .. Tensors)]
      /\ private'[name] = private[name] \union {at}
      /\ \A g \in Graphs : g # name => private'[g] = private[g]
  BY <1>1, <1>2, <1>5 DEF TypeOK
<1>7. CallPlace'
  <2>1. \A g \in Graphs : OutTensors \subseteq private'[g] \/ private'[g] \intersect OutTensors = {}
    BY <1>1, <1>5, <1>6 DEF CallPlace
  <2> QED
    BY <1>1, <1>2, <1>3, <2>1 DEF CallPlace
<1>8. InputsBound'
  <2>1. CASE at' = at + 1 /\ UNCHANGED <<pc, name>>
    <3>1. IF bound'[name][at] = Own THEN at \in private'[name] ELSE bound'[name][at] \in resident
      BY <1>4, <1>6
    <3>2. \A j \in InTensors : j # at => bound'[name][j] = bound[name][j]
      BY <1>4
    <3>3. private[name] \subseteq private'[name]
      BY <1>6
    <3> QED
      BY <1>1, <1>2, <2>1, <3>1, <3>2, <3>3, OneMoreBound
  <2>2. CASE pc' = "idle"
    BY <2>2 DEF InputsBound
  <2> QED
    BY <1>3, <2>1, <2>2
<1>9. /\ live' \in [Graphs -> [1 .. Tensors -> Nat]]
      /\ \A g \in Graphs : \A j \in 1 .. Tensors :
           live'[g][j] = IF g = name /\ j = at /\ at \notin private[name]
                         THEN live[g][j] + 1 ELSE live[g][j]
  <2>1. CASE at \in private[name]
    BY <1>1, <1>2, <2>1 DEF TypeOK
  <2>2. CASE at \notin private[name]
    BY <1>1, <1>2, <1>5, <2>2, LiveAfter
  <2> QED
    BY <2>1, <2>2
<1>10. MemoryAccounted'
  <2>1. \A g \in Graphs : \A j \in 1 .. Tensors :
          live[g][j] = IF j \in private[g] THEN 1 ELSE 0
    BY <1>1 DEF MemoryAccounted, Holds
  <2>2. \A g \in Graphs : \A j \in 1 .. Tensors :
          live'[g][j] = IF j \in private'[g] THEN 1 ELSE 0
    BY <1>5, <1>6, <1>9, <2>1
  <2>3. tasks' = 0 /\ local' = {} /\ pc' \notin {"task", "unpack"}
    BY <1>1, <1>2, <1>3 DEF MemoryAccounted
  <2> QED
    BY <2>2, <2>3 DEF MemoryAccounted, Holds
<1>11. at' \in 0 .. Tensors + 1
  <2>1. at + 1 \in 0 .. Tensors + 1 /\ 0 \in 0 .. Tensors + 1
    BY <1>2, Ranges DEF InTensors, Tensors
  <2> QED
    BY <1>3, <2>1
<1> QED
  BY <1>1, <1>2, <1>3, <1>4, <1>6, <1>7, <1>8, <1>9, <1>10, <1>11, LaunchStepKeepsInv
  DEF TypeOK, Launching

LEMMA BindFailsKeepsInv == HbmInv /\ BindFails => HbmInv'
<1> SUFFICES ASSUME HbmInv, BindFails PROVE HbmInv'
  OBVIOUS
<1>1. /\ TypeOK /\ CallPlace /\ MemoryAccounted /\ initialized
      /\ name \in Graphs /\ pc = "bind" /\ local = {}
  BY LaunchFacts DEF BindFails, Launching, CallPlace
<1>2. /\ bound' = IF at \in InTensors THEN [bound EXCEPT ![name][at] = Own] ELSE bound
      /\ pc' = "idle" /\ name' = NoGraph /\ at' = 0
      /\ UNCHANGED <<modelVars, private, live, resident, tasks, local>>
  BY DEF BindFails, Leave
<1>3. bound' \in [Graphs -> [InTensors -> BoundTo]]
  <2>1. CASE at \in InTensors
    BY <1>1, <1>2, <2>1, Ranges, BoundAfter
  <2>2. CASE at \notin InTensors
    BY <1>1, <1>2, <2>2 DEF TypeOK
  <2> QED
    BY <2>1, <2>2
<1>4. CallPlace' /\ InputsBound' /\ MemoryAccounted'
  BY <1>1, <1>2 DEF CallPlace, InputsBound, MemoryAccounted, Holds
<1>5. 0 \in 0 .. Tensors + 1
  BY Ranges
<1> QED
  BY <1>1, <1>2, <1>3, <1>4, <1>5, LaunchStepKeepsInv DEF TypeOK, Launching

\* The task is created, waited for and released; the memory stays as it is.
LEMMA TaskKeepsInv ==
  ASSUME HbmInv, CreateTask \/ RunTask \/ UnpackOutput \/ ReleaseTask
  PROVE  HbmInv'
<1>1. /\ TypeOK /\ CallPlace /\ InputsBound /\ MemoryAccounted /\ initialized
      /\ pc \in {"bind", "task", "unpack"} /\ name \in Graphs /\ name # NoGraph
      /\ local = {}
  BY LaunchFacts DEF CreateTask, RunTask, UnpackOutput, ReleaseTask, Launching, CallPlace
<1>2. UNCHANGED <<modelVars, private, bound, live, resident, local>>
  BY DEF CreateTask, RunTask, UnpackOutput, ReleaseTask, memVars
<1>3. at' \in 0 .. Tensors + 1 /\ pc' \in {"idle", "task", "unpack"}
  BY <1>1, Ranges DEF CreateTask, RunTask, UnpackOutput, ReleaseTask, Leave, TypeOK, Tensors
<1>4. name' \in Graphs \union {NoGraph} /\ (name' = NoGraph <=> pc' = "idle")
  BY <1>1 DEF CreateTask, RunTask, UnpackOutput, ReleaseTask, Leave
<1>5. tasks' \in Nat /\ tasks' = IF pc' \in {"task", "unpack"} THEN 1 ELSE 0
  BY <1>1 DEF CreateTask, RunTask, UnpackOutput, ReleaseTask, Leave, MemoryAccounted, memVars
<1>6. MemoryAccounted'
  BY <1>1, <1>2, <1>5 DEF MemoryAccounted, Holds
<1>7. CallPlace'
  <2>1. pc' = "unpack" => at' > Inputs
    BY <1>1 DEF CreateTask, RunTask, UnpackOutput, ReleaseTask, Leave, CallPlace, TypeOK
  <2> QED
    BY <1>1, <1>2, <1>3, <1>4, <2>1 DEF CallPlace
<1>8. InputsBound'
  <2>1. CASE CreateTask
    <3>1. at - 1 = Inputs /\ 1 .. at - 1 = InTensors /\ pc' = "task" /\ name' = name
      BY <2>1 DEF CreateTask, InTensors
    <3>2. \A i \in InTensors : WellBound(i)
      BY <2>1, <3>1, <1>1 DEF CreateTask, InputsBound
    <3>3. \A i \in InTensors : WellBound(i)'
      BY <1>2, <3>1, <3>2 DEF WellBound
    <3> QED
      BY <1>1, <1>2, <2>1, <3>1, <3>3 DEF InputsBound, CreateTask
  <2>2. CASE RunTask \/ UnpackOutput
    BY <1>1, <1>2, <2>2 DEF RunTask, UnpackOutput, InputsBound
  <2>3. CASE ReleaseTask
    BY <2>3 DEF ReleaseTask, Leave, InputsBound
  <2> QED
    BY <2>1, <2>2, <2>3
<1> QED
  BY <1>1, <1>2, <1>3, <1>4, <1>5, <1>6, <1>7, <1>8, LaunchStepKeepsInv DEF TypeOK, Launching

------------------------------------------------------------------------------
(* Device buffers of the caller, the end                                        *)

LEMMA ResidentKeepsInv ==
  ASSUME HbmInv, NEW b \in Resident, AllocateResident(b) \/ DropResident(b)
  PROVE  HbmInv'
<1>1. /\ TypeOK /\ CallPlace /\ MemoryAccounted /\ HandlesOpen /\ GraphsComplete
      /\ pc = "idle" /\ resident' \subseteq Resident
      /\ UNCHANGED <<modelVars, private, bound, live, tasks, local, pc, name, at>>
  BY DEF HbmInv, TypeOK, AllocateResident, DropResident
<1>2. initialized' \in BOOLEAN /\ initialized' = initialized
  BY <1>1, Zenon DEF TypeOK, modelVars
<1>3. TypeOK'
  BY <1>1, <1>2 DEF TypeOK, modelVars
<1>4. CallPlace' /\ MemoryAccounted' /\ InputsBound'
  BY <1>1 DEF CallPlace, MemoryAccounted, Holds, InputsBound
<1>5. HandlesOpen'
  BY <1>1, <1>2 DEF HandlesOpen, modelVars
<1>6. GraphsComplete'
  BY <1>1, <1>2 DEF GraphsComplete, Complete, modelVars
<1> QED
  BY <1>3, <1>4, <1>5, <1>6 DEF HbmInv

LEMMA CloseKeepsInv == HbmInv /\ Close => HbmInv'
<1> SUFFICES ASSUME HbmInv, Close PROVE HbmInv'
  OBVIOUS
<1>1. /\ TypeOK /\ CallPlace /\ MemoryAccounted /\ HandlesOpen
      /\ pc = "idle" /\ local = {} /\ name = NoGraph
  BY DEF HbmInv, CallPlace, Close
<1>2. /\ pc' = "closed" /\ packed' = 0 /\ resident' = {} /\ opened' = opened \ {packed}
      /\ model' = [g \in Graphs |-> 0] /\ described' = [g \in Graphs |-> 0]
      /\ private' = [g \in Graphs |-> {}]
      /\ UNCHANGED <<loads, todo, bound, tasks, local, name, at>>
  BY DEF Close
<1>3. initialized' \in BOOLEAN
  BY <1>1, Zenon DEF TypeOK, Close
<1>4. ASSUME NEW g \in Graphs, NEW i \in 1 .. Tensors PROVE live'[g][i] = 0
  <2>1. live[g][i] = IF i \in private[g] THEN 1 ELSE 0
    BY <1>1 DEF MemoryAccounted, Holds
  <2>2. live'[g][i] = IF i \in private[g] THEN live[g][i] - 1 ELSE live[g][i]
    BY DEF Close
  <2> QED
    BY <2>1, <2>2
<1>5. live' \in [Graphs -> [1 .. Tensors -> Nat]]
  <2>1. live' = [g \in Graphs |-> [i \in 1 .. Tensors |-> live'[g][i]]]
    BY DEF Close
  <2> QED
    BY <1>4, <2>1
<1>6. TypeOK'
  <2>1. 0 \in 0 .. MaxLoads /\ 0 \in 0 .. Tensors
    BY Ranges
  <2> QED
    BY <1>1, <1>2, <1>3, <1>5, <2>1 DEF TypeOK
<1>7. CallPlace'
  BY <1>1, <1>2 DEF CallPlace
<1>8. HandlesOpen'
  BY <1>1, <1>2 DEF HandlesOpen
<1>9. GraphsComplete' /\ InputsBound'
  BY <1>2 DEF GraphsComplete, InputsBound
<1>10. MemoryAccounted'
  BY <1>1, <1>2, <1>4 DEF MemoryAccounted, Holds
<1> QED
  BY <1>6, <1>7, <1>8, <1>9, <1>10 DEF HbmInv

------------------------------------------------------------------------------
(* Every step, and what follows of the invariant                                *)

LEMMA StutterKeepsInv == HbmInv /\ UNCHANGED vars => HbmInv'
<1> SUFFICES ASSUME HbmInv, UNCHANGED vars PROVE HbmInv'
  OBVIOUS
<1>1. UNCHANGED <<modelVars, memVars, pc, name, at>>
  BY DEF vars
<1>2. initialized' \in BOOLEAN /\ initialized' = initialized
  BY <1>1, Zenon DEF HbmInv, TypeOK, modelVars
<1>3. TypeOK'
  BY <1>1, <1>2 DEF HbmInv, TypeOK, modelVars, memVars
<1>4. CallPlace' /\ MemoryAccounted'
  BY <1>1 DEF HbmInv, CallPlace, MemoryAccounted, Holds, memVars
<1>5. InputsBound'
  BY <1>1 DEF HbmInv, InputsBound, WellBound, memVars
<1>6. HandlesOpen' /\ GraphsComplete'
  BY <1>1, <1>2 DEF HbmInv, HandlesOpen, GraphsComplete, Complete, modelVars
<1> QED
  BY <1>3, <1>4, <1>5, <1>6 DEF HbmInv

LEMMA NextKeepsInv == HbmInv /\ [Next]_vars => HbmInv'
<1> SUFFICES ASSUME HbmInv, Next PROVE HbmInv'
  BY StutterKeepsInv
<1>1. CASE LoadFile
  BY <1>1, LoadFileKeepsInv
<1>2. CASE \/ ListNames \/ InitializeFails \/ DescribeTensor \/ DescribeFails
           \/ \E g \in Graphs : FindGraph(g) \/ MakeGraph(g)
  BY <1>2, LoadMoveKeepsInv
<1>3. CASE CacheGraph \/ CheckGraph \/ Initialized
  BY <1>3, CacheGraphKeepsInv, CheckedKeepsInv
<1>4. CASE \E g \in Graphs : BeginExecute(g)
  BY <1>4, BeginExecuteKeepsInv
<1>5. CASE AllocateOutput \/ KeepBuffers \/ EnsureFails
  BY <1>5, AllocateOutputKeepsInv, KeepBuffersKeepsInv, EnsureFailsKeepsInv
<1>6. CASE \E b \in Resident : BindResident(b)
  BY <1>6, BindResidentKeepsInv
<1>7. CASE \E ok \in BOOLEAN : BindHost(ok)
  BY <1>7, BindHostKeepsInv
<1>8. CASE BindFails
  BY <1>8, BindFailsKeepsInv
<1>9. CASE CreateTask \/ RunTask \/ UnpackOutput \/ ReleaseTask
  BY <1>9, TaskKeepsInv
<1>10. CASE \E b \in Resident : AllocateResident(b) \/ DropResident(b)
  BY <1>10, ResidentKeepsInv
<1>11. CASE Close
  BY <1>11, CloseKeepsInv
<1> QED
  BY <1>1, <1>2, <1>3, <1>4, <1>5, <1>6, <1>7, <1>8, <1>9, <1>10, <1>11 DEF Next

LEMMA HbmInvariant == Spec => []HbmInv
  BY InitInv, NextKeepsInv, PTL DEF Spec

\* The types of the session, its graphs and its buffers (hbm.cpp).
THEOREM TypeCorrect == Spec => []TypeOK
<1>1. HbmInv => TypeOK
  BY DEF HbmInv
<1> QED
  BY <1>1, HbmInvariant, PTL

\* Every allocation of a tensor has one owner that frees it and every task one
\* call that releases it, on every failure path of EnsurePersistentBuffers and
\* Execute (hbm.cpp), for any number of graphs, tensors and loads.
THEOREM MemoryHasOneOwner == Spec => []MemoryAccounted
<1>1. HbmInv => MemoryAccounted
  BY DEF HbmInv
<1> QED
  BY <1>1, HbmInvariant, PTL

\* hbDNNInferV2 runs on an open model with complete metadata, allocated outputs
\* and inputs in live memory (hbm.cpp), whatever retries of Load and half-read
\* wrappers came before.
THEOREM LaunchesSound == Spec => []LaunchSound
<1>1. HbmInv => LaunchSound
  <2> SUFFICES ASSUME HbmInv, pc = "task" PROVE LaunchSound
    BY DEF LaunchSound
  <2>1. initialized /\ name \in Graphs
    BY LaunchFacts DEF Launching
  <2>2. model[name] \in opened /\ described[name] = Tensors
    BY <2>1 DEF HbmInv, GraphsComplete, HandlesOpen, Complete
  <2> QED
    BY <2>2 DEF HbmInv, InputsBound, LaunchSound
<1> QED
  BY <1>1, HbmInvariant, PTL
==============================================================================
