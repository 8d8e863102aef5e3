------------------------------ MODULE HbmSession ------------------------------
(* One packed model file and the engine that owns it: HbmSession and Graph of *)
(* hbm.cpp, driven by Initialize and the inference calls of vision.cpp and    *)
(* language.cpp. The engine's mutex admits one call at a time, so `pc` is the *)
(* place of that call; every vendor call on the way may fail. A tensor is its *)
(* index, inputs before outputs.                                              *)
EXTENDS Naturals

CONSTANTS
  Graphs,      \* names of the graphs the engine requires
  Inputs,      \* number of inputs every graph declares
  Outputs,     \* number of outputs every graph declares
  Resident,    \* names of the device buffers a caller may allocate (KV rings)
  NoGraph,     \* no graph is being resolved or executed
  MaxLoads     \* bound: how often Initialize reaches Load

Tensors == Inputs + Outputs
InTensors == 1 .. Inputs
OutTensors == Inputs + 1 .. Tensors
Own == "own"

ASSUME HbmAssumption ==
  /\ Inputs \in Nat \ {0} /\ Outputs \in Nat \ {0} /\ MaxLoads \in Nat
  /\ NoGraph \notin Graphs /\ Own \notin Resident

VARIABLES
  packed,      \* packed_handle_: the number of the Load it came from, 0 for null
  opened,      \* handles the vendor runtime holds open
  loads,       \* number of handles opened so far
  model,       \* graphs_: the handle a cached graph came from, 0 if not cached
  described,   \* how many tensors' names, shapes and dtypes a graph has
  private,     \* buffers_: tensors of a graph that point to memory of their own
  bound,       \* bound_inputs: Own or the device buffer an input is bound to
  live,        \* the vendor's count of unreleased allocations of a tensor
  resident,    \* device buffers allocated
  tasks,       \* tasks created and not released
  initialized, \* the engine's flag
  pc, name, at, \* the call in progress: its place, its graph, its tensor index
  todo,        \* graphs Initialize has yet to check
  local        \* output buffers of an unfinished EnsurePersistentBuffers

modelVars == <<packed, opened, loads, model, described, initialized, todo>>
memVars == <<private, bound, live, resident, tasks, local>>
vars == <<modelVars, memVars, pc, name, at>>

\* DeviceBuffer views and private memory an input of graph g may be bound to.
BoundTo == Resident \union {Own}

Init ==
  /\ packed = 0 /\ opened = {} /\ loads = 0
  /\ model = [g \in Graphs |-> 0]
  /\ described = [g \in Graphs |-> 0]
  /\ private = [g \in Graphs |-> {}]
  /\ bound = [g \in Graphs |-> [i \in InTensors |-> Own]]
  /\ live = [g \in Graphs |-> [i \in 1 .. Tensors |-> 0]]
  /\ resident = {} /\ tasks = 0 /\ initialized = FALSE
  /\ pc = "idle" /\ name = NoGraph /\ at = 0 /\ todo = {} /\ local = {}

\* A call returns or throws: its locals are gone.
Leave == pc' = "idle" /\ name' = NoGraph /\ at' = 0

-------------------------------------------------------------------------------
(* Initialize: Load, then every required graph, then what else may fail.      *)

\* Faulty variant: Load releases the handle it replaces but keeps the wrappers.
LoadFileReleasing ==
  /\ pc = "idle" /\ ~initialized /\ loads < MaxLoads
  /\ loads' = loads + 1 /\ packed' = loads + 1
  /\ opened' = (opened \ {packed}) \union {loads + 1}
  /\ pc' = "names"
  /\ UNCHANGED <<model, described, initialized, todo, memVars, name, at>>

\* hbDNNInitializeFromFiles succeeded; its failure leaves no trace. A retry
\* after a failed Initialize overwrites the handle of the earlier Load.
LoadFile ==
  /\ pc = "idle" /\ ~initialized /\ loads < MaxLoads
  /\ loads' = loads + 1 /\ packed' = loads + 1
  /\ opened' = opened \union {loads + 1}
  /\ pc' = "names"
  /\ UNCHANGED <<model, described, initialized, todo, memVars, name, at>>

\* The names are those the engine requires.
ListNames ==
  /\ pc = "names"
  /\ todo' = Graphs /\ pc' = "resolve"
  /\ UNCHANGED <<packed, opened, loads, model, described, initialized, memVars,
                 name, at>>

\* The name list fails or does not match, a graph has no handle, or the
\* embedding table does not open.
InitializeFails ==
  /\ pc \in {"names", "resolve", "check"}
  /\ todo' = {}
  /\ Leave
  /\ UNCHANGED <<packed, opened, loads, model, described, initialized, memVars>>

\* GetGraph finds the wrapper of an earlier call.
FindGraph(g) ==
  /\ pc = "resolve" /\ g \in todo /\ model[g] # 0
  /\ pc' = "check" /\ name' = g
  /\ UNCHANGED <<modelVars, memVars, at>>

\* GetGraph makes a wrapper and RefreshIO begins; `at` counts what it has read.
MakeGraph(g) ==
  /\ pc = "resolve" /\ g \in todo /\ model[g] = 0
  /\ pc' = "describe" /\ name' = g /\ at' = 0
  /\ UNCHANGED <<modelVars, memVars>>

DescribeTensor ==
  /\ pc = "describe" /\ at < Tensors
  /\ at' = at + 1
  /\ UNCHANGED <<modelVars, memVars, pc, name>>

\* The wrapper enters graphs_: complete, or as far as RefreshIO came when the
\* vendor returned a null name with error code 0, which Result::ok accepts.
CacheGraph ==
  /\ pc = "describe"
  /\ model' = [model EXCEPT ![name] = packed]
  /\ described' = [described EXCEPT ![name] = at]
  /\ pc' = "check" /\ at' = 0
  /\ UNCHANGED <<packed, opened, loads, initialized, todo, memVars, name>>

\* A metadata query fails with its error code: the wrapper is dropped.
DescribeFails ==
  /\ pc = "describe" /\ at < Tensors
  /\ todo' = {}
  /\ Leave
  /\ UNCHANGED <<packed, opened, loads, model, described, initialized, memVars>>

\* The engine compares the number of tensors, their shapes and dtypes.
CheckGraph ==
  /\ pc = "check" /\ described[name] = Tensors
  /\ todo' = todo \ {name}
  /\ pc' = "resolve" /\ name' = NoGraph
  /\ UNCHANGED <<packed, opened, loads, model, described, initialized, memVars, at>>

Initialized ==
  /\ pc = "resolve" /\ todo = {}
  /\ initialized' = TRUE
  /\ Leave
  /\ UNCHANGED <<packed, opened, loads, model, described, todo, memVars>>

-------------------------------------------------------------------------------
(* Execute: buffers, inputs, task, outputs.                                   *)

\* ExecuteGraphByName after initialisation: every graph is found and described,
\* so the refresh in Execute is never reached (LaunchSound).
BeginExecute(g) ==
  /\ pc = "idle" /\ initialized
  /\ pc' = (IF OutTensors \subseteq private[g] THEN "bind" ELSE "ensure")
  /\ name' = g
  /\ at' = (IF OutTensors \subseteq private[g] THEN 1 ELSE Inputs + 1)
  /\ UNCHANGED <<modelVars, memVars>>

AllocateOutput ==
  /\ pc = "ensure" /\ at <= Tensors
  /\ live' = [live EXCEPT ![name][at] = @ + 1]
  /\ local' = local \union {at}
  /\ at' = at + 1
  /\ UNCHANGED <<modelVars, private, bound, resident, tasks, pc, name>>

KeepBuffers ==
  /\ pc = "ensure" /\ at = Tensors + 1
  /\ private' = [private EXCEPT ![name] = @ \union local]
  /\ local' = {}
  /\ pc' = "bind" /\ at' = 1
  /\ UNCHANGED <<modelVars, bound, live, resident, tasks, name>>

\* Faulty variant: an unfinished set of output buffers is not freed.
EnsureFailsLeaking ==
  /\ pc = "ensure" /\ at <= Tensors
  /\ local' = {}
  /\ Leave
  /\ UNCHANGED <<modelVars, private, bound, live, resident, tasks>>

\* A property query, an unsupported dtype, a layout or an allocation fails: the
\* unfinished buffers free what they hold.
EnsureFails ==
  /\ pc = "ensure" /\ at <= Tensors
  /\ live' = [live EXCEPT ![name] =
                [i \in 1 .. Tensors |-> IF i \in local THEN @[i] - 1 ELSE @[i]]]
  /\ local' = {}
  /\ Leave
  /\ UNCHANGED <<modelVars, private, bound, resident, tasks>>

\* A device-resident tensor is bound where it lies.
BindResident(b) ==
  /\ pc = "bind" /\ at \in InTensors /\ b \in resident
  /\ bound' = [bound EXCEPT ![name][at] = b]
  /\ at' = at + 1
  /\ UNCHANGED <<modelVars, private, live, resident, tasks, local, pc, name>>

\* Host data is copied to private memory, allocated at its first use; packing
\* or the cache clean may fail once it is allocated.
BindHost(ok) ==
  /\ pc = "bind" /\ at \in InTensors
  /\ bound' = [bound EXCEPT ![name][at] = Own]
  /\ private' = [private EXCEPT ![name] = @ \union {at}]
  /\ live' = IF at \in private[name] THEN live
             ELSE [live EXCEPT ![name][at] = @ + 1]
  /\ IF ok THEN at' = at + 1 /\ UNCHANGED <<pc, name>> ELSE Leave
  /\ UNCHANGED <<modelVars, resident, tasks, local>>

\* A shape, a dtype, a device range or the allocation is refused, or
\* hbDNNInferV2 fails. The view of this input has been reset by then.
BindFails ==
  /\ pc = "bind"
  /\ bound' = IF at \in InTensors THEN [bound EXCEPT ![name][at] = Own] ELSE bound
  /\ Leave
  /\ UNCHANGED <<modelVars, private, live, resident, tasks, local>>

CreateTask ==
  /\ pc = "bind" /\ at = Inputs + 1
  /\ tasks' = tasks + 1
  /\ pc' = "task" /\ at' = 0
  /\ UNCHANGED <<modelVars, private, bound, live, resident, local, name>>

\* The task is submitted and waited for.
RunTask ==
  /\ pc = "task"
  /\ pc' = "unpack" /\ at' = Inputs + 1
  /\ UNCHANGED <<modelVars, memVars, name>>

\* An output is skipped or copied to the host.
UnpackOutput ==
  /\ pc = "unpack" /\ at <= Tensors
  /\ at' = at + 1
  /\ UNCHANGED <<modelVars, memVars, pc, name>>

\* Submission, waiting, a cache invalidation, a slice or the unpacking fails,
\* or all outputs are there: the task is released on each of these paths.
ReleaseTask ==
  /\ pc \in {"task", "unpack"}
  /\ tasks' = tasks - 1
  /\ Leave
  /\ UNCHANGED <<modelVars, private, bound, live, resident, local>>

-------------------------------------------------------------------------------
(* Device buffers of the caller, and the end of the session.                  *)

\* AllocateDeviceBuffer; one whose first cache clean fails frees itself again.
AllocateResident(b) ==
  /\ pc = "idle" /\ initialized /\ b \notin resident
  /\ resident' = resident \union {b}
  /\ UNCHANGED <<modelVars, private, bound, live, tasks, local, pc, name, at>>

\* The last owner of a device buffer drops it between two launches.
DropResident(b) ==
  /\ pc = "idle" /\ b \in resident
  /\ resident' = resident \ {b}
  /\ UNCHANGED <<modelVars, private, bound, live, tasks, local, pc, name, at>>

\* The engine is destroyed: its device buffers and the session, whose wrappers
\* free their memory before the handle is released.
Close ==
  /\ pc = "idle"
  /\ model' = [g \in Graphs |-> 0]
  /\ described' = [g \in Graphs |-> 0]
  /\ live' = [g \in Graphs |-> [i \in 1 .. Tensors |->
                IF i \in private[g] THEN live[g][i] - 1 ELSE live[g][i]]]
  /\ private' = [g \in Graphs |-> {}]
  /\ opened' = opened \ {packed}
  /\ packed' = 0 /\ resident' = {}
  /\ pc' = "closed"
  /\ UNCHANGED <<loads, initialized, todo, bound, tasks, local, name, at>>

Next ==
  \/ LoadFile \/ ListNames \/ InitializeFails
  \/ \E g \in Graphs : FindGraph(g) \/ MakeGraph(g) \/ BeginExecute(g)
  \/ DescribeTensor \/ CacheGraph \/ DescribeFails \/ CheckGraph \/ Initialized
  \/ AllocateOutput \/ KeepBuffers \/ EnsureFails
  \/ \E b \in Resident : BindResident(b) \/ AllocateResident(b) \/ DropResident(b)
  \/ \E ok \in BOOLEAN : BindHost(ok)
  \/ BindFails \/ CreateTask \/ RunTask \/ UnpackOutput \/ ReleaseTask
  \/ Close

Spec == Init /\ [][Next]_vars

-------------------------------------------------------------------------------
TypeOK ==
  /\ packed \in 0 .. MaxLoads /\ loads \in 0 .. MaxLoads
  /\ opened \subseteq 1 .. MaxLoads
  /\ model \in [Graphs -> 0 .. MaxLoads]
  /\ described \in [Graphs -> 0 .. Tensors]
  /\ private \in [Graphs -> SUBSET (1 .. Tensors)]
  /\ bound \in [Graphs -> [InTensors -> BoundTo]]
  /\ live \in [Graphs -> [1 .. Tensors -> Nat]]
  /\ resident \subseteq Resident
  /\ tasks \in Nat
  /\ initialized \in BOOLEAN
  /\ pc \in {"idle", "names", "resolve", "describe", "check", "ensure", "bind",
             "task", "unpack", "closed"}
  /\ name \in Graphs \union {NoGraph}
  /\ at \in 0 .. Tensors + 1
  /\ todo \subseteq Graphs
  /\ local \subseteq OutTensors

\* Memory that tensor i of graph g would give back when it is destroyed.
Holds(g, i) == i \in private[g] \/ (g = name /\ i \in local)

\* Every allocation has exactly one owner that will free it and every task one
\* call that will release it, on every failure path of EnsurePersistentBuffers
\* and Execute: nothing leaks, nothing is freed twice, nothing is left at the end.
MemoryAccounted ==
  /\ \A g \in Graphs : \A i \in 1 .. Tensors : live[g][i] = IF Holds(g, i) THEN 1 ELSE 0
  /\ tasks = IF pc \in {"task", "unpack"} THEN 1 ELSE 0

\* Input i of the graph being launched lies in memory that is alive.
WellBound(i) ==
  IF bound[name][i] = Own THEN i \in private[name] ELSE bound[name][i] \in resident

\* What hbDNNInferV2 was given while its task runs: a graph of a model that is
\* still open and whose metadata is complete, outputs that are allocated, and for
\* each input memory that is alive - although GetGraph can cache half a wrapper,
\* Load can be repeated, and device buffers come and go between two launches.
LaunchSound ==
  pc = "task" =>
    /\ model[name] \in opened /\ described[name] = Tensors
    /\ OutTensors \subseteq private[name]
    /\ \A i \in InTensors : WellBound(i)

\* A graph is named by the steps that work on one, and only an unfinished set of
\* output buffers is local to its call; a graph has all of them or none.
CallPlace ==
  /\ name = NoGraph <=> pc \in {"idle", "names", "resolve", "closed"}
  /\ local = IF pc = "ensure" THEN Inputs + 1 .. at - 1 ELSE {}
  /\ pc = "ensure" => at > Inputs /\ private[name] \intersect OutTensors = {}
  /\ pc = "unpack" => at > Inputs
  /\ pc = "describe" => at <= Tensors
  /\ \A g \in Graphs : OutTensors \subseteq private[g] \/ private[g] \intersect OutTensors = {}

\* Wrappers come from handles that are open, the current one or an older one.
HandlesOpen ==
  /\ opened \subseteq 1 .. loads
  /\ packed # 0 => packed \in opened
  /\ \A g \in Graphs : model[g] # 0 => model[g] \in opened
  /\ pc \in {"names", "resolve", "describe", "check"} => packed # 0 /\ ~initialized

Complete(g) == model[g] # 0 /\ described[g] = Tensors

\* Initialize takes a graph from `todo` only when it is complete.
GraphsComplete ==
  /\ pc \in {"resolve", "describe", "check"} => \A g \in Graphs \ todo : Complete(g)
  /\ pc \in {"describe", "check"} => name \in todo
  /\ pc = "check" => model[name] # 0
  /\ initialized /\ pc # "closed" => \A g \in Graphs : Complete(g)
  /\ pc \in {"ensure", "bind", "task", "unpack"} => initialized

\* Inputs before `at` are bound.
InputsBound ==
  /\ pc \in {"bind", "task", "unpack"} => OutTensors \subseteq private[name]
  /\ pc = "bind" => at \in 1 .. Inputs + 1 /\ \A i \in 1 .. at - 1 : WellBound(i)
  /\ pc = "task" => \A i \in InTensors : WellBound(i)

\* The invariant behind MemoryAccounted and LaunchSound.
HbmInv ==
  TypeOK /\ CallPlace /\ HandlesOpen /\ GraphsComplete /\ InputsBound /\ MemoryAccounted
==============================================================================
