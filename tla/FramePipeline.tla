---------------------------- MODULE FramePipeline ----------------------------
(***************************************************************************)
(* The image path of LocateAnythingNode: the single executor thread that   *)
(* runs the prompt and image callbacks (and, after spin() returns, the     *)
(* destructor), the worker that prepares frames (preprocess and Vision)    *)
(* and the worker that completes them (Language, postprocess, publish).    *)
(* They share one mutex and one condition variable, a latest-frame slot    *)
(* (pending_) and a one-frame hand-over slot (prepared_).                  *)
(*                                                                         *)
(* Every critical section is one atomic step; a notify_all issued after    *)
(* the unlock is a step of its own, so another thread can run in between.  *)
(* A thread whose wait predicate is false is "blocked" until a             *)
(* notification or a spurious wakeup makes it evaluate the predicate       *)
(* again ("lock").                                                         *)
(***************************************************************************)
EXTENDS Naturals, Sequences

CONSTANTS
  Prompts,      \* prompts PromptBuilder::Validate accepts
  NoPrompt,     \* the empty prompt_ of a node that has not received one
  None,         \* an empty slot
  MaxFrames,    \* bound: frames queued in one behaviour
  MaxPrompts    \* bound: prompt updates in one behaviour

Frame == [id : Nat, prompt : Prompts]

ASSUME PromptAssumption == NoPrompt \notin Prompts
ASSUME NoneAssumption == None \notin Frame
ASSUME BoundAssumption == MaxFrames \in Nat /\ MaxPrompts \in Nat

VARIABLES
  prompt,       \* prompt_
  pending,      \* pending_: the latest-frame slot
  prepared,     \* prepared_: the hand-over slot
  stopping,     \* stopping_
  ok,           \* rclcpp::ok()
  pc,           \* where each thread stands
  held,         \* the frame in a worker's local variable
  dropped,      \* dropped_frames_
  unreported,   \* dropped_since_warning_
  \* history
  arrivals,     \* prompt active when the i-th queued frame was received
  promptFrom,   \* id of the first frame received after the last update
  updates,      \* number of prompt updates
  published,    \* frames whose result was published, in order
  stale,        \* results published for older prompts since the last update
  failed,       \* frames lost to an exception in Prepare or Complete
  discarded,    \* frames thrown away by shutdown
  reported      \* drops announced by a warning

vars == <<prompt, pending, prepared, stopping, ok, pc, held, dropped, unreported,
          arrivals, promptFrom, updates, published, stale, failed, discarded,
          reported>>

slots    == <<pending, prepared, held>>
counters == <<dropped, unreported, reported>>
fates    == <<published, stale, failed, discarded>>
intake   == <<prompt, arrivals, promptFrom, updates>>

Workers == {"prepare", "complete"}
Threads == {"main"} \union Workers

Occupied(slot) == slot # None

\* condition_.notify_all(): every blocked thread evaluates its predicate again.
Woken(at) == [t \in Threads |-> IF at[t] = "blocked" THEN "lock" ELSE at[t]]

\* Thread t goes to label l.
Goto(t, l) == pc' = [pc EXCEPT ![t] = l]

\* Thread t goes to label l and wakes whoever is blocked.
NotifyAndGoto(t, l) == pc' = [Woken(pc) EXCEPT ![t] = l]

Init ==
  /\ prompt = NoPrompt
  /\ pending = None
  /\ prepared = None
  /\ stopping = FALSE
  /\ ok = TRUE
  /\ pc = [t \in Threads |-> IF t = "main" THEN "spin" ELSE "loop"]
  /\ held = [w \in Workers |-> None]
  /\ dropped = 0
  /\ unreported = 0
  /\ arrivals = <<>>
  /\ promptFrom = 1
  /\ updates = 0
  /\ published = <<>>
  /\ stale = 0
  /\ failed = 0
  /\ discarded = 0
  /\ reported = 0

------------------------------------------------------------------------------
(* The executor thread: callbacks run one at a time. *)

\* OnPrompt with a valid command; an invalid one changes nothing.
OnPrompt(p) ==
  /\ pc["main"] = "spin"
  /\ updates < MaxPrompts
  /\ prompt' = p
  /\ updates' = updates + 1
  /\ promptFrom' = Len(arrivals) + 1
  /\ stale' = 0
  /\ UNCHANGED <<slots, counters, stopping, ok, pc, arrivals, published, failed,
                 discarded>>

\* The frame that QueueFrame stores: the image with the prompt of this moment.
NewFrame == [id |-> Len(arrivals) + 1, prompt |-> prompt]

\* Count a replaced frame; announce the interval's drops when it has elapsed.
CountDrop ==
  /\ dropped' = dropped + 1
  /\ \/ /\ unreported' = unreported + 1
        /\ UNCHANGED reported
     \/ /\ reported' = reported + unreported + 1
        /\ unreported' = 0

\* Faulty variant: a full slot keeps its frame and the newcomer is dropped.
QueueFrameKeepsOldest ==
  /\ pc["main"] = "spin"
  /\ Len(arrivals) < MaxFrames
  /\ prompt # NoPrompt
  /\ IF Occupied(pending) THEN CountDrop ELSE UNCHANGED counters
  /\ pending' = IF Occupied(pending) THEN pending ELSE NewFrame
  /\ arrivals' = Append(arrivals, prompt)
  /\ Goto("main", "notify")
  /\ UNCHANGED <<prompt, promptFrom, updates, prepared, held, stopping, ok, fates>>

\* QueueFrame's critical section once a prompt is known; without one the frame
\* is ignored and nothing is notified.
QueueFrame ==
  /\ pc["main"] = "spin"
  /\ Len(arrivals) < MaxFrames
  /\ prompt # NoPrompt
  /\ IF Occupied(pending) THEN CountDrop ELSE UNCHANGED counters
  /\ pending' = NewFrame
  /\ arrivals' = Append(arrivals, prompt)
  /\ Goto("main", "notify")
  /\ UNCHANGED <<prompt, promptFrom, updates, prepared, held, stopping, ok, fates>>

QueueNotify ==
  /\ pc["main"] = "notify"
  /\ NotifyAndGoto("main", "spin")
  /\ UNCHANGED <<intake, slots, counters, stopping, ok, fates>>

\* A signal or rclcpp::shutdown makes rclcpp::ok() false for every thread.
RosShutdown ==
  /\ ok
  /\ ok' = FALSE
  /\ UNCHANGED <<intake, slots, counters, stopping, pc, fates>>

\* spin() returns only after rclcpp shutdown; then the node is destroyed.
SpinReturns ==
  /\ pc["main"] = "spin"
  /\ ~ok
  /\ Goto("main", "stop")
  /\ UNCHANGED <<intake, slots, counters, stopping, ok, fates>>

\* First block of the destructor, which also announces the remaining drops.
BeginStop ==
  /\ pc["main"] = "stop"
  /\ stopping' = TRUE
  /\ reported' = reported + unreported
  /\ unreported' = 0
  /\ Goto("main", "stop_notify")
  /\ UNCHANGED <<intake, slots, dropped, ok, fates>>

\* Faulty variant: the destructor joins without waking the workers.
StopWithoutNotify ==
  /\ pc["main"] = "stop_notify"
  /\ Goto("main", "join")
  /\ UNCHANGED <<intake, slots, counters, stopping, ok, fates>>

StopNotify ==
  /\ pc["main"] = "stop_notify"
  /\ NotifyAndGoto("main", "join")
  /\ UNCHANGED <<intake, slots, counters, stopping, ok, fates>>

Lost(slot) == IF Occupied(slot) THEN 1 ELSE 0

\* Both joins return; the members, with the frames still in them, are destroyed.
Destroy ==
  /\ pc["main"] = "join"
  /\ \A w \in Workers : pc[w] = "exited"
  /\ discarded' = discarded + Lost(pending) + Lost(prepared)
  /\ pending' = None
  /\ prepared' = None
  /\ Goto("main", "gone")
  /\ UNCHANGED <<intake, held, counters, stopping, ok, published, stale, failed>>

------------------------------------------------------------------------------
(* Both workers: loop condition, wait and wakeup. *)

\* while (rclcpp::ok())
LoopTest(w) ==
  /\ pc[w] = "loop"
  /\ Goto(w, IF ok THEN "lock" ELSE "exited")
  /\ UNCHANGED <<intake, slots, counters, stopping, ok, fates>>

\* There is work for the worker besides stopping.
\* Faulty variants: one half of PrepareFrames' predicate is missing.
CanPrepareAnyPrepared == Occupied(pending)

CanPrepare == Occupied(pending) /\ ~Occupied(prepared)
CanComplete == Occupied(prepared)
HasWork(w) == IF w = "prepare" THEN CanPrepare ELSE CanComplete

\* The predicate holds because of stopping_: return.
Return(w) ==
  /\ pc[w] = "lock"
  /\ stopping
  /\ Goto(w, "exited")
  /\ UNCHANGED <<intake, slots, counters, stopping, ok, fates>>

\* The predicate is false: release the mutex and block.
Block(w) ==
  /\ pc[w] = "lock"
  /\ ~stopping
  /\ ~HasWork(w)
  /\ Goto(w, "blocked")
  /\ UNCHANGED <<intake, slots, counters, stopping, ok, fates>>

SpuriousWakeup(w) ==
  /\ pc[w] = "blocked"
  /\ Goto(w, "lock")
  /\ UNCHANGED <<intake, slots, counters, stopping, ok, fates>>

------------------------------------------------------------------------------
(* PrepareFrames *)

\* Faulty variant: the prompt is read when preparation starts.
TakePendingLatePrompt ==
  /\ pc["prepare"] = "lock"
  /\ ~stopping
  /\ CanPrepare
  /\ held' = [held EXCEPT !["prepare"] = [pending EXCEPT !.prompt = prompt]]
  /\ pending' = None
  /\ Goto("prepare", "work")
  /\ UNCHANGED <<intake, prepared, counters, stopping, ok, fates>>

TakePending ==
  /\ pc["prepare"] = "lock"
  /\ ~stopping
  /\ CanPrepare
  /\ held' = [held EXCEPT !["prepare"] = pending]
  /\ pending' = None
  /\ Goto("prepare", "work")
  /\ UNCHANGED <<intake, prepared, counters, stopping, ok, fates>>

\* session_->Prepare succeeded: hand the frame over, unless stopping.
HandOver ==
  /\ pc["prepare"] = "work"
  /\ held' = [held EXCEPT !["prepare"] = None]
  /\ \/ /\ stopping
        /\ discarded' = discarded + 1
        /\ Goto("prepare", "exited")
        /\ UNCHANGED prepared
     \/ /\ ~stopping
        /\ prepared' = held["prepare"]
        /\ Goto("prepare", "notify")
        /\ UNCHANGED discarded
  /\ UNCHANGED <<intake, pending, counters, stopping, ok, published, stale, failed>>

\* Faulty variant: the hand-over is not announced.
HandOverWithoutNotify ==
  /\ pc["prepare"] = "notify"
  /\ Goto("prepare", "loop")
  /\ UNCHANGED <<intake, slots, counters, stopping, ok, fates>>

HandOverNotify ==
  /\ pc["prepare"] = "notify"
  /\ NotifyAndGoto("prepare", "loop")
  /\ UNCHANGED <<intake, slots, counters, stopping, ok, fates>>

\* An exception of session_->Prepare is logged; the frame is lost.
PrepareFails ==
  /\ pc["prepare"] = "work"
  /\ held' = [held EXCEPT !["prepare"] = None]
  /\ failed' = failed + 1
  /\ Goto("prepare", "loop")
  /\ UNCHANGED <<intake, pending, prepared, counters, stopping, ok, published, stale,
                 discarded>>

------------------------------------------------------------------------------
(* Run *)

TakePrepared ==
  /\ pc["complete"] = "lock"
  /\ ~stopping
  /\ CanComplete
  /\ held' = [held EXCEPT !["complete"] = prepared]
  /\ prepared' = None
  /\ Goto("complete", "notify")
  /\ UNCHANGED <<intake, pending, counters, stopping, ok, fates>>

\* Faulty variant: freeing the hand-over slot is not announced.
TakeWithoutNotify ==
  /\ pc["complete"] = "notify"
  /\ Goto("complete", "work")
  /\ UNCHANGED <<intake, slots, counters, stopping, ok, fates>>

TakeNotify ==
  /\ pc["complete"] = "notify"
  /\ NotifyAndGoto("complete", "work")
  /\ UNCHANGED <<intake, slots, counters, stopping, ok, fates>>

\* session_->Complete, RecordOutputFps, BuildResult and publish all succeed.
Publish ==
  LET frame == held["complete"] IN
  /\ pc["complete"] = "work"
  /\ published' = Append(published, frame)
  /\ stale' = IF frame.id < promptFrom THEN stale + 1 ELSE stale
  /\ held' = [held EXCEPT !["complete"] = None]
  /\ Goto("complete", "loop")
  /\ UNCHANGED <<intake, pending, prepared, counters, stopping, ok, failed, discarded>>

\* One of them throws: logged, no result for this frame.
CompleteFails ==
  /\ pc["complete"] = "work"
  /\ failed' = failed + 1
  /\ held' = [held EXCEPT !["complete"] = None]
  /\ Goto("complete", "loop")
  /\ UNCHANGED <<intake, pending, prepared, counters, stopping, ok, published, stale,
                 discarded>>

------------------------------------------------------------------------------
Main ==
  \/ \E p \in Prompts : OnPrompt(p)
  \/ QueueFrame
  \/ QueueNotify
  \/ SpinReturns
  \/ BeginStop
  \/ StopNotify
  \/ Destroy

Worker(w) == LoopTest(w) \/ Return(w) \/ Block(w)

PrepareFrames ==
  Worker("prepare") \/ TakePending \/ HandOver \/ HandOverNotify \/ PrepareFails

Run ==
  Worker("complete") \/ TakePrepared \/ TakeNotify \/ Publish \/ CompleteFails

Next ==
  \/ Main
  \/ RosShutdown
  \/ PrepareFrames
  \/ Run
  \/ \E w \in Workers : SpuriousWakeup(w)

Spec == Init /\ [][Next]_vars

(* Fairness: an unblocked thread keeps running, an executor callback that   *)
(* has begun finishes, and a destructor that has begun goes on.  Nothing is *)
(* assumed of message arrival, of ROS shutdown or of spurious wakeups.      *)
Fairness ==
  /\ WF_vars(PrepareFrames)
  /\ WF_vars(Run)
  /\ WF_vars(QueueNotify)
  /\ WF_vars(SpinReturns \/ BeginStop \/ StopNotify \/ Destroy)

FairSpec == Spec /\ Fairness

------------------------------------------------------------------------------
(* Properties *)

Slot == Frame \union {None}

\* The workers' labels at which the local variable holds a frame.
Holding(w) == pc[w] = "work" \/ (w = "complete" /\ pc[w] = "notify")

\* Shape of the state; a worker holds a frame exactly while it processes one,
\* so neither `*pending_` nor `*prepared_` is read from an empty optional
\* (locateanything_node.cpp:477, 507).
TypeOK ==
  /\ prompt \in Prompts \union {NoPrompt}
  /\ pending \in Slot /\ prepared \in Slot
  /\ stopping \in BOOLEAN /\ ok \in BOOLEAN
  /\ pc \in [Threads -> {"spin", "notify", "stop", "stop_notify", "join", "gone",
                         "loop", "lock", "blocked", "work", "exited"}]
  /\ held \in [Workers -> Slot]
  /\ {dropped, unreported, reported, failed, discarded, stale, updates} \subseteq Nat
  /\ arrivals \in Seq(Prompts)
  /\ promptFrom \in Nat
  /\ published \in Seq(Frame)
  /\ \A w \in Workers : held[w] # None <=> Holding(w)

Accepted  == Len(arrivals)     \* frames taken by QueueFrame
Delivered == Len(published)    \* results published

\* The number of frames inside the node.
Inside == Lost(pending) + Lost(prepared) + Lost(held["prepare"]) + Lost(held["complete"])

\* Frame accounting: every frame that QueueFrame accepted is counted as dropped,
\* was published, failed or was thrown away by shutdown, or still sits in
\* exactly one slot; and dropped_frames_ is what the warnings have announced
\* plus what the next one will.  An emplace over a prepared frame, or a frame
\* forgotten on an early return, breaks it.
FramesAccounted ==
  /\ Accepted = dropped + Delivered + failed + discarded + Inside
  /\ dropped = reported + unreported

\* Results come out in the order the images were received, at most one for
\* each, and each with the prompt that was active when its image was received
\* (main.cpp:19), whatever the two workers and the callbacks interleave.
ResultsFaithful ==
  \A i \in DOMAIN published :
    /\ published[i].id \in DOMAIN arrivals
    /\ published[i].prompt = arrivals[published[i].id]
    /\ \A j \in DOMAIN published : i < j => published[i].id < published[j].id

Before(a, b) == Occupied(a) /\ Occupied(b) => a.id < b.id

\* The frame is one that was received, with the prompt of that moment.
Snapshot(slot) ==
  Occupied(slot) => slot.id \in DOMAIN arrivals /\ slot.prompt = arrivals[slot.id]

\* The stages hold frames in the order of their arrival, behind everything
\* published, and Vision never works ahead of a frame that is already prepared
\* (locateanything_node.cpp:464), so no hand-over overwrites a prepared frame.
StageOrder ==
  /\ Occupied(prepared) => ~Occupied(held["prepare"])
  /\ Before(held["complete"], prepared)
  /\ Before(held["complete"], held["prepare"])
  /\ Before(held["complete"], pending)
  /\ Before(prepared, pending)
  /\ Before(held["prepare"], pending)
  /\ \A slot \in {pending, prepared, held["prepare"], held["complete"]} :
       /\ Snapshot(slot)
       /\ \A i \in DOMAIN published : Occupied(slot) => published[i].id < slot.id
  /\ promptFrom <= Len(arrivals) + 1

\* Somebody is about to call notify_all.
NotifyComing ==
  \/ pc["main"] \in {"notify", "stop_notify"}
  \/ \E w \in Workers : pc[w] = "notify"

\* No lost wakeup: a worker that sleeps although its predicate holds is about
\* to be notified.  One condition variable serves both predicates, and every
\* notification is sent after the unlock.
NoLostWakeup ==
  \A w \in Workers :
    pc[w] = "blocked" /\ (stopping \/ HasWork(w)) => NotifyComing

\* 1 for a frame received before the last prompt update.
Outdated(slot) == IF Occupied(slot) THEN IF slot.id < promptFrom THEN 1 ELSE 0 ELSE 0

\* After a prompt update at most three more results can carry an older prompt:
\* the frames in completion, in preparation or prepared, and pending.
StaleBound ==
  stale + Outdated(pending) + Outdated(prepared)
    + Outdated(held["prepare"]) + Outdated(held["complete"]) <= 3

\* README.md:567 says that a frame already in inference "may still produce one
\* result for the previous prompt": a second one would have to carry the current
\* prompt text again.
OneStaleResult == stale > 1 => published[Len(published)].prompt = prompt

\* The frame is in a slot or in a worker's hands.
IsInside(n) ==
  \E slot \in {pending, prepared, held["prepare"], held["complete"]} :
    Occupied(slot) /\ slot.id = n

\* A frame never stays inside for ever: it is replaced, published, fails or is
\* thrown away, although nothing but the notifications wakes the workers. Arrivals
\* are bounded, so in the end nothing is inside.
EveryFrameLeaves == <>[](\A n \in 1 .. MaxFrames : ~IsInside(n))

\* Once ROS is shut down both workers exit and the destructor returns.
Terminates == ~ok ~> (pc["main"] = "gone" /\ \A w \in Workers : pc[w] = "exited")

\* The threads implement the lossy first-in first-out line of FrameStream:
\* the line is what the completion worker, the hand-over slot, the preparation
\* worker and the latest-frame slot hold, in this order.
Content(slot) == IF Occupied(slot) THEN <<slot>> ELSE <<>>

Line == Content(held["complete"]) \o Content(prepared)
          \o Content(held["prepare"]) \o Content(pending)

Stream == INSTANCE FrameStream
            WITH Depth <- 3, line <- Line, accepted <- Len(arrivals)

ImplementsFrameStream == Stream!Spec
==============================================================================
