------------------------ MODULE FramePipeline_proofs ------------------------
(* Proofs about FramePipeline, for any prompts and any bounds. *)
EXTENDS FramePipeline, SequenceTheorems, TLAPS

\* Definitions every step of every proof needs.
USE DEF Workers, Threads, Occupied, Woken, Goto, NotifyAndGoto

LEMMA InitTypeOK == Init => TypeOK
<1> SUFFICES ASSUME Init PROVE TypeOK
  OBVIOUS
<1> USE DEF Init
<1>1. pc \in [Threads -> {"spin", "notify", "stop", "stop_notify", "join", "gone",
                        "loop", "lock", "blocked", "work", "exited"}]
  OBVIOUS
<1>2. held \in [Workers -> Slot]
  BY DEF Slot
<1>3. \A w \in Workers : held[w] # None <=> Holding(w)
  BY DEF Holding
<1>4. arrivals \in Seq(Prompts) /\ published \in Seq(Frame)
  OBVIOUS
<1>5. stopping \in BOOLEAN /\ ok \in BOOLEAN
  OBVIOUS
<1>6. /\ prompt \in Prompts \union {NoPrompt}
      /\ pending \in Slot /\ prepared \in Slot
      /\ {dropped, unreported, reported, failed, discarded, stale, updates} \subseteq Nat
      /\ promptFrom \in Nat
  BY DEF Slot
<1> HIDE DEF Init
<1> QED
  BY <1>1, <1>2, <1>3, <1>4, <1>5, <1>6 DEF TypeOK

LEMMA NewFrameType ==
  ASSUME TypeOK, prompt # NoPrompt
  PROVE  NewFrame \in Frame
  BY DEF TypeOK, NewFrame, Frame

LEMMA NextTypeOK == TypeOK /\ [Next]_vars => TypeOK'
<1> SUFFICES ASSUME TypeOK, [Next]_vars PROVE TypeOK'
  OBVIOUS
<1> USE NoneAssumption DEF TypeOK, Slot, Holding
<1>1. ASSUME NEW p \in Prompts, OnPrompt(p) PROVE TypeOK'
  BY <1>1 DEF OnPrompt, slots, counters
<1>2. CASE QueueFrame
  <2>1. NewFrame \in Frame /\ prompt \in Prompts
    BY <1>2, NewFrameType DEF QueueFrame
  <2>2. {dropped, unreported, reported}' \subseteq Nat
    BY <1>2, SMTT(60) DEF QueueFrame, CountDrop, counters
  <2>3. QED
    BY <1>2, <2>1, <2>2 DEF QueueFrame, counters, fates
<1>3. CASE QueueNotify
  BY <1>3 DEF QueueNotify, intake, slots, counters, fates
<1>4. CASE RosShutdown
  BY <1>4 DEF RosShutdown, intake, slots, counters, fates
<1>5. CASE SpinReturns
  BY <1>5 DEF SpinReturns, intake, slots, counters, fates
<1>6. CASE BeginStop
  BY <1>6 DEF BeginStop, intake, slots, counters, fates
<1>7. CASE StopNotify
  BY <1>7 DEF StopNotify, intake, slots, counters, fates
<1>8. CASE Destroy
  BY <1>8 DEF Destroy, Lost, intake, counters, fates
<1>9. ASSUME NEW w \in Workers, Worker(w) PROVE TypeOK'
  BY <1>9 DEF Worker, LoopTest, Return, Block, intake, slots, counters, fates
<1>10. ASSUME NEW w \in Workers, SpuriousWakeup(w) PROVE TypeOK'
  BY <1>10 DEF SpuriousWakeup, intake, slots, counters, fates
<1>11. CASE TakePending
  BY <1>11 DEF TakePending, CanPrepare, intake, counters, fates
<1>12. CASE HandOver
  BY <1>12 DEF HandOver, intake, counters, fates
<1>13. CASE HandOverNotify
  BY <1>13 DEF HandOverNotify, intake, slots, counters, fates
<1>14. CASE PrepareFails
  BY <1>14 DEF PrepareFails, intake, counters, fates
<1>15. CASE TakePrepared
  BY <1>15 DEF TakePrepared, CanComplete, intake, counters, fates
<1>16. CASE TakeNotify
  BY <1>16 DEF TakeNotify, intake, slots, counters, fates
<1>17. CASE Publish
  BY <1>17 DEF Publish, intake, counters, fates
<1>18. CASE CompleteFails
  BY <1>18 DEF CompleteFails, intake, counters, fates
<1>19. CASE UNCHANGED vars
  BY <1>19 DEF vars, intake, slots, counters, fates
<1> QED
  BY <1>1, <1>2, <1>3, <1>4, <1>5, <1>6, <1>7, <1>8, <1>9, <1>10, <1>11, <1>12,
     <1>13, <1>14, <1>15, <1>16, <1>17, <1>18, <1>19
     DEF Next, Main, PrepareFrames, Run

\* The state keeps its shape, and a worker holds a frame exactly while it
\* processes one.
THEOREM TypeCorrect == Spec => []TypeOK
<1>1. QED
  BY InitTypeOK, NextTypeOK, PTL DEF Spec

------------------------------------------------------------------------------
(* Arrival order: what the stages hold and what was published, together. *)

Order == StageOrder /\ ResultsFaithful

\* Steps that move no frame and change no prompt snapshot.
Quiet ==
  \/ QueueNotify \/ RosShutdown \/ SpinReturns \/ BeginStop \/ StopNotify
  \/ HandOverNotify \/ TakeNotify \/ UNCHANGED vars
  \/ \E w \in Workers : Worker(w) \/ SpuriousWakeup(w)

LEMMA QuietFrame ==
  Quiet => UNCHANGED <<prompt, arrivals, promptFrom, updates, pending, prepared, held,
                       dropped, published, stale, failed, discarded>>
  BY DEF Quiet, QueueNotify, RosShutdown, SpinReturns, BeginStop, StopNotify,
         HandOverNotify, TakeNotify, Worker, LoopTest, Return, Block, SpuriousWakeup,
         vars, intake, slots, counters, fates

\* Every step is quiet or one of the nine that handle a frame or a prompt.
LEMMA Steps ==
  ASSUME [Next]_vars
  PROVE  \/ Quiet
         \/ \E p \in Prompts : OnPrompt(p)
         \/ QueueFrame \/ Destroy
         \/ TakePending \/ HandOver \/ PrepareFails
         \/ TakePrepared \/ Publish \/ CompleteFails
  BY DEF Next, Main, PrepareFrames, Run, Quiet

LEMMA InitOrder == Init => Order
  BY DEF Init, Order, StageOrder, ResultsFaithful, Before, Snapshot

\* ResultsFaithful as a statement about two sequences.
Faithful(results, prompts) ==
  \A i \in DOMAIN results :
    /\ results[i].id \in DOMAIN prompts
    /\ results[i].prompt = prompts[results[i].id]
    /\ \A j \in DOMAIN results : i < j => results[i].id < results[j].id

LEMMA FaithfulAppend ==
  ASSUME NEW results \in Seq(Frame), NEW prompts \in Seq(Prompts), NEW f \in Frame,
         Faithful(results, prompts),
         f.id \in DOMAIN prompts, f.prompt = prompts[f.id],
         \A i \in 1 .. Len(results) : results[i].id < f.id
  PROVE  Faithful(Append(results, f), prompts)
<1> DEFINE more == Append(results, f)
<1>1. /\ more \in Seq(Frame)
      /\ DOMAIN more = 1 .. Len(results) + 1
      /\ more[Len(results) + 1] = f
      /\ \A i \in 1 .. Len(results) : more[i] = results[i]
  OBVIOUS
<1>2. DOMAIN results = 1 .. Len(results) /\ Len(results) \in Nat
  OBVIOUS
<1> HIDE DEF more
<1>3. ASSUME NEW i \in DOMAIN more
      PROVE  more[i].id \in DOMAIN prompts /\ more[i].prompt = prompts[more[i].id]
  BY <1>1, <1>2 DEF Faithful
<1>4. ASSUME NEW i \in DOMAIN more, NEW j \in DOMAIN more, i < j
      PROVE  more[i].id < more[j].id
  <2>1. CASE j = Len(results) + 1
    <3>1. i \in 1 .. Len(results)
      BY <1>1, <1>2, <1>4, <2>1
    <3> QED
      BY <1>1, <2>1, <3>1
  <2>2. CASE j # Len(results) + 1
    <3>1. i \in 1 .. Len(results) /\ j \in 1 .. Len(results)
      BY <1>1, <1>2, <1>4, <2>2
    <3>2. results[i].id < results[j].id
      BY <1>2, <1>4, <3>1 DEF Faithful
    <3> QED
      BY <1>1, <3>1, <3>2
  <2> QED
    BY <2>1, <2>2
<1> QED
  BY <1>3, <1>4 DEF Faithful, more

LEMMA NextOrder == TypeOK /\ Order /\ [Next]_vars => Order'
<1> SUFFICES ASSUME TypeOK, Order, [Next]_vars PROVE Order'
  OBVIOUS
<1> USE NoneAssumption DEF TypeOK, Slot, Order, StageOrder, ResultsFaithful, Before, Snapshot, Frame
<1>1. ASSUME NEW p \in Prompts, OnPrompt(p) PROVE Order'
  BY <1>1 DEF OnPrompt, slots
<1>2. CASE QueueFrame
  <2>1. /\ pending' = [id |-> Len(arrivals) + 1, prompt |-> prompt]
        /\ arrivals' = Append(arrivals, prompt)
        /\ prompt \in Prompts
        /\ UNCHANGED <<prepared, held, published, promptFrom>>
    BY <1>2 DEF QueueFrame, NewFrame, fates
  <2>2. /\ Len(arrivals') = Len(arrivals) + 1
        /\ DOMAIN arrivals' = 1 .. Len(arrivals) + 1
        /\ arrivals'[Len(arrivals) + 1] = prompt
        /\ \A n \in 1 .. Len(arrivals) : arrivals'[n] = arrivals[n]
    BY <2>1
  <2>3. \A slot \in {prepared, held["prepare"], held["complete"]} :
          Occupied(slot) => slot.id \in 1 .. Len(arrivals)
    BY SMTT(60)
  <2>4. \A i \in DOMAIN published : published[i].id < Len(arrivals) + 1
    OBVIOUS
  <2>5. Snapshot(pending)' /\ Occupied(pending')
    BY <2>1, <2>2
  <2>6. \A slot \in {prepared, held["prepare"], held["complete"]} :
          Snapshot(slot)' /\ Before(slot, pending)'
    BY <2>1, <2>2, <2>3, SMTT(60)
  <2>7. ResultsFaithful'
    BY <2>1, <2>2, SMTT(60)
  <2>8. \A i \in DOMAIN published' : published'[i].id < pending'.id
    BY <2>1, <2>4
  <2>9. promptFrom' <= Len(arrivals') + 1
    BY <2>1, <2>2
  <2>10. StageOrder'
    BY <2>1, <2>5, <2>6, <2>8, <2>9, SMTT(60)
  <2> QED
    BY <2>7, <2>10
<1>3. CASE Destroy
  BY <1>3 DEF Destroy, intake
<1>4. CASE TakePending
  BY <1>4 DEF TakePending, CanPrepare, intake, fates
<1>5. CASE HandOver
  BY <1>5, SMTT(60) DEF HandOver, intake
<1>6. CASE PrepareFails
  BY <1>6 DEF PrepareFails, intake
<1>7. CASE TakePrepared
  BY <1>7 DEF TakePrepared, CanComplete, intake, fates
<1>8. CASE Publish
  <2> DEFINE frame == held["complete"]
  <2>1. /\ frame \in Frame
        /\ published' = Append(published, frame)
        /\ held' = [held EXCEPT !["complete"] = None]
        /\ UNCHANGED <<pending, prepared, arrivals, promptFrom>>
    BY <1>8 DEF Publish, intake, Holding
  <2>2. /\ DOMAIN published' = 1 .. Len(published) + 1
        /\ DOMAIN published = 1 .. Len(published) /\ Len(published) \in Nat
        /\ published'[Len(published) + 1] = frame
        /\ \A i \in 1 .. Len(published) : published'[i] = published[i]
    BY <2>1
  <2>3. /\ Occupied(frame)
        /\ frame.id \in DOMAIN arrivals /\ frame.prompt = arrivals[frame.id]
        /\ \A i \in 1 .. Len(published) : published[i].id < frame.id
        /\ \A slot \in {pending, prepared, held["prepare"]} : Before(frame, slot)
    BY <2>1, SMTT(60)
  <2>4. Faithful(published, arrivals)
    BY DEF Faithful
  <2>5. Faithful(published', arrivals')
    <3>1. published \in Seq(Frame) /\ arrivals \in Seq(Prompts)
      OBVIOUS
    <3> HIDE DEF TypeOK, Slot, Order, StageOrder, ResultsFaithful, Before, Snapshot, Frame,
                 frame
    <3>2. Faithful(Append(published, frame), arrivals)
      BY <2>1, <2>3, <2>4, <3>1, FaithfulAppend
    <3> QED
      BY <2>1, <3>2
  <2>6. ResultsFaithful'
    BY <2>5 DEF Faithful
  <2>7. \A i \in DOMAIN published' : \A slot \in {pending, prepared, held["prepare"]} :
          Occupied(slot) => published'[i].id < slot.id
    <3> SUFFICES ASSUME NEW i \in DOMAIN published',
                        NEW slot \in {pending, prepared, held["prepare"]}, Occupied(slot)
                 PROVE  published'[i].id < slot.id
      OBVIOUS
    <3>1. CASE i = Len(published) + 1
      BY <2>2, <2>3, <3>1
    <3>2. CASE i # Len(published) + 1
      <4>1. i \in DOMAIN published
        <5> HIDE DEF TypeOK, Order
        <5> QED
          BY <2>2, <3>2
      <4>2. published[i].id < slot.id
        BY <4>1
      <4> QED
        BY <2>2, <4>1, <4>2
    <3> QED
      BY <3>1, <3>2
  <2>8. StageOrder'
    BY <2>1, <2>7, SMTT(60)
  <2> QED
    BY <2>6, <2>8
<1>9. CASE CompleteFails
  BY <1>9 DEF CompleteFails, intake
<1>10. CASE Quiet
  BY <1>10, QuietFrame
<1> QED
  BY <1>1, <1>2, <1>3, <1>4, <1>5, <1>6, <1>7, <1>8, <1>9, <1>10, Steps

\* Results are published in arrival order, once each, with the prompt of their
\* arrival; the stages keep the order and never overwrite a prepared frame.
THEOREM OrderKept == Spec => [](StageOrder /\ ResultsFaithful)
<1>1. TypeOK /\ Order /\ [Next]_vars => TypeOK' /\ Order'
  BY NextTypeOK, NextOrder
<1>2. Order => StageOrder /\ ResultsFaithful
  BY DEF Order
<1> QED
  BY InitTypeOK, InitOrder, <1>1, <1>2, PTL DEF Spec

------------------------------------------------------------------------------
(* Wakeups. *)

LEMMA NextNoLostWakeup == TypeOK /\ NoLostWakeup /\ [Next]_vars => NoLostWakeup'
<1> SUFFICES ASSUME TypeOK, NoLostWakeup, [Next]_vars,
                    NEW w \in Workers, pc'[w] = "blocked", stopping' \/ HasWork(w)'
             PROVE  NotifyComing'
  BY DEF NoLostWakeup
<1> USE DEF TypeOK, NoLostWakeup, NotifyComing, HasWork, CanPrepare, CanComplete
\* The step of another thread keeps the notification it owes.
<1>1. ASSUME NEW p \in Prompts, OnPrompt(p) PROVE NotifyComing'
  BY <1>1 DEF OnPrompt, slots
<1>2. CASE QueueFrame
  BY <1>2 DEF QueueFrame
<1>3. CASE QueueNotify \/ StopNotify \/ HandOverNotify \/ TakeNotify
  BY <1>3 DEF QueueNotify, StopNotify, HandOverNotify, TakeNotify
<1>4. CASE RosShutdown \/ SpinReturns
  BY <1>4 DEF RosShutdown, SpinReturns, slots
<1>5. CASE BeginStop
  BY <1>5 DEF BeginStop
<1>6. CASE Destroy
  BY <1>6 DEF Destroy
<1>7. ASSUME NEW v \in Workers, Worker(v) \/ SpuriousWakeup(v) PROVE NotifyComing'
  BY <1>7 DEF Worker, LoopTest, Return, Block, SpuriousWakeup, slots
<1>8. CASE TakePending \/ PrepareFails
  BY <1>8 DEF TakePending, PrepareFails
<1>9. CASE HandOver
  BY <1>9 DEF HandOver
<1>10. CASE TakePrepared
  BY <1>10 DEF TakePrepared
<1>11. CASE Publish \/ CompleteFails
  BY <1>11 DEF Publish, CompleteFails
<1>12. CASE UNCHANGED vars
  BY <1>12 DEF vars
<1> QED
  BY <1>1, <1>2, <1>3, <1>4, <1>5, <1>6, <1>7, <1>8, <1>9, <1>10, <1>11, <1>12
     DEF Next, Main, PrepareFrames, Run

\* No worker sleeps through work or through the stop request.
THEOREM WakeupsNotLost == Spec => []NoLostWakeup
<1>1. Init => NoLostWakeup
  BY DEF Init, NoLostWakeup
<1>2. TypeOK /\ NoLostWakeup /\ [Next]_vars => TypeOK' /\ NoLostWakeup'
  BY NextTypeOK, NextNoLostWakeup
<1> QED
  BY InitTypeOK, <1>1, <1>2, PTL DEF Spec

------------------------------------------------------------------------------
(* Accounting. *)

\* The counters and the lengths are numbers.
LEMMA Numbers ==
  ASSUME TypeOK
  PROVE  /\ dropped \in Nat /\ unreported \in Nat /\ reported \in Nat
         /\ failed \in Nat /\ discarded \in Nat /\ stale \in Nat
         /\ Accepted \in Nat /\ Delivered \in Nat /\ promptFrom \in Nat
  BY DEF TypeOK, Accepted, Delivered

LEMMA InsideNumber == Inside \in Nat
  BY DEF Inside, Lost

\* Where the frames are after each step that handles one.
LEMMA NextFramesAccounted ==
  TypeOK /\ Order /\ FramesAccounted /\ [Next]_vars => FramesAccounted'
<1> SUFFICES ASSUME TypeOK, Order, FramesAccounted, [Next]_vars PROVE FramesAccounted'
  OBVIOUS
<1> DEFINE inPrepare == Lost(held["prepare"])
           inComplete == Lost(held["complete"])
<1>d. /\ Lost(pending) \in 0 .. 1 /\ Lost(prepared) \in 0 .. 1
      /\ inPrepare \in 0 .. 1 /\ inComplete \in 0 .. 1
  BY DEF Lost
<1>e. Inside = Lost(pending) + Lost(prepared) + inPrepare + inComplete
  BY DEF Inside
<1>f. Inside' = Lost(pending') + Lost(prepared') + inPrepare' + inComplete'
  BY DEF Inside
<1>g. TypeOK'
  BY NextTypeOK
<1>h. /\ dropped' \in Nat /\ unreported' \in Nat /\ reported' \in Nat
      /\ failed' \in Nat /\ discarded' \in Nat /\ Inside' \in Nat
      /\ Accepted' \in Nat /\ Delivered' \in Nat
  BY <1>g, SMTT(60) DEF TypeOK, Inside, Lost, Accepted, Delivered
<1>a. held \in [Workers -> Slot]
  BY DEF TypeOK
<1>b. \A w \in Workers : held[w] # None <=> Holding(w)
  BY DEF TypeOK
<1>c. Lost(None) = 0 /\ \A slot : slot # None => Lost(slot) = 1
  BY DEF Lost
<1>1. ASSUME NEW p \in Prompts, OnPrompt(p) PROVE FramesAccounted'
  BY <1>1 DEF OnPrompt, slots, counters, FramesAccounted, Inside, Accepted, Delivered
<1>2. CASE QueueFrame
  <2>1. NewFrame # None
    BY <1>2, NewFrameType, NoneAssumption DEF QueueFrame
  <2>2. /\ Accepted' = Accepted + 1
        /\ Lost(pending') = 1
        /\ UNCHANGED <<prepared, held, Delivered, failed, discarded>>
    BY <1>2, <1>c, <2>1 DEF QueueFrame, fates, TypeOK, Accepted, Delivered
  <2>3. CASE pending = None
    <3>1. UNCHANGED <<dropped, reported, unreported>> /\ Lost(pending) = 0
      BY <1>2, <1>c, <2>3 DEF QueueFrame, counters
    <3>2. Inside' = Inside + 1
      BY <1>d, <1>e, <1>f, <2>2, <3>1
    <3> QED
      BY <2>2, <3>1, <3>2, <1>h, Numbers, InsideNumber DEF FramesAccounted
  <2>4. CASE pending # None
    <3>1. CountDrop /\ Lost(pending) = 1
      BY <1>2, <1>c, <2>4 DEF QueueFrame
    <3>2. dropped' = dropped + 1
      BY <3>1 DEF CountDrop
    <3>3. reported' + unreported' = dropped'
      <4>1. dropped = reported + unreported
        BY DEF FramesAccounted
      <4>2. CASE unreported' = unreported + 1 /\ reported' = reported
        BY <3>2, <4>1, <4>2, Numbers
      <4>3. CASE reported' = reported + unreported + 1 /\ unreported' = 0
        BY <3>2, <4>1, <4>3, Numbers
      <4> QED
        BY <3>1, <4>2, <4>3 DEF CountDrop
    <3>4. Inside' = Inside
      BY <1>d, <1>e, <1>f, <2>2, <3>1
    <3>5. Accepted' = dropped' + Delivered' + failed' + discarded' + Inside'
      <4>1. Accepted = dropped + Delivered + failed + discarded + Inside
        BY DEF FramesAccounted
      <4>2. Delivered' = Delivered /\ failed' = failed /\ discarded' = discarded
        BY <2>2
      <4>3. Accepted' = Accepted + 1
        BY <2>2
      <4> QED
        BY <4>1, <4>2, <4>3, <3>2, <3>4, Numbers, InsideNumber
    <3> QED
      BY <3>3, <3>5 DEF FramesAccounted
  <2> QED
    BY <2>3, <2>4
<1>3. CASE BeginStop
  BY <1>3, Numbers DEF BeginStop, intake, slots, fates, FramesAccounted, Inside, Accepted, Delivered
<1>4. CASE Quiet /\ ~BeginStop
  BY <1>4 DEF Quiet, QueueNotify, RosShutdown, SpinReturns, StopNotify, HandOverNotify,
     TakeNotify, Worker, LoopTest, Return, Block, SpuriousWakeup, vars, intake, slots,
     counters, fates, FramesAccounted, Inside, Accepted, Delivered
<1>5. CASE Destroy
  <2>1. /\ discarded' = discarded + Lost(pending) + Lost(prepared)
        /\ Lost(pending') = 0 /\ Lost(prepared') = 0
        /\ UNCHANGED <<held, dropped, unreported, reported, Accepted, Delivered, failed>>
    BY <1>5, <1>c DEF Destroy, intake, counters, Accepted, Delivered
  <2>2. Inside' = Inside - Lost(pending) - Lost(prepared)
    BY <1>d, <1>e, <1>f, <2>1
  <2> QED
    <3>1. discarded' + Inside' = discarded + Inside
      BY <1>d, <1>h, <2>1, <2>2, Numbers, InsideNumber
    <3> QED
      BY <3>1, <2>1, <1>h, Numbers, InsideNumber DEF FramesAccounted
<1>6. CASE TakePending
  <2>1. /\ inPrepare = 0 /\ Lost(pending) = 1 /\ inPrepare' = 1 /\ Lost(pending') = 0
        /\ inComplete' = inComplete
        /\ UNCHANGED <<prepared, dropped, unreported, reported, Accepted, Delivered,
                       failed, discarded>>
    BY <1>6, <1>a, <1>b, <1>c DEF TakePending, CanPrepare, Holding, intake, counters, fates, Accepted, Delivered
  <2>2. Inside' = Inside
    BY <1>d, <1>e, <1>f, <2>1
  <2> QED
    BY <1>d, <2>1, <2>2, <1>h, Numbers, InsideNumber DEF FramesAccounted
<1>7. CASE HandOver
  <2>1. held["prepare"] # None /\ held'["prepare"] = None
    BY <1>7, <1>a, <1>b DEF HandOver, Holding
  <2>2. prepared = None
    BY <2>1 DEF Order, StageOrder
  <2>3. /\ inPrepare = 1 /\ inPrepare' = 0 /\ Lost(prepared) = 0
        /\ discarded' + Lost(prepared') = discarded + 1
        /\ inComplete' = inComplete
        /\ UNCHANGED <<pending, dropped, unreported, reported, Accepted, Delivered, failed>>
    BY <1>7, <1>a, <1>c, <2>1, <2>2, Numbers DEF HandOver, intake, counters, Accepted, Delivered
  <2>4. CASE prepared' = None
    <3>1. Inside' = Inside - 1 /\ discarded' = discarded + 1
      BY <1>c, <1>d, <1>e, <1>f, <1>h, <2>3, <2>4, Numbers
    <3> QED
      BY <2>3, <3>1, <1>h, Numbers, InsideNumber DEF FramesAccounted
  <2>5. CASE prepared' # None
    <3>1. Inside' = Inside /\ discarded' = discarded
      BY <1>c, <1>d, <1>e, <1>f, <1>h, <2>3, <2>5, Numbers
    <3> QED
      BY <2>3, <3>1, <1>h, Numbers, InsideNumber DEF FramesAccounted
  <2> QED
    BY <2>4, <2>5
<1>8. CASE PrepareFails
  <2>1. /\ inPrepare = 1 /\ inPrepare' = 0 /\ failed' = failed + 1
        /\ inComplete' = inComplete
        /\ UNCHANGED <<pending, prepared, dropped, unreported, reported, Accepted,
                       Delivered, discarded>>
    BY <1>8, <1>a, <1>b, <1>c DEF PrepareFails, Holding, intake, counters, Accepted, Delivered
  <2>2. Inside' = Inside - 1
    BY <1>d, <1>e, <1>f, <2>1
  <2> QED
    BY <1>d, <2>1, <2>2, <1>h, Numbers, InsideNumber DEF FramesAccounted
<1>9. CASE TakePrepared
  <2>1. /\ inComplete = 0 /\ Lost(prepared) = 1 /\ inComplete' = 1 /\ Lost(prepared') = 0
        /\ inPrepare' = inPrepare
        /\ UNCHANGED <<pending, dropped, unreported, reported, Accepted, Delivered,
                       failed, discarded>>
    BY <1>9, <1>a, <1>b, <1>c DEF TakePrepared, CanComplete, Holding, intake, counters, fates, Accepted, Delivered
  <2>2. Inside' = Inside
    BY <1>d, <1>e, <1>f, <2>1
  <2> QED
    BY <1>d, <2>1, <2>2, <1>h, Numbers, InsideNumber DEF FramesAccounted
<1>10. CASE Publish
  <2>1. held["complete"] # None /\ held["complete"] \in Frame
    BY <1>10, <1>a, <1>b DEF Publish, Holding, Slot
  <2>2. Delivered' = Delivered + 1
    BY <1>10, <2>1 DEF Publish, TypeOK, Delivered
  <2>3. /\ inComplete = 1 /\ inComplete' = 0
        /\ inPrepare' = inPrepare
        /\ UNCHANGED <<pending, prepared, dropped, unreported, reported, Accepted,
                       failed, discarded>>
    BY <1>10, <1>a, <1>c, <2>1 DEF Publish, intake, counters, Accepted, Delivered
  <2>4. Inside' = Inside - 1
    BY <1>d, <1>e, <1>f, <2>2, <2>3
  <2> QED
    BY <1>d, <2>2, <2>3, <2>4, <1>h, Numbers, InsideNumber DEF FramesAccounted
<1>11. CASE CompleteFails
  <2>1. /\ inComplete = 1 /\ inComplete' = 0 /\ failed' = failed + 1
        /\ inPrepare' = inPrepare
        /\ UNCHANGED <<pending, prepared, dropped, unreported, reported, Accepted,
                       Delivered, discarded>>
    BY <1>11, <1>a, <1>b, <1>c DEF CompleteFails, Holding, intake, counters, Accepted, Delivered
  <2>2. Inside' = Inside - 1
    BY <1>d, <1>e, <1>f, <2>1
  <2> QED
    BY <1>d, <2>1, <2>2, <1>h, Numbers, InsideNumber DEF FramesAccounted
<1> QED
  BY <1>1, <1>2, <1>3, <1>4, <1>5, <1>6, <1>7, <1>8, <1>9, <1>10, <1>11, Steps

\* No accepted frame vanishes uncounted or is counted twice.
THEOREM AccountingExact == Spec => []FramesAccounted
<1>1. Init => FramesAccounted
  BY DEF Init, FramesAccounted, Inside, Lost, Workers, Accepted, Delivered
<1>2. TypeOK /\ Order /\ FramesAccounted /\ [Next]_vars
        => TypeOK' /\ Order' /\ FramesAccounted'
  BY NextTypeOK, NextOrder, NextFramesAccounted
<1> QED
  BY InitTypeOK, InitOrder, <1>1, <1>2, PTL DEF Spec

------------------------------------------------------------------------------
(* Results for an older prompt. *)

LEMMA OutdatedNumber ==
  /\ Outdated(None) = 0
  /\ \A slot : Outdated(slot) \in {0, 1}
  BY DEF Outdated

LEMMA NextStaleBound ==
  TypeOK /\ Order /\ StaleBound /\ [Next]_vars => StaleBound'
<1> SUFFICES ASSUME TypeOK, Order, StaleBound, [Next]_vars PROVE StaleBound'
  OBVIOUS
<1> DEFINE inPrepare == Outdated(held["prepare"])
           inComplete == Outdated(held["complete"])
<1>a. held \in [Workers -> Slot]
  BY DEF TypeOK
<1>1. ASSUME NEW p \in Prompts, OnPrompt(p) PROVE StaleBound'
  <2>1. prepared = None \/ held["prepare"] = None
    BY DEF Order, StageOrder
  <2>2. stale' = 0 /\ UNCHANGED <<pending, prepared, held>>
    BY <1>1 DEF OnPrompt, slots
  <2>3. /\ Outdated(pending)' \in {0, 1} /\ Outdated(prepared)' \in {0, 1}
        /\ inPrepare' \in {0, 1} /\ inComplete' \in {0, 1}
        /\ Outdated(prepared)' = 0 \/ inPrepare' = 0
    BY <2>1, <2>2 DEF Outdated
  <2> QED
    BY <2>2, <2>3 DEF StaleBound
<1>2. CASE QueueFrame
  <2>1. pending' = [id |-> Len(arrivals) + 1, prompt |-> prompt]
    BY <1>2 DEF QueueFrame, NewFrame
  <2>2. promptFrom <= Len(arrivals) + 1
    BY DEF Order, StageOrder
  <2>3. UNCHANGED <<prepared, held, promptFrom, stale>>
    BY <1>2 DEF QueueFrame, fates
  <2>4. Outdated(pending)' = 0
    BY <2>1, <2>2, <2>3, Numbers DEF Outdated, Accepted
  <2>5. UNCHANGED <<Outdated(prepared), inPrepare, inComplete>>
    BY <2>3 DEF Outdated
  <2> QED
    BY <2>3, <2>4, <2>5, Numbers, OutdatedNumber DEF StaleBound
<1>3. CASE Quiet
  BY <1>3, QuietFrame DEF StaleBound, Outdated
<1>4. CASE Destroy
  <2>1. /\ Outdated(pending)' = 0 /\ Outdated(prepared)' = 0
        /\ UNCHANGED <<inPrepare, inComplete, stale>>
    BY <1>4 DEF Destroy, intake, Outdated
  <2> QED
    BY <2>1, Numbers, OutdatedNumber DEF StaleBound
<1>5. CASE TakePending
  <2>1. /\ inPrepare' = Outdated(pending) /\ Outdated(pending)' = 0
        /\ UNCHANGED <<Outdated(prepared), inComplete, stale>>
    BY <1>5, <1>a DEF TakePending, intake, fates, Outdated
  <2> QED
    BY <2>1, Numbers, OutdatedNumber DEF StaleBound
<1>6. CASE HandOver
  <2>1. held["prepare"] # None => Outdated(prepared) = 0
    BY DEF Order, StageOrder, Outdated
  <2>2. /\ inPrepare' = 0
        /\ Outdated(prepared)' = inPrepare \/ Outdated(prepared)' = Outdated(prepared)
        /\ UNCHANGED <<Outdated(pending), inComplete, stale>>
    BY <1>6, <1>a DEF HandOver, intake, Outdated
  <2> QED
    BY <2>1, <2>2, Numbers, OutdatedNumber DEF StaleBound
<1>7. CASE PrepareFails
  <2>1. /\ inPrepare' = 0
        /\ UNCHANGED <<Outdated(pending), Outdated(prepared), inComplete, stale>>
    BY <1>7, <1>a DEF PrepareFails, intake, Outdated
  <2> QED
    BY <2>1, Numbers, OutdatedNumber DEF StaleBound
<1>8. CASE TakePrepared
  <2>1. /\ inComplete' = Outdated(prepared) /\ Outdated(prepared)' = 0
        /\ UNCHANGED <<Outdated(pending), inPrepare, stale>>
    BY <1>8, <1>a DEF TakePrepared, intake, fates, Outdated
  <2> QED
    BY <2>1, Numbers, OutdatedNumber DEF StaleBound
<1>9. CASE Publish
  <2>1. held["complete"] # None
    BY <1>9 DEF Publish, Holding, TypeOK
  <2>2. stale' = stale + inComplete /\ inComplete' = 0
    BY <1>9, <1>a, <2>1, Numbers DEF Publish, Outdated
  <2>3. UNCHANGED <<Outdated(pending), Outdated(prepared), inPrepare>>
    BY <1>9, <1>a DEF Publish, intake, Outdated
  <2> QED
    BY <2>2, <2>3, Numbers, OutdatedNumber DEF StaleBound
<1>10. CASE CompleteFails
  <2>1. /\ inComplete' = 0
        /\ UNCHANGED <<Outdated(pending), Outdated(prepared), inPrepare, stale>>
    BY <1>10, <1>a DEF CompleteFails, intake, Outdated
  <2> QED
    BY <2>1, Numbers, OutdatedNumber DEF StaleBound
<1> QED
  BY <1>1, <1>2, <1>3, <1>4, <1>5, <1>6, <1>7, <1>8, <1>9, <1>10, Steps

\* After a prompt update at most three results still carry an older prompt.
THEOREM StaleBounded == Spec => []StaleBound
<1>1. Init => StaleBound
  BY DEF Init, StaleBound, Outdated
<1>2. TypeOK /\ Order /\ StaleBound /\ [Next]_vars => TypeOK' /\ Order' /\ StaleBound'
  BY NextTypeOK, NextOrder, NextStaleBound
<1> QED
  BY InitTypeOK, InitOrder, <1>1, <1>2, PTL DEF Spec

------------------------------------------------------------------------------
(* The line of FrameStream. *)

LEMMA ContentType == ASSUME NEW slot \in Slot PROVE Content(slot) \in Seq(Frame)
  BY DEF Content, Slot

LEMMA LineType ==
  ASSUME TypeOK
  PROVE  /\ Content(pending) \in Seq(Frame) /\ Content(prepared) \in Seq(Frame)
         /\ Content(held["prepare"]) \in Seq(Frame)
         /\ Content(held["complete"]) \in Seq(Frame)
  BY ContentType DEF TypeOK

\* The youngest frame of a line gives way to a new one.
LEMMA FrontAppend ==
  ASSUME NEW S, NEW a \in Seq(S), NEW x \in S
  PROVE  a \o <<x>> # <<>> /\ Stream!Front(a \o <<x>>) = a
<1> DEFINE b == a \o <<x>>
<1>1. b \in Seq(S) /\ Len(b) = Len(a) + 1 /\ \A i \in 1 .. Len(a) : b[i] = a[i]
  OBVIOUS
<1>2. b # <<>>
  BY <1>1
<1>3. SubSeq(b, 1, Len(a)) = a
  BY <1>1
<1>4. Len(b) - 1 = Len(a) /\ Len(a) \in Nat
  BY <1>1
<1> HIDE DEF b
<1>5. Stream!Front(b) = a
  BY <1>3, <1>4 DEF Stream!Front
<1> QED
  BY <1>2, <1>5 DEF b

\* One frame of a line disappears.
LEMMA RemoveMiddle ==
  ASSUME NEW S, NEW a \in Seq(S), NEW x \in S, NEW b \in Seq(S)
  PROVE  /\ Len(a) + 1 \in DOMAIN ((a \o <<x>>) \o b)
         /\ Stream!RemoveAt((a \o <<x>>) \o b, Len(a) + 1) = a \o b
<1> DEFINE s == (a \o <<x>>) \o b
           i == Len(a) + 1
<1>1. /\ s \in Seq(S) /\ Len(s) = Len(a) + 1 + Len(b)
      /\ \A k \in 1 .. Len(a) : s[k] = a[k]
      /\ \A k \in 1 .. Len(b) : s[Len(a) + 1 + k] = b[k]
  OBVIOUS
<1>2. Len(a) \in Nat /\ Len(b) \in Nat
  OBVIOUS
<1>3. i \in DOMAIN s
  BY <1>1, <1>2
<1>4. SubSeq(s, 1, i - 1) = a
  BY <1>1, <1>2
<1>5. SubSeq(s, i + 1, Len(s)) = b
  BY <1>1, <1>2
<1> HIDE DEF s, i
<1>6. Stream!RemoveAt(s, i) = a \o b
  BY <1>4, <1>5 DEF Stream!RemoveAt
<1> QED
  BY <1>3, <1>6 DEF s, i

LEMMA RemoveFirst ==
  ASSUME NEW S, NEW x \in S, NEW b \in Seq(S)
  PROVE  \E i \in DOMAIN (<<x>> \o b) : Stream!RemoveAt(<<x>> \o b, i) = b
<1> DEFINE s == <<x>> \o b
<1>1. s \in Seq(S) /\ Len(s) = 1 + Len(b) /\ Len(b) \in Nat
  OBVIOUS
<1>2. 1 \in DOMAIN s
  BY <1>1
<1>3. SubSeq(s, 1, 0) = <<>>
  BY <1>1
<1>4. SubSeq(s, 2, Len(s)) = b
  OBVIOUS
<1>5. <<>> \o b = b
  OBVIOUS
<1> HIDE DEF s
<1>6. Stream!RemoveAt(s, 1) = b
  BY <1>3, <1>4, <1>5 DEF Stream!RemoveAt
<1> QED
  BY <1>2, <1>6 DEF s

LEMMA EmptyContent == Content(None) = <<>> /\ \A f \in Frame : Content(f) = <<f>>
  BY NoneAssumption DEF Content

LEMMA AcceptRefines ==
  ASSUME TypeOK, Order, QueueFrame
  PROVE  Stream!Accept
<1> DEFINE older == (Content(held["complete"]) \o Content(prepared)) \o Content(held["prepare"])
<1>1. NewFrame \in Frame /\ prompt # NoPrompt /\ NewFrame = [id |-> Len(arrivals) + 1, prompt |-> prompt]
  BY NewFrameType DEF QueueFrame, NewFrame
<1>2. older \in Seq(Frame) /\ Len(older) <= 2
  <2>1. prepared # None => held["prepare"] = None
    BY DEF Order, StageOrder
  <2>2. /\ Len(Content(held["complete"])) \in 0 .. 1
        /\ Len(Content(prepared)) + Len(Content(held["prepare"])) \in 0 .. 1
    BY <2>1 DEF Content
  <2>3. ASSUME NEW a \in Seq(Frame), NEW b \in Seq(Frame), NEW c \in Seq(Frame),
               Len(a) \in 0 .. 1, Len(b) + Len(c) \in 0 .. 1
        PROVE  (a \o b) \o c \in Seq(Frame) /\ Len((a \o b) \o c) <= 2
    <3>1. /\ (a \o b) \o c \in Seq(Frame)
          /\ Len((a \o b) \o c) = (Len(a) + Len(b)) + Len(c)
      OBVIOUS
    <3>2. Len(a) \in Nat /\ Len(b) \in Nat /\ Len(c) \in Nat
      OBVIOUS
    <3>3. (Len(a) + Len(b)) + Len(c) <= 2
      BY <2>3, <3>2
    <3> QED
      BY <3>1, <3>3, Zenon
  <2> QED
    BY <2>2, <2>3, LineType
<1>3. Line = older \o Content(pending) /\ Line' = older \o <<NewFrame>>
  <2>1. pending' = NewFrame /\ UNCHANGED <<prepared, held>>
    BY DEF QueueFrame
  <2>2. Content(NewFrame) = <<NewFrame>>
    BY <1>1, EmptyContent
  <2> QED
    BY <2>1, <2>2 DEF Line, Content
<1>4. /\ Len(arrivals') = Len(arrivals) + 1
      /\ UNCHANGED <<prompt, published>>
  BY <1>1 DEF QueueFrame, fates, TypeOK
<1> HIDE DEF older
<1>5. \/ Line' = Append(Line, NewFrame)
      \/ Line # <<>> /\ Line' = Append(Stream!Front(Line), NewFrame)
  <2>1. CASE pending = None
    BY <1>1, <1>2, <1>3, <2>1, EmptyContent
  <2>2. CASE pending \in Frame
    <3>1. Line = older \o <<pending>>
      BY <1>3, <2>2, EmptyContent
    <3>2. Line # <<>> /\ Stream!Front(Line) = older
      BY <1>2, <2>2, <3>1, FrontAppend
    <3>3. Append(older, NewFrame) = older \o <<NewFrame>>
      BY <1>1, <1>2
    <3> QED
      BY <1>3, <3>2, <3>3
  <2> QED
    BY <2>1, <2>2 DEF TypeOK, Slot
<1>6. Len(Line') <= 3
  <2>1. Len(older \o <<NewFrame>>) = Len(older) + 1 /\ Len(older) \in Nat
    BY <1>1, <1>2
  <2> QED
    BY <1>2, <1>3, <2>1
<1> QED
  BY <1>1, <1>4, <1>5, <1>6 DEF Stream!Accept

\* A frame moves from one stage to the next.
LEMMA MoveKeepsLine ==
  ASSUME TypeOK, Order,
         TakePending \/ TakePrepared \/ (HandOver /\ ~stopping)
  PROVE  UNCHANGED <<Line, prompt, Len(arrivals), published>>
<1>1. UNCHANGED <<prompt, Len(arrivals), published>>
  BY DEF TakePending, TakePrepared, HandOver, intake, fates
<1>2. CASE TakePending
  <2>1. /\ Content(held["prepare"]) = <<>> /\ Content(held["prepare"])' = Content(pending)
        /\ Content(pending)' = <<>>
        /\ UNCHANGED <<Content(held["complete"]), Content(prepared)>>
    BY <1>2, EmptyContent DEF TakePending, TypeOK, Holding, Content
  <2> QED
    BY <1>1, <2>1, LineType DEF Line
<1>3. CASE TakePrepared
  <2>1. /\ Content(held["complete"]) = <<>> /\ Content(held["complete"])' = Content(prepared)
        /\ Content(prepared)' = <<>>
        /\ UNCHANGED <<Content(held["prepare"]), Content(pending)>>
    BY <1>3, EmptyContent DEF TakePrepared, TypeOK, Holding, Content
  <2> QED
    BY <1>1, <2>1, LineType DEF Line
<1>4. CASE HandOver /\ ~stopping
  <2>1. held["prepare"] # None /\ prepared = None
    BY <1>4 DEF HandOver, TypeOK, Holding, Order, StageOrder
  <2>2. /\ Content(prepared) = <<>> /\ Content(prepared)' = Content(held["prepare"])
        /\ Content(held["prepare"])' = <<>>
        /\ UNCHANGED <<Content(held["complete"]), Content(pending)>>
    BY <1>4, <2>1, EmptyContent DEF HandOver, TypeOK, Content
  <2> QED
    BY <1>1, <2>2, LineType DEF Line
<1> QED
  BY <1>2, <1>3, <1>4

\* The preparing worker drops its frame.
LEMMA PrepareLoses ==
  ASSUME TypeOK, Order, PrepareFails \/ (HandOver /\ stopping)
  PROVE  Stream!Lose
<1> DEFINE older == Content(held["complete"]) \o Content(prepared)
<1>1. held["prepare"] \in Frame
  BY DEF PrepareFails, HandOver, TypeOK, Holding, Slot
<1>2. /\ Content(held["prepare"]) = <<held["prepare"]>> /\ Content(held["prepare"])' = <<>>
      /\ UNCHANGED <<Content(held["complete"]), Content(prepared), Content(pending)>>
  BY <1>1, EmptyContent DEF PrepareFails, HandOver, TypeOK, Content
<1>3. older \in Seq(Frame) /\ Content(pending) \in Seq(Frame)
  BY LineType
<1>4. /\ Line = (older \o <<held["prepare"]>>) \o Content(pending)
      /\ Line' = older \o Content(pending)
  <2>1. older \o <<>> = older
    BY <1>3
  <2> QED
    BY <1>2, <2>1 DEF Line
<1> HIDE DEF older
<1>5. \E i \in DOMAIN Line : Line' = Stream!RemoveAt(Line, i)
  BY <1>1, <1>3, <1>4, RemoveMiddle
<1>6. UNCHANGED <<prompt, Len(arrivals), published>>
  BY DEF PrepareFails, HandOver, intake
<1> QED
  BY <1>5, <1>6 DEF Stream!Lose

\* The completing worker gives up the head of the line, with or without a result.
LEMMA HeadLeaves ==
  ASSUME TypeOK, Publish \/ CompleteFails
  PROVE  /\ held["complete"] \in Frame /\ Line # <<>>
         /\ Head(Line) = held["complete"] /\ Line' = Tail(Line)
         /\ \E i \in DOMAIN Line : Line' = Stream!RemoveAt(Line, i)
<1> DEFINE younger == (Content(prepared) \o Content(held["prepare"])) \o Content(pending)
<1>1. held["complete"] \in Frame
  BY DEF Publish, CompleteFails, TypeOK, Holding, Slot
<1>2. /\ Content(held["complete"]) = <<held["complete"]>> /\ Content(held["complete"])' = <<>>
      /\ UNCHANGED <<Content(prepared), Content(held["prepare"]), Content(pending)>>
  BY <1>1, EmptyContent DEF Publish, CompleteFails, TypeOK, Content
<1>3. younger \in Seq(Frame)
  BY LineType
<1>4. Line = <<held["complete"]>> \o younger /\ Line' = younger
  BY <1>1, <1>2, LineType DEF Line
<1> HIDE DEF younger
<1>5. Line # <<>> /\ Head(Line) = held["complete"] /\ Tail(Line) = younger
  BY <1>1, <1>3, <1>4
<1>6. \E i \in DOMAIN Line : Line' = Stream!RemoveAt(Line, i)
  <2>1. \E i \in DOMAIN (<<held["complete"]>> \o younger) :
           Stream!RemoveAt(<<held["complete"]>> \o younger, i) = younger
    BY <1>1, <1>3, RemoveFirst, Zenon
  <2> QED
    BY <1>4, <2>1, Zenon
<1> QED
  BY <1>1, <1>4, <1>5, <1>6

LEMMA StepRefines ==
  ASSUME TypeOK, Order, [Next]_vars
  PROVE  [Stream!Next]_(Stream!vars)
<1>1. CASE Quiet
  BY <1>1, QuietFrame DEF Line, Content, Stream!vars
<1>2. ASSUME NEW p \in Prompts, OnPrompt(p) PROVE Stream!SetPrompt
  BY <1>2 DEF OnPrompt, slots, Line, Content, Stream!SetPrompt
<1>3. CASE QueueFrame
  BY <1>3, AcceptRefines DEF Stream!Next
<1>4. CASE Destroy
  <2>1. Line' = <<>> /\ UNCHANGED <<prompt, Len(arrivals), published>>
    <3>1. held["prepare"] = None /\ held["complete"] = None
      BY <1>4 DEF Destroy, TypeOK, Holding
    <3> QED
      BY <1>4, <3>1, EmptyContent DEF Destroy, intake, Line, Content
  <2> QED
    BY <2>1 DEF Stream!Close, Stream!Next
<1>5. CASE TakePending \/ TakePrepared \/ (HandOver /\ ~stopping)
  BY <1>5, MoveKeepsLine DEF Stream!vars
<1>6. CASE PrepareFails \/ (HandOver /\ stopping)
  BY <1>6, PrepareLoses DEF Stream!Next
<1>7. CASE Publish
  <2>1. /\ published' = Append(published, held["complete"])
        /\ UNCHANGED <<prompt, Len(arrivals)>>
    BY <1>7 DEF Publish, intake
  <2> QED
    BY <1>7, <2>1, HeadLeaves DEF Stream!Publish, Stream!Next
<1>8. CASE CompleteFails
  <2>1. UNCHANGED <<prompt, Len(arrivals), published>>
    BY <1>8 DEF CompleteFails, intake
  <2> QED
    BY <1>8, <2>1, HeadLeaves DEF Stream!Lose, Stream!Next
<1> QED
  BY <1>1, <1>2, <1>3, <1>4, <1>5, <1>6, <1>7, <1>8, Steps DEF Stream!Next

LEMMA InitStream == Init => Stream!Init
  BY DEF Init, Stream!Init, Line, Content

\* For any number of frames and prompts, the callbacks, the two workers and the
\* destructor implement the lossy first-in first-out line of FrameStream
\* (locateanything_node.cpp:431, 477, 507).
THEOREM IsFrameStream == Spec => ImplementsFrameStream
<1>1. TypeOK /\ Order /\ [Next]_vars => [Stream!Next]_(Stream!vars)
  BY StepRefines
<1>2. TypeOK /\ Order /\ [Next]_vars => TypeOK' /\ Order'
  BY NextTypeOK, NextOrder
<1> QED
  BY InitTypeOK, InitOrder, InitStream, <1>1, <1>2, PTL
  DEF Spec, ImplementsFrameStream, Stream!Spec
==============================================================================
