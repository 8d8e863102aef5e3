---------------------------- MODULE Decoder_proofs ----------------------------
(* Proofs about the two sides of decoder.cpp: PbdRowExecutor, for any number of *)
(* callers, workers and calls, and RowDecision, for any vocabulary, scores,     *)
(* texts and weights.                                                           *)
EXTENDS PbdRowExecutor, RowDecision, SequenceTheorems, FiniteSetTheorems,
        WellFoundedInduction, TLAPS

------------------------------------------------------------------------------
(* PbdRowExecutor: the workers that decode the rows of a batch                  *)

LEMMA InitTypeOK == Init => TypeOK
<1> SUFFICES ASSUME Init PROVE TypeOK
  OBVIOUS
<1>1. stopping \in BOOLEAN
  BY DEF Init
<1> QED
  BY <1>1 DEF Init, TypeOK, Rows

\* The countdown is a natural number because it counts the owing workers.
LEMMA OwingFinite == IsFiniteSet(Owing) /\ Cardinality(Owing) \in Nat
<1>1. IsFiniteSet(Owing)
  BY WorkersAssumption, FS_Subset DEF Owing
<1> QED
  BY <1>1, FS_CardinalityType

LEMMA InitInv == Init => RowInv
<1> SUFFICES ASSUME Init PROVE RowInv
  OBVIOUS
<1>1. Owing = {}
  BY DEF Init, Owing
<1>2. CountdownExact
  BY <1>1, FS_EmptySet DEF Init, CountdownExact
<1>3. ~JobAlive
  BY DEF Init, JobAlive
<1>4. callLock \notin Callers
  BY CallersAssumption DEF Init
<1> QED
  BY <1>1, <1>2, <1>3, <1>4, InitTypeOK
     DEF Init, RowInv, NoLostWakeup, Decoding

\* The states a caller passes through while its job is published.
Published(c) == at[c] \in {"notify", "own", "await", "asleep"}

------------------------------------------------------------------------------
(* One lemma per group of steps. *)

LEMMA StepEnter ==
  ASSUME RowInv, NEW c \in Callers, Enter(c)
  PROVE  RowInv'
<1> USE DEF Enter, RowInv, TypeOK
<1>1. \A d \in Callers : at[d] = "idle"
  BY CallersAssumption
<1>2. ~JobAlive /\ ~JobAlive'
  BY <1>1 DEF JobAlive
<1>3. Owing' = Owing /\ CountdownExact'
  BY DEF Owing, CountdownExact
<1>4. TypeOK'
  OBVIOUS
<1>5. NoLostWakeup'
  BY <1>1 DEF NoLostWakeup
<1> QED
  BY <1>1, <1>2, <1>3, <1>4, <1>5 DEF Decoding

LEMMA StepDispatch ==
  ASSUME RowInv, NEW c \in Callers, Dispatch(c)
  PROVE  RowInv'
<1> USE DEF Dispatch, RowInv, TypeOK
<1>1. \A d \in Callers : d # c => at[d] = "idle"
  OBVIOUS
<1>2. ~JobAlive /\ JobAlive'
  BY <1>1 DEF JobAlive
<1>3. \A w \in Workers : observed[w] = generation /\ ~Decoding(w)
  BY <1>2 DEF Owing, Decoding
<1>4. Owing' = Workers
  BY <1>3 DEF Owing
<1>5. Cardinality(Workers) \in Nat
  BY WorkersAssumption, FS_CardinalityType
<1>6. CountdownExact'
  BY <1>4 DEF CountdownExact
<1>7. TypeOK'
  BY <1>5
<1>8. NoLostWakeup'
  <2>1. at'[c] = "notify"
    OBVIOUS
  <2>2. \A d \in Callers : at'[d] # "asleep"
    BY <1>1
  <2> QED
    BY <2>1, <2>2 DEF NoLostWakeup
<1>9. \A w \in Workers : ~Decoding(w)' /\ w \in Owing'
  BY <1>3, <1>4 DEF Decoding
<1> QED
  BY <1>1, <1>2, <1>3, <1>4, <1>6, <1>7, <1>8, <1>9 DEF Decoding

LEMMA StepNotifyReady ==
  ASSUME RowInv, NEW c \in Callers, NotifyReady(c)
  PROVE  RowInv'
<1> USE DEF NotifyReady, WakeWorkers, RowInv, TypeOK
<1>1. JobAlive /\ JobAlive'
  BY DEF JobAlive
<1>2. \A w \in Workers : Decoding(w)' <=> Decoding(w)
  BY DEF Decoding
<1>3. Owing' = Owing /\ CountdownExact'
  BY <1>2 DEF Owing, CountdownExact, Decoding
<1>4. TypeOK'
  OBVIOUS
<1>5. NoLostWakeup'
  BY DEF NoLostWakeup
<1> QED
  BY <1>1, <1>2, <1>3, <1>4, <1>5 DEF Decoding

LEMMA StepDecodeOwnRow ==
  ASSUME RowInv, NEW c \in Callers, DecodeOwnRow(c)
  PROVE  RowInv'
<1> USE DEF DecodeOwnRow, RowInv, TypeOK
<1>1. JobAlive /\ JobAlive'
  BY DEF JobAlive
<1>2. Owing' = Owing /\ CountdownExact'
  BY DEF Owing, CountdownExact
<1>3. TypeOK'
  BY DEF Rows
<1>4. NoLostWakeup'
  BY DEF NoLostWakeup
<1>5. \A w \in Workers : results'[w] = results[w]
  BY WorkersAssumption DEF Rows
<1>6. results'[Own] = generation
  BY DEF Rows
<1> QED
  BY <1>1, <1>2, <1>3, <1>4, <1>5, <1>6 DEF Decoding

LEMMA StepAwait ==
  ASSUME RowInv, NEW c \in Callers, AwaitBlocks(c) \/ AwaitReturns(c)
  PROVE  RowInv'
<1> USE DEF RowInv, TypeOK
<1>1. CASE AwaitBlocks(c)
  <2> USE <1>1 DEF AwaitBlocks
  <2>1. JobAlive /\ JobAlive'
    BY DEF JobAlive
  <2>2. Owing' = Owing /\ CountdownExact'
    BY DEF Owing, CountdownExact
  <2>3. TypeOK'
    OBVIOUS
  <2>4. NoLostWakeup'
    BY DEF NoLostWakeup
  <2> QED
    BY <2>1, <2>2, <2>3, <2>4 DEF Decoding
<1>2. CASE AwaitReturns(c)
  <2> USE <1>2 DEF AwaitReturns
  <2>1. Owing' = Owing /\ CountdownExact'
    BY DEF Owing, CountdownExact
  <2>2. Owing = {}
    BY OwingFinite, FS_EmptySet DEF CountdownExact
  <2>3. \A d \in Callers : d # c => at[d] = "idle"
    OBVIOUS
  <2>4. ~JobAlive'
    BY <2>3 DEF JobAlive
  <2>5. TypeOK'
    OBVIOUS
  <2>6. \A w \in Workers : observed[w] = generation
    BY <2>2 DEF Owing
  <2>7. NoLostWakeup'
    BY <2>3, <2>6 DEF NoLostWakeup
  <2> QED
    BY <2>1, <2>2, <2>3, <2>4, <2>5, <2>7 DEF Decoding
<1> QED
  BY <1>1, <1>2

LEMMA StepLeave ==
  ASSUME RowInv, NEW c \in Callers, Leave(c)
  PROVE  RowInv'
<1> USE DEF Leave, RowInv, TypeOK
<1>1. \A d \in Callers : d # c => at[d] = "idle"
  OBVIOUS
<1>2. ~JobAlive /\ ~JobAlive'
  BY <1>1 DEF JobAlive
<1>3. Owing' = Owing /\ CountdownExact'
  BY DEF Owing, CountdownExact
<1>4. TypeOK'
  OBVIOUS
<1>5. NoLostWakeup'
  BY <1>1 DEF NoLostWakeup
<1>6. \A d \in Callers : at'[d] # "idle" <=> callLock' = d
  BY <1>1, CallersAssumption
<1> QED
  BY <1>1, <1>2, <1>3, <1>4, <1>5, <1>6 DEF Decoding

\* A worker that leaves or falls asleep owes nothing.
LEMMA StepWorkerWaits ==
  ASSUME RowInv, NEW w \in Workers, WorkerExits(w) \/ WorkerBlocks(w)
  PROVE  RowInv'
<1> USE DEF WorkerExits, WorkerBlocks, RowInv, TypeOK
<1>1. \A v \in Workers : Decoding(v)' <=> Decoding(v)
  BY DEF Decoding
<1>2. Owing' = Owing /\ CountdownExact' /\ JobAlive' = JobAlive
  BY <1>1 DEF Owing, CountdownExact, Decoding, JobAlive
<1>3. TypeOK'
  OBVIOUS
<1>4. NoLostWakeup'
  BY DEF NoLostWakeup
<1> QED
  BY <1>1, <1>2, <1>3, <1>4 DEF Decoding

LEMMA StepTakeJob ==
  ASSUME RowInv, NEW w \in Workers, TakeJob(w)
  PROVE  RowInv'
<1> USE DEF TakeJob, RowInv, TypeOK
<1>1. w \in Owing
  BY DEF Owing
<1>2. JobAlive /\ JobAlive'
  BY <1>1 DEF JobAlive
<1>3. \A v \in Workers : v # w => (Decoding(v)' <=> Decoding(v))
  BY DEF Decoding
<1>4. Decoding(w)' /\ pw'[w] = "decode"
  BY DEF Decoding
<1>5. Owing' = Owing
  BY <1>1, <1>3, <1>4 DEF Owing, Decoding
<1>6. CountdownExact'
  BY <1>5 DEF CountdownExact
<1>7. TypeOK'
  OBVIOUS
<1>8. NoLostWakeup'
  BY DEF NoLostWakeup
<1>9. held'[w] = generation /\ observed'[w] = generation
  BY <1>2
<1> QED
  BY <1>1, <1>2, <1>3, <1>4, <1>5, <1>6, <1>7, <1>8, <1>9 DEF Decoding

LEMMA StepDecodeRow ==
  ASSUME RowInv, NEW w \in Workers, DecodeRow(w)
  PROVE  RowInv'
<1> USE DEF DecodeRow, RowInv, TypeOK
<1>1. Decoding(w) /\ held[w] = generation
  BY DEF Decoding
<1>2. \A v \in Workers : Decoding(v)' <=> Decoding(v)
  BY DEF Decoding
<1>3. Owing' = Owing /\ CountdownExact' /\ JobAlive' = JobAlive
  BY <1>2 DEF Owing, CountdownExact, Decoding, JobAlive
<1>4. TypeOK'
  BY DEF Rows
<1>5. NoLostWakeup'
  BY DEF NoLostWakeup
<1>6. results'[w] = generation /\ \A r \in Rows : r # w => results'[r] = results[r]
  BY <1>1 DEF Rows
<1>7. results'[Own] = results[Own] /\ \A v \in Workers : v # w => results'[v] = results[v]
  BY <1>6, WorkersAssumption DEF Rows
<1> QED
  BY <1>1, <1>2, <1>3, <1>4, <1>5, <1>6, <1>7 DEF Decoding

LEMMA StepFinishRow ==
  ASSUME RowInv, NEW w \in Workers, FinishRow(w)
  PROVE  RowInv'
<1> USE DEF FinishRow, WakeCaller, RowInv, TypeOK
<1>1. w \in Owing /\ Decoding(w) /\ ~Decoding(w)' /\ observed[w] = generation
  BY DEF Owing, Decoding
<1>2. \A v \in Workers : v # w => (Decoding(v)' <=> Decoding(v))
  BY DEF Decoding
<1>3. Owing' = Owing \ {w}
  BY <1>1, <1>2 DEF Owing, Decoding
<1>4. Cardinality(Owing') = Cardinality(Owing) - 1
  BY <1>1, <1>3, OwingFinite, FS_RemoveElement
<1>5. CountdownExact'
  BY <1>4 DEF CountdownExact
<1>6. pendingWorkers' \in Nat
  BY <1>1, OwingFinite, FS_EmptySet DEF CountdownExact
<1>7. TypeOK'
  BY <1>6
<1>8. JobAlive /\ JobAlive'
  BY <1>1 DEF JobAlive
<1>9. \A d \in Callers :
        /\ at'[d] = "idle" <=> at[d] = "idle"
        /\ at'[d] \in {"await", "asleep", "return"} => at[d] \in {"await", "asleep", "return"}
        /\ at'[d] = "dispatch" <=> at[d] = "dispatch"
        /\ at'[d] = "notify" <=> at[d] = "notify"
        /\ at'[d] = "asleep" => at[d] = "asleep" /\ pendingWorkers' # 0
  OBVIOUS
<1>10. NoLostWakeup'
  BY <1>1, <1>9 DEF NoLostWakeup
<1>11. results'[w] = generation
  <2>1. PICK c \in Callers : at[c] \in {"notify", "own", "await", "asleep"}
    BY <1>8 DEF JobAlive
  <2>2. generation # 0
    BY <2>1
  <2> QED
    BY <1>1, <2>2
<1>12. job' = IF JobAlive' THEN generation' ELSE 0
  BY <1>8
<1>13. \A v \in Workers : Decoding(v)' => held'[v] = generation' /\ observed'[v] = generation'
  BY <1>1, <1>2
<1>14. \A v \in Workers : generation' # 0 /\ (v \notin Owing' \/ pw'[v] = "finish")
         => results'[v] = generation'
  BY <1>1, <1>3, <1>11
<1> QED
  BY <1>5, <1>7, <1>8, <1>9, <1>10, <1>12, <1>13, <1>14

LEMMA StepSpurious ==
  ASSUME RowInv, SpuriousWakeup,
         UNCHANGED <<callLock, generation, pendingWorkers, job, stopping, observed, held,
                     results, dtor>>
  PROVE  RowInv'
<1> USE DEF SpuriousWakeup, RowInv, TypeOK
<1>1. \A v \in Workers : Decoding(v)' <=> Decoding(v)
  BY DEF Decoding
<1>2. \A d \in Callers :
        /\ at'[d] = "idle" <=> at[d] = "idle"
        /\ at'[d] \in {"await", "asleep", "return"} <=> at[d] \in {"await", "asleep", "return"}
        /\ at'[d] = "dispatch" <=> at[d] = "dispatch"
        /\ at'[d] = "notify" <=> at[d] = "notify"
        /\ at'[d] = "own" <=> at[d] = "own"
        /\ at'[d] = "return" <=> at[d] = "return"
        /\ at'[d] = "asleep" => at[d] = "asleep"
  OBVIOUS
<1>3. \A v \in Workers : /\ pw'[v] = "asleep" => pw[v] = "asleep"
                         /\ pw'[v] = "finish" <=> pw[v] = "finish"
                         /\ pw'[v] = "exited" <=> pw[v] = "exited"
  OBVIOUS
<1>4. JobAlive' = JobAlive
  <2>1. \A d \in Callers : Published(d)' <=> Published(d)
    BY DEF Published
  <2> QED
    BY <2>1 DEF JobAlive, Published
<1>5. Owing' = Owing /\ CountdownExact'
  BY <1>1 DEF Owing, CountdownExact, Decoding
<1>6. TypeOK'
  OBVIOUS
<1>7. NoLostWakeup'
  BY <1>2, <1>3 DEF NoLostWakeup
<1>8. \A v \in Workers : Decoding(v)' => held'[v] = generation' /\ observed'[v] = generation'
  BY <1>1
<1>9. \A v \in Workers : generation' # 0 /\ (v \notin Owing' \/ pw'[v] = "finish")
         => results'[v] = generation'
  BY <1>3, <1>5
<1> QED
  BY <1>2, <1>3, <1>4, <1>5, <1>6, <1>7, <1>8, <1>9

LEMMA StepDestructor ==
  ASSUME RowInv, Destructor
  PROVE  RowInv'
<1> USE DEF RowInv, TypeOK
<1>1. CASE BeginStop
  <2> USE <1>1 DEF BeginStop
  <2>1. Owing' = Owing /\ CountdownExact' /\ JobAlive' = JobAlive
    BY DEF Owing, CountdownExact, JobAlive
  <2>2. TypeOK' /\ NoLostWakeup'
    BY DEF NoLostWakeup
  <2> QED
    BY <2>1, <2>2 DEF Decoding
<1>2. CASE NotifyStop
  <2> USE <1>2 DEF NotifyStop, WakeWorkers
  <2>1. \A v \in Workers : Decoding(v)' <=> Decoding(v)
    BY DEF Decoding
  <2>2. Owing' = Owing /\ CountdownExact' /\ JobAlive' = JobAlive
    BY <2>1 DEF Owing, CountdownExact, Decoding, JobAlive
  <2>3. TypeOK' /\ NoLostWakeup'
    BY DEF NoLostWakeup
  <2> QED
    BY <2>1, <2>2, <2>3 DEF Decoding
<1>3. CASE Joined
  <2> USE <1>3 DEF Joined
  <2>1. Owing' = Owing /\ CountdownExact' /\ JobAlive' = JobAlive
    BY DEF Owing, CountdownExact, JobAlive
  <2>2. TypeOK' /\ NoLostWakeup'
    BY DEF NoLostWakeup
  <2> QED
    BY <2>1, <2>2 DEF Decoding
<1> QED
  BY <1>1, <1>2, <1>3 DEF Destructor

LEMMA NextInv == RowInv /\ [Next]_vars => RowInv'
<1> SUFFICES ASSUME RowInv, [Next]_vars PROVE RowInv'
  OBVIOUS
<1>1. ASSUME NEW c \in Callers, Enter(c) \/ Decode(c) PROVE RowInv'
  BY <1>1, StepEnter, StepDispatch, StepNotifyReady, StepDecodeOwnRow, StepAwait, StepLeave
     DEF Decode
<1>2. ASSUME NEW w \in Workers, Worker(w) PROVE RowInv'
  BY <1>2, StepWorkerWaits, StepTakeJob, StepDecodeRow, StepFinishRow DEF Worker
<1>3. CASE Destructor
  BY <1>3, StepDestructor
<1>4. CASE UNCHANGED vars
  BY <1>4 DEF vars, RowInv, TypeOK, JobAlive, Owing, CountdownExact, Decoding, NoLostWakeup
<1> QED
  BY <1>1, <1>2, <1>3, <1>4, StepSpurious DEF Next

------------------------------------------------------------------------------
\* Callers, workers and the destructor keep the inductive invariant
\* (decoder.cpp:349, 375, 404).
THEOREM Invariance == Spec => []RowInv
BY InitInv, NextInv, PTL DEF Spec

\* The state keeps its shape.
THEOREM TypeCorrect == Spec => []TypeOK
<1>1. RowInv => TypeOK
  BY DEF RowInv
<1> QED
  BY <1>1, Invariance, PTL

\* No worker uses pointers of a call that has returned.
THEOREM PointersAlive == Spec => []NoDanglingJob
<1>1. RowInv => NoDanglingJob
  <2> SUFFICES ASSUME RowInv, NEW w \in Workers, Decoding(w)
               PROVE  JobAlive /\ held[w] = generation /\ job = generation
    BY DEF NoDanglingJob, Decoding
  <2>1. w \in Owing
    BY DEF Owing, Decoding
  <2> QED
    BY <2>1 DEF RowInv
<1> QED
  BY <1>1, Invariance, PTL

\* Decode never returns with a missing or a left-over row.
THEOREM ReturnsComplete == Spec => []AllRowsOnReturn
<1>1. RowInv => AllRowsOnReturn
  <2> SUFFICES ASSUME RowInv, NEW c \in Callers, at[c] = "return", NEW r \in Rows
               PROVE  results[r] = generation
    BY DEF AllRowsOnReturn
  <2>1. \A d \in Callers : d # c => at[d] = "idle"
    BY DEF RowInv
  <2>2. ~JobAlive
    BY <2>1 DEF JobAlive
  <2>3. Owing = {} /\ generation # 0
    BY <2>2 DEF RowInv
  <2> QED
    BY <2>3 DEF RowInv, Rows
<1> QED
  BY <1>1, Invariance, PTL

\* pending_workers_ is the number of rows still owed, for any number of workers
\* (decoder.cpp:438).
THEOREM CountdownCorrect == Spec => []CountdownExact
<1>1. RowInv => CountdownExact
  BY DEF RowInv
<1> QED
  BY <1>1, Invariance, PTL

\* No worker sleeps through a job or the stop request, and no caller sleeps with
\* nothing left to wait for (decoder.cpp:379, 391, 414, 440).
THEOREM WakeupsNotLost == Spec => []NoLostWakeup
<1>1. RowInv => NoLostWakeup
  BY DEF RowInv
<1> QED
  BY <1>1, Invariance, PTL

\* Every worker serves every call, in turn.
THEOREM CallsInTurn == Spec => NoCallSkipped
<1>1. RowInv /\ [Next]_vars =>
        [\A w \in Workers : observed'[w] \in {observed[w], observed[w] + 1}]_vars
  <2> SUFFICES ASSUME RowInv, Next, NEW v \in Workers
               PROVE  observed'[v] \in {observed[v], observed[v] + 1}
    BY DEF vars
  <2>1. ASSUME NEW w \in Workers, TakeJob(w)
        PROVE  observed'[v] \in {observed[v], observed[v] + 1}
    BY <2>1 DEF TakeJob, RowInv, TypeOK
  <2>2. ASSUME observed' = observed
        PROVE  observed'[v] \in {observed[v], observed[v] + 1}
    BY <2>2
  <2> QED
    BY <2>1, <2>2 DEF Next, Enter, Decode, Dispatch, NotifyReady, DecodeOwnRow,
       AwaitBlocks, AwaitReturns, Leave, Worker, WorkerExits, WorkerBlocks, DecodeRow,
       FinishRow, Destructor, BeginStop, NotifyStop, Joined
<1> QED
  BY <1>1, Invariance, PTL DEF Spec, NoCallSkipped
------------------------------------------------------------------------------
(* The executor serves batches of rows. *)

\* When a call is about to return, no row of its array is unset.
LEMMA AllSetOnReturn ==
  ASSUME RowInv, NEW c \in Callers, at[c] = "return"
  PROVE  Unset = {}
<1>1. \A d \in Callers : d # c => at[d] = "idle"
  BY DEF RowInv
<1>2. ~JobAlive
  BY <1>1 DEF JobAlive
<1>3. Owing = {} /\ generation # 0
  BY <1>2 DEF RowInv
<1>4. \A r \in Rows : results[r] = generation
  BY <1>3 DEF RowInv, Rows
<1> QED
  BY <1>4 DEF Unset

\* The caller inside Decode is served from its dispatch to its return.
LEMMA ServedCaller ==
  ASSUME RowInv, NEW c \in Callers, at[c] # "idle"
  PROVE  callLock = c /\ Served = IF at[c] = "dispatch" THEN Nobody ELSE c
BY CallersAssumption DEF RowInv, Served

\* A step that moves nobody in or out of Decode serves the same caller.
LEMMA ServedUnchanged ==
  ASSUME RowInv, UNCHANGED callLock,
         \A c \in Callers : (at'[c] = "dispatch") <=> (at[c] = "dispatch")
  PROVE  UNCHANGED Served
BY DEF RowInv, TypeOK, Served

\* Writing one row of the current call pays for it, or has been paid for already.
LEMMA WriteRow ==
  ASSUME RowInv, NEW r \in Rows, results' = [results EXCEPT ![r] = generation],
         UNCHANGED <<generation, Served>>, Served # Nobody
  PROVE  Batch!Row(r) \/ UNCHANGED <<Served, Unset>>
<1>1. \A q \in Rows : results'[q] = IF q = r THEN generation ELSE results[q]
  BY DEF RowInv, TypeOK
<1>2. Unset' = Unset \ {r}
  BY <1>1 DEF Unset
<1> QED
  BY <1>2 DEF Batch!Row

LEMMA CallerServesBatch ==
  ASSUME RowInv, NEW c \in Callers, Enter(c) \/ Decode(c)
  PROVE  Batch!Next \/ UNCHANGED <<Served, Unset>>
<1> USE DEF RowInv, TypeOK
<1>0. c # Nobody
  BY CallersAssumption
<1>1. CASE Enter(c)
  <2>1. Served = Nobody /\ Served' = Nobody
    BY <1>1 DEF Enter, Served
  <2>2. Unset' = Unset
    BY <1>1 DEF Enter, Unset
  <2> QED
    BY <2>1, <2>2
<1>2. CASE Dispatch(c)
  <2>1. callLock = c /\ Served = Nobody
    BY <1>2, ServedCaller DEF Dispatch
  <2>2. Served' = c
    BY <1>0, <1>2, <2>1 DEF Dispatch, Served
  <2>3. \A r \in Rows : results'[r] # generation'
    BY <1>2 DEF Dispatch
  <2>4. Unset' = Rows
    BY <2>3 DEF Unset
  <2> QED
    BY <2>1, <2>2, <2>4 DEF Batch!Next, Batch!Begin
<1>3. CASE DecodeOwnRow(c)
  <2>1. Served = c
    BY <1>3, ServedCaller DEF DecodeOwnRow
  <2>2. Served' = Served
    <3>1. callLock' = callLock /\ \A d \in Callers : (at'[d] = "dispatch") <=> (at[d] = "dispatch")
      BY <1>3 DEF DecodeOwnRow
    <3> QED
      BY <3>1, ServedUnchanged
  <2>3. Own \in Rows
    BY DEF Rows
  <2> QED
    BY <1>0, <1>3, <2>1, <2>2, <2>3, WriteRow DEF DecodeOwnRow, Batch!Next
<1>4. CASE NotifyReady(c) \/ AwaitBlocks(c) \/ AwaitReturns(c)
  <2>1. Served' = Served
    <3>1. callLock' = callLock /\ \A d \in Callers : (at'[d] = "dispatch") <=> (at[d] = "dispatch")
      BY <1>4 DEF NotifyReady, AwaitBlocks, AwaitReturns
    <3> QED
      BY <3>1, ServedUnchanged
  <2>2. Unset' = Unset
    BY <1>4 DEF NotifyReady, AwaitBlocks, AwaitReturns, Unset
  <2> QED
    BY <2>1, <2>2
<1>5. CASE Leave(c)
  <2>1. Served = c /\ Unset = {}
    BY <1>5, ServedCaller, AllSetOnReturn DEF Leave
  <2>2. Served' = Nobody /\ Unset' = Unset
    BY <1>5 DEF Leave, Served, Unset
  <2> QED
    BY <1>0, <2>1, <2>2 DEF Batch!Next, Batch!Return
<1> QED
  BY <1>1, <1>2, <1>3, <1>4, <1>5 DEF Decode

LEMMA WorkerServesBatch ==
  ASSUME RowInv, NEW w \in Workers, Worker(w)
  PROVE  Batch!Next \/ UNCHANGED <<Served, Unset>>
<1> USE DEF RowInv, TypeOK
<1>1. CASE DecodeRow(w)
  <2>1. Decoding(w) /\ held[w] = generation /\ w \in Owing
    BY <1>1 DEF DecodeRow, Decoding, Owing
  <2>2. PICK c \in Callers : at[c] \in {"notify", "own", "await", "asleep"}
    BY <2>1 DEF JobAlive
  <2>3. Served = c /\ c # Nobody
    BY <2>2, ServedCaller, CallersAssumption
  <2>4. Served' = Served
    BY <1>1 DEF DecodeRow, Served
  <2>5. w \in Rows /\ results' = [results EXCEPT ![w] = generation]
    BY <1>1, <2>1 DEF DecodeRow, Rows
  <2> QED
    BY <1>1, <2>3, <2>4, <2>5, WriteRow DEF DecodeRow, Batch!Next
<1>2. CASE FinishRow(w)
  <2>1. Served' = Served
    <3>1. callLock' = callLock /\ \A d \in Callers : (at'[d] = "dispatch") <=> (at[d] = "dispatch")
      BY <1>2 DEF FinishRow, WakeCaller
    <3> QED
      BY <3>1, ServedUnchanged
  <2> QED
    BY <1>2, <2>1 DEF FinishRow, Unset
<1>3. CASE WorkerExits(w) \/ WorkerBlocks(w) \/ TakeJob(w)
  BY <1>3 DEF WorkerExits, WorkerBlocks, TakeJob, Served, Unset
<1> QED
  BY <1>1, <1>2, <1>3 DEF Worker

\* Workers, countdown and condition variables implement RowBatch: one call at a
\* time is owed every row of its own window and returns when it has them all
\* (decoder.cpp:371).
THEOREM ServesBatches == Spec => ImplementsRowBatch
<1>1. Init => Batch!Init
  BY CallersAssumption DEF Init, Batch!Init, Served, Unset
<1>2. RowInv /\ [Next]_vars => [Batch!Next]_(Batch!vars)
  <2> SUFFICES ASSUME RowInv, [Next]_vars
               PROVE  Batch!Next \/ UNCHANGED <<Served, Unset>>
    BY DEF Batch!vars
  <2>1. CASE Destructor
    BY <2>1 DEF Destructor, BeginStop, NotifyStop, Joined, Served, Unset
  <2>2. ASSUME SpuriousWakeup,
               UNCHANGED <<callLock, generation, pendingWorkers, job, stopping, observed,
                           held, results, dtor>>
        PROVE  UNCHANGED <<Served, Unset>>
    <3>1. Served' = Served
      <4>1. callLock' = callLock /\ \A d \in Callers : (at'[d] = "dispatch") <=> (at[d] = "dispatch")
        BY <2>2 DEF SpuriousWakeup, RowInv, TypeOK
      <4> QED
        BY <4>1, ServedUnchanged
    <3> QED
      BY <2>2, <3>1 DEF Unset
  <2>3. CASE UNCHANGED vars
    BY <2>3 DEF vars, Served, Unset
  <2> QED
    BY <2>1, <2>2, <2>3, CallerServesBatch, WorkerServesBatch DEF Next
<1> QED
  BY <1>1, <1>2, Invariance, PTL DEF Spec, ImplementsRowBatch, Batch!Spec

------------------------------------------------------------------------------
(* RowDecision: how a row of scores becomes a token                             *)

\* A non-empty set of natural numbers has a least element.
LEMMA LeastNumber ==
  ASSUME NEW S, S \subseteq Nat, S # {}
  PROVE  \E i \in S : \A j \in S : i <= j
<1>1. PICK i \in S : \A j \in S : ~ (<<j, i>> \in OpToRel(<, Nat))
  BY NatLessThanWellFounded, WFMin, Zenon
<1>2. ASSUME NEW j \in S  PROVE i <= j
  <2>1. i \in Nat /\ j \in Nat
    OBVIOUS
  <2>2. ~ (j < i)
    BY <1>1, <2>1, Zenon DEF OpToRel
  <2> QED
    BY <2>1, <2>2
<1> QED
  BY <1>2

\* The greatest element of a non-empty part of 1 .. n.
LEMMA GreatestIndex ==
  ASSUME NEW n \in Nat, NEW S, S \subseteq 1 .. n, S # {}
  PROVE  Max(S) \in S /\ \A i \in S : i <= Max(S)
<1> DEFINE T == {n - i : i \in S}
<1>1. PICK d \in T : \A e \in T : d <= e
  <2>1. \A i \in S : n - i \in Nat
    OBVIOUS
  <2>2. T \subseteq Nat /\ T # {}
    BY <2>1
  <2> HIDE DEF T
  <2> QED
    BY <2>2, LeastNumber
<1>2. PICK i \in S : d = n - i
  BY <1>1
<1>3. \A j \in S : i >= j
  <2> SUFFICES ASSUME NEW j \in S  PROVE i >= j
    OBVIOUS
  <2>1. n - i <= n - j
    BY <1>1, <1>2
  <2> QED
    BY <2>1
<1>4. Max(S) \in S /\ \A j \in S : Max(S) >= j
  BY <1>3 DEF Max
<1> QED
  BY <1>4

------------------------------------------------------------------------------
(* Comparisons and weights *)

LEMMA TokensNatural == Tokens \subseteq Nat /\ 0 \in Tokens /\ VocabSize \in Nat \ {0}
BY DecisionAssumption DEF Tokens

\* Numbers are totally ordered by score and then by index.
LEMMA BetterOrders ==
  ASSUME NEW f \in [Tokens -> Score]
  PROVE  /\ \A t, u \in Numbers(f) : t = u \/ Better(f, t, u) \/ Better(f, u, t)
         /\ \A t, u, v \in Tokens : Better(f, t, u) /\ Better(f, u, v) => Better(f, t, v)
         /\ \A t, u \in Tokens : Better(f, t, u) =>
              /\ t # u /\ ~Better(f, u, t)
              /\ f[t] \in Int /\ f[u] \in Int /\ f[u] <= f[t]
BY TokensNatural, DecisionAssumption DEF Numbers, Better, Greater, Score

\* Numbers among the tokens have a first one.
LEMMA FirstIsBest ==
  ASSUME NEW f \in [Tokens -> Score], NEW S \in SUBSET Numbers(f), S # {}
  PROVE  First(f, S) \in S /\ \A u \in S : u = First(f, S) \/ Better(f, First(f, S), u)
<1> DEFINE Part(n) == S \intersect (0 .. n - 1)
           Led(n) == \E t \in Part(n) : \A u \in Part(n) : u = t \/ Better(f, t, u)
           Bad == {n \in 0 .. VocabSize : Part(n) # {} /\ ~Led(n)}
<1>1. S \subseteq Tokens
  BY DEF Numbers
<1>2. Bad = {}
  <2> SUFFICES ASSUME Bad # {}  PROVE FALSE
    OBVIOUS
  <2>1. PICK n \in Bad : \A m \in Bad : n <= m
    <3>1. Bad \subseteq Nat
      BY TokensNatural
    <3> HIDE DEF Bad
    <3> QED
      BY <3>1, LeastNumber
  <2>2. n \in 0 .. VocabSize /\ Part(n) # {} /\ ~Led(n)
    BY <2>1
  <2>3. n \in 1 .. VocabSize /\ n - 1 \in 0 .. VocabSize
    BY <2>2, TokensNatural
  <2>4. Part(n - 1) = {} \/ Led(n - 1)
    <3>1. n - 1 \notin Bad
      BY <2>1, <2>3
    <3> QED
      BY <2>3, <3>1
  <2>5. Part(n) = Part(n - 1) \union (S \intersect {n - 1})
    BY <2>3
  <2> HIDE DEF Bad
  <2>6. CASE n - 1 \notin S
    <3>1. Part(n) = Part(n - 1)
      BY <2>5, <2>6
    <3> QED
      BY <2>2, <2>4, <3>1
  <2>7. CASE n - 1 \in S /\ Part(n - 1) = {}
    <3>1. Part(n) = {n - 1}
      BY <2>5, <2>7
    <3> QED
      BY <2>2, <3>1
  <2>8. CASE n - 1 \in S /\ Led(n - 1)
    <3>1. PICK t \in Part(n - 1) : \A u \in Part(n - 1) : u = t \/ Better(f, t, u)
      BY <2>8
    <3>2. t \in Numbers(f) /\ n - 1 \in Numbers(f) /\ t \in Tokens /\ n - 1 \in Tokens
      BY <2>8, <1>1
    <3>3. CASE Better(f, t, n - 1)
      <4>1. \A u \in Part(n) : u = t \/ Better(f, t, u)
        BY <2>5, <3>1, <3>3
      <4> QED
        BY <2>2, <2>5, <4>1
    <3>4. CASE Better(f, n - 1, t)
      <4>1. \A u \in Part(n - 1) : Better(f, n - 1, u)
        BY <3>1, <3>2, <3>4, <1>1, BetterOrders
      <4>2. n - 1 \in Part(n) /\ \A u \in Part(n) : u = n - 1 \/ Better(f, n - 1, u)
        BY <2>5, <2>8, <4>1
      <4> QED
        BY <2>2, <4>2
    <3> QED
      BY <2>2, <2>5, <3>1, <3>2, <3>3, <3>4, BetterOrders
  <2> QED
    BY <2>4, <2>6, <2>7, <2>8
<1>3. Part(VocabSize) = S
  BY <1>1 DEF Tokens
<1>4. Led(VocabSize)
  <2>1. VocabSize \in 0 .. VocabSize
    BY TokensNatural
  <2> QED
    BY <1>2, <1>3, <2>1
<1>5. \E t \in S : \A u \in S : u = t \/ Better(f, t, u)
  BY <1>3, <1>4
<1> QED
  BY <1>5 DEF First

\* exp falls with the distance, but not from nothing.
LEMMA WeightFalls ==
  /\ Weight(0) \in Nat \ {0}
  /\ \A d \in Nat : Weight(d) \in Nat
  /\ \A d, e \in Nat : d <= e => Weight(e) <= Weight(d)
<1>1. Len(Weights) \in Nat \ {0} /\ \A d \in 1 .. Len(Weights) : Weights[d] \in Nat
  BY WeightsAssumption, EmptySeq
<1>2. DOMAIN Weights = 1 .. Len(Weights)
  BY WeightsAssumption
<1>3. \A d \in Nat : Weight(d) \in Nat
  BY <1>1 DEF Weight
<1>4. \A d, e \in Nat : d <= e => Weight(e) <= Weight(d)
  <2> SUFFICES ASSUME NEW d \in Nat, NEW e \in Nat, d <= e  PROVE Weight(e) <= Weight(d)
    OBVIOUS
  <2>1. CASE e < Len(Weights)
    <3>1. d + 1 \in DOMAIN Weights /\ e + 1 \in DOMAIN Weights /\ d + 1 <= e + 1
      BY <1>1, <1>2, <2>1
    <3> QED
      BY <1>1, <2>1, <3>1, WeightsAssumption DEF Weight
  <2>2. CASE ~(e < Len(Weights))
    BY <1>3, <2>2 DEF Weight
  <2> QED
    BY <2>1, <2>2
<1> QED
  BY <1>1, <1>3, <1>4, WeightsAssumption DEF Weight

\* The likeliest token has the largest score, and the weight of the distance zero.
LEMMA MaximumWeighs ==
  ASSUME row \in [Tokens -> Score], Numbers(row) # {}
  PROVE  /\ Maximum \in Tokens /\ row[Maximum] # NaN /\ Exp(Maximum) = Weight(0)
         /\ \A t \in Tokens : row[t] # NaN =>
              /\ Exp(t) \in Nat /\ Exp(t) <= Weight(0)
         /\ \A t, u \in Tokens : row[t] # NaN /\ row[u] # NaN /\ row[u] <= row[t] =>
              Exp(u) <= Exp(t)
<1>1. Maximum \in Numbers(row)
      /\ \A u \in Numbers(row) : u = Maximum \/ Better(row, Maximum, u)
  BY FirstIsBest DEF Maximum
<1>2. Maximum \in Tokens /\ row[Maximum] # NaN /\ row[Maximum] \in Int
  BY <1>1 DEF Numbers, Score
<1>3. ASSUME NEW t \in Tokens, row[t] # NaN
      PROVE  row[t] \in Int /\ row[Maximum] - row[t] \in Nat
  <2>1. t \in Numbers(row) /\ row[t] \in Int
    BY <1>3 DEF Numbers, Score
  <2>2. row[t] <= row[Maximum]
    BY <1>1, <1>2, <2>1, BetterOrders
  <2> QED
    BY <1>2, <2>1, <2>2
<1>4. \A t \in Tokens : row[t] # NaN => Exp(t) \in Nat /\ Exp(t) <= Weight(0)
  BY <1>3, WeightFalls DEF Exp
<1>5. Exp(Maximum) = Weight(0)
  BY <1>2 DEF Exp
<1>6. ASSUME NEW t \in Tokens, NEW u \in Tokens, row[t] # NaN, row[u] # NaN, row[u] <= row[t]
      PROVE  Exp(u) <= Exp(t)
  <2>1. /\ row[Maximum] - row[t] \in Nat /\ row[Maximum] - row[u] \in Nat
        /\ row[Maximum] - row[t] <= row[Maximum] - row[u]
    BY <1>2, <1>3, <1>6
  <2> QED
    BY <2>1, WeightFalls DEF Exp
<1> QED
  BY <1>2, <1>4, <1>5, <1>6

------------------------------------------------------------------------------
(* Sums over the vocabulary *)

\* Induction over the first tokens, for a set of numbers.
LEMMA TokenByToken ==
  ASSUME NEW G, 0 \in G, \A n \in 1 .. VocabSize : n - 1 \in G => n \in G
  PROVE  0 .. VocabSize \subseteq G
<1> DEFINE Bad == 0 .. VocabSize \ G
<1> SUFFICES ASSUME Bad # {}  PROVE FALSE
  OBVIOUS
<1>1. PICK n \in Bad : \A m \in Bad : n <= m
  <2>1. Bad \subseteq Nat
    BY TokensNatural
  <2> HIDE DEF Bad
  <2> QED
    BY <2>1, LeastNumber
<1>2. n \in 1 .. VocabSize /\ n - 1 \in 0 .. VocabSize
  BY <1>1, TokensNatural
<1>3. n - 1 \in G
  BY <1>1, <1>2
<1> QED
  BY <1>1, <1>2, <1>3

\* The recursion of Sums has a solution.
LEMMA SumsExist ==
  ASSUME NEW f \in [Tokens -> Nat]
  PROVE  \E s : s = [n \in 0 .. VocabSize |-> IF n = 0 THEN 0 ELSE s[n - 1] + f[n - 1]]
<1> DEFINE Good(n) == \E s \in [0 .. n -> Nat] :
                        s[0] = 0 /\ \A k \in 1 .. n : s[k] = s[k - 1] + f[k - 1]
           G == {n \in 0 .. VocabSize : Good(n)}
<1>1. 0 \in G
  <2> DEFINE s == [k \in 0 .. 0 |-> 0]
  <2>1. s \in [0 .. 0 -> Nat] /\ s[0] = 0 /\ \A k \in 1 .. 0 : s[k] = s[k - 1] + f[k - 1]
    OBVIOUS
  <2>2. Good(0)
    BY <2>1
  <2> HIDE DEF Good
  <2> QED
    BY <2>2, TokensNatural
<1>2. ASSUME NEW n \in 1 .. VocabSize, n - 1 \in G  PROVE n \in G
  <2>1. PICK s \in [0 .. n - 1 -> Nat] :
          s[0] = 0 /\ \A k \in 1 .. n - 1 : s[k] = s[k - 1] + f[k - 1]
    BY <1>2
  <2> DEFINE s1 == [k \in 0 .. n |-> IF k = n THEN s[n - 1] + f[n - 1] ELSE s[k]]
  <2>2. n - 1 \in Tokens /\ n - 1 \in 0 .. n - 1
    BY TokensNatural DEF Tokens
  <2>3. s1 \in [0 .. n -> Nat]
    BY <2>2
  <2>4. \A k \in 0 .. n - 1 : s1[k] = s[k]
    OBVIOUS
  <2>5. s1[n] = s[n - 1] + f[n - 1]
    OBVIOUS
  <2> HIDE DEF s1
  <2>6. s1[0] = 0 /\ \A k \in 1 .. n : s1[k] = s1[k - 1] + f[k - 1]
    BY <2>1, <2>2, <2>4, <2>5
  <2>7. Good(n)
    BY <2>3, <2>6
  <2> HIDE DEF Good
  <2> QED
    BY <2>7, TokensNatural
<1>3. VocabSize \in G
  <2> HIDE DEF G
  <2> QED
    BY <1>1, <1>2, TokenByToken, TokensNatural
<1>4. PICK s \in [0 .. VocabSize -> Nat] :
        s[0] = 0 /\ \A k \in 1 .. VocabSize : s[k] = s[k - 1] + f[k - 1]
  BY <1>3
<1>5. s = [n \in 0 .. VocabSize |-> IF n = 0 THEN 0 ELSE s[n - 1] + f[n - 1]]
  BY <1>4
<1> QED
  BY <1>5

LEMMA SumsUnfold ==
  ASSUME NEW f \in [Tokens -> Nat]
  PROVE  /\ Sums(f) \in [0 .. VocabSize -> Nat]
         /\ Sums(f)[0] = 0
         /\ \A n \in 1 .. VocabSize : Sums(f)[n] = Sums(f)[n - 1] + f[n - 1]
<1>1. Sums(f) = [n \in 0 .. VocabSize |-> IF n = 0 THEN 0 ELSE Sums(f)[n - 1] + f[n - 1]]
  BY SumsExist, Zenon DEF Sums
<1> DEFINE s == Sums(f)
           G == {n \in 0 .. VocabSize : s[n] \in Nat}
<1>2. 0 \in 0 .. VocabSize /\ \A n \in 1 .. VocabSize :
        n \in 0 .. VocabSize /\ n - 1 \in 0 .. VocabSize /\ n - 1 \in Tokens
  BY TokensNatural DEF Tokens
<1>3. s[0] = 0 /\ \A n \in 1 .. VocabSize : s[n] = s[n - 1] + f[n - 1]
  <2> HIDE DEF s
  <2>1. s = [n \in 0 .. VocabSize |-> IF n = 0 THEN 0 ELSE s[n - 1] + f[n - 1]]
    BY <1>1 DEF s
  <2> QED
    BY <1>2, <2>1
<1> HIDE DEF s
<1>4. 0 .. VocabSize \subseteq G
  <2>1. 0 \in G /\ \A n \in 1 .. VocabSize : n - 1 \in G => n \in G
    BY <1>2, <1>3
  <2> HIDE DEF G
  <2> QED
    BY <2>1, TokenByToken
<1>5. \A n \in 0 .. VocabSize : s[n] \in Nat
  BY <1>4
<1>6. DOMAIN s = 0 .. VocabSize /\ s = [n \in 0 .. VocabSize |-> s[n]]
  <2>1. s = [n \in 0 .. VocabSize |-> IF n = 0 THEN 0 ELSE s[n - 1] + f[n - 1]]
    BY <1>1 DEF s
  <2> QED
    BY <2>1
<1>7. s \in [0 .. VocabSize -> Nat]
  BY <1>5, <1>6
<1> QED
  BY <1>3, <1>7 DEF s

LEMMA SumTyped ==
  ASSUME NEW f \in [Tokens -> Nat]  PROVE Sum(f) \in Nat
BY SumsUnfold, TokensNatural DEF Sum

LEMMA SumZero ==
  ASSUME NEW f \in [Tokens -> Nat], \A t \in Tokens : f[t] = 0
  PROVE  Sum(f) = 0
<1> DEFINE s == Sums(f)
           G == {n \in 0 .. VocabSize : s[n] = 0}
<1>1. s[0] = 0 /\ \A n \in 1 .. VocabSize : s[n] = s[n - 1] + f[n - 1]
  BY SumsUnfold
<1>2. \A n \in 1 .. VocabSize : n - 1 \in Tokens
  BY TokensNatural DEF Tokens
<1> HIDE DEF s
<1>3. 0 \in G /\ \A n \in 1 .. VocabSize : n - 1 \in G => n \in G
  BY <1>1, <1>2, TokensNatural
<1>4. VocabSize \in G
  <2> HIDE DEF G
  <2> QED
    BY <1>3, TokenByToken, TokensNatural
<1> QED
  BY <1>4 DEF Sum, s

\* Larger summands have a larger sum.
LEMMA SumGrows ==
  ASSUME NEW f \in [Tokens -> Nat], NEW g \in [Tokens -> Nat], \A t \in Tokens : f[t] <= g[t]
  PROVE  Sum(f) <= Sum(g)
<1> DEFINE s == Sums(f)
           r == Sums(g)
           G == {n \in 0 .. VocabSize : s[n] <= r[n]}
<1>1. /\ s[0] = 0 /\ \A n \in 1 .. VocabSize : s[n] = s[n - 1] + f[n - 1]
      /\ r[0] = 0 /\ \A n \in 1 .. VocabSize : r[n] = r[n - 1] + g[n - 1]
      /\ \A n \in 0 .. VocabSize : s[n] \in Nat /\ r[n] \in Nat
  BY SumsUnfold
<1>2. \A n \in 1 .. VocabSize : n - 1 \in Tokens
  BY TokensNatural DEF Tokens
<1> HIDE DEF s, r
<1>3. 0 \in G /\ \A n \in 1 .. VocabSize : n - 1 \in G => n \in G
  <2>1. 0 \in G
    BY <1>1, TokensNatural
  <2>2. ASSUME NEW n \in 1 .. VocabSize, n - 1 \in G  PROVE n \in G
    <3>1. /\ n \in 0 .. VocabSize /\ n - 1 \in 0 .. VocabSize
          /\ s[n - 1] \in Nat /\ r[n - 1] \in Nat /\ s[n - 1] <= r[n - 1]
      BY <1>1, <2>2, TokensNatural
    <3>2. f[n - 1] \in Nat /\ g[n - 1] \in Nat /\ f[n - 1] <= g[n - 1]
      BY <1>2
    <3> QED
      BY <1>1, <3>1, <3>2
  <2> QED
    BY <2>1, <2>2
<1>4. VocabSize \in G
  <2> HIDE DEF G
  <2> QED
    BY <1>3, TokenByToken, TokensNatural
<1> QED
  BY <1>4 DEF Sum, s, r

\* Raising one summand raises the sum by as much.
LEMMA SumRaised ==
  ASSUME NEW f \in [Tokens -> Nat], NEW g \in [Tokens -> Nat], NEW u \in Tokens, NEW v \in Nat,
         g[u] = f[u] + v, \A t \in Tokens : t # u => g[t] = f[t]
  PROVE  Sum(g) = Sum(f) + v
<1> DEFINE s == Sums(f)
           r == Sums(g)
           G == {n \in 0 .. VocabSize : r[n] = s[n] + (IF n > u THEN v ELSE 0)}
<1>1. /\ s[0] = 0 /\ \A n \in 1 .. VocabSize : s[n] = s[n - 1] + f[n - 1]
      /\ r[0] = 0 /\ \A n \in 1 .. VocabSize : r[n] = r[n - 1] + g[n - 1]
      /\ \A n \in 0 .. VocabSize : s[n] \in Nat /\ r[n] \in Nat
  BY SumsUnfold
<1>2. u \in Nat /\ u < VocabSize /\ \A n \in 1 .. VocabSize : n - 1 \in Tokens
  BY TokensNatural DEF Tokens
<1> HIDE DEF s, r
<1>3. 0 \in G /\ \A n \in 1 .. VocabSize : n - 1 \in G => n \in G
  <2>1. 0 \in G
    BY <1>1, <1>2, TokensNatural
  <2>2. ASSUME NEW n \in 1 .. VocabSize, n - 1 \in G  PROVE n \in G
    <3>1. /\ n \in 0 .. VocabSize /\ n - 1 \in 0 .. VocabSize
          /\ s[n - 1] \in Nat /\ r[n - 1] \in Nat
          /\ r[n - 1] = s[n - 1] + (IF n - 1 > u THEN v ELSE 0)
      BY <1>1, <2>2, TokensNatural
    <3>2. f[n - 1] \in Nat /\ g[n - 1] = f[n - 1] + (IF n - 1 = u THEN v ELSE 0)
      BY <1>2
    <3>3. r[n] = r[n - 1] + g[n - 1] /\ s[n] = s[n - 1] + f[n - 1]
      BY <1>1
    <3> QED
      BY <1>2, <3>1, <3>2, <3>3
  <2> QED
    BY <2>1, <2>2
<1>4. VocabSize \in G
  <2> HIDE DEF G
  <2> QED
    BY <1>3, TokenByToken, TokensNatural
<1> QED
  BY <1>2, <1>4 DEF Sum, s, r

\* One summand and a bound for each of the others bound the sum.
LEMMA SumBounded ==
  ASSUME NEW f \in [Tokens -> Nat], NEW u \in Tokens, NEW c \in Nat,
         \A t \in Tokens : t # u => f[t] <= c
  PROVE  Sum(f) <= f[u] + (VocabSize - 1) * c
<1> DEFINE s == Sums(f)
           G == {n \in 0 .. VocabSize : s[n] <= IF n > u THEN f[u] + (n - 1) * c ELSE n * c}
<1>1. /\ s[0] = 0 /\ \A n \in 1 .. VocabSize : s[n] = s[n - 1] + f[n - 1]
      /\ \A n \in 0 .. VocabSize : s[n] \in Nat
  BY SumsUnfold
<1>2. u \in Nat /\ u < VocabSize /\ \A n \in 1 .. VocabSize : n - 1 \in Tokens
  BY TokensNatural DEF Tokens
<1> HIDE DEF s
<1>3. 0 \in G
  BY <1>1, <1>2, TokensNatural
<1>4. ASSUME NEW n \in 1 .. VocabSize, n - 1 \in G  PROVE n \in G
  <2>1. n \in Nat /\ n \in 0 .. VocabSize /\ n - 1 \in 0 .. VocabSize /\ n - 1 \in Nat
    BY TokensNatural
  <2>2. /\ s[n - 1] \in Nat
        /\ s[n - 1] <= IF n - 1 > u THEN f[u] + ((n - 1) - 1) * c ELSE (n - 1) * c
    BY <1>1, <1>4, <2>1
  <2>3. (n - 1) * c = n * c - c /\ ((n - 1) - 1) * c = (n - 1) * c - c
        /\ n * c \in Int /\ (n - 1) * c \in Int
    BY <2>1
  <2>4. f[n - 1] \in Nat /\ f[u] \in Nat /\ (n - 1 # u => f[n - 1] <= c)
    BY <1>2
  <2>5. s[n] = s[n - 1] + f[n - 1]
    BY <1>1
  <2>6. s[n] <= IF n > u THEN f[u] + (n - 1) * c ELSE n * c
    <3>1. CASE n - 1 > u
      BY <1>2, <2>1, <2>2, <2>3, <2>4, <2>5, <3>1
    <3>2. CASE n - 1 = u
      BY <1>2, <2>1, <2>2, <2>3, <2>4, <2>5, <3>2
    <3>3. CASE n - 1 < u
      BY <1>2, <2>1, <2>2, <2>3, <2>4, <2>5, <3>3
    <3> QED
      BY <1>2, <2>1, <3>1, <3>2, <3>3
  <2> QED
    BY <2>1, <2>6
<1>5. VocabSize \in G
  <2> HIDE DEF G
  <2> QED
    BY <1>3, <1>4, TokenByToken, TokensNatural
<1> QED
  BY <1>2, <1>5 DEF Sum, s

------------------------------------------------------------------------------
(* What the steps compute *)

LEMMA PenalisedTyped ==
  ASSUME NEW score \in Score  PROVE Penalised(score) \in Score
BY DecisionAssumption DEF Penalised, Score

\* std::max_element finds the largest number, unless it begins with NaN.
LEMMA MaxElementRight ==
  ASSUME NEW f \in [Tokens -> Score]
  PROVE  /\ MaxElement(f) \in Tokens
         /\ f[0] # NaN =>
              /\ f[MaxElement(f)] # NaN
              /\ \A u \in Tokens : f[u] # NaN => f[u] <= f[MaxElement(f)]
<1>1. CASE f[0] = NaN
  BY <1>1, TokensNatural DEF MaxElement
<1>2. CASE f[0] # NaN
  <2>1. 0 \in Numbers(f) /\ MaxElement(f) = First(f, Numbers(f))
    BY <1>2, TokensNatural DEF MaxElement, Numbers
  <2>2. /\ MaxElement(f) \in Numbers(f)
        /\ \A u \in Numbers(f) : u = MaxElement(f) \/ Better(f, MaxElement(f), u)
    BY <2>1, FirstIsBest
  <2>3. MaxElement(f) \in Tokens /\ f[MaxElement(f)] # NaN /\ f[MaxElement(f)] \in Int
    BY <2>2 DEF Numbers, Score
  <2>4. \A u \in Tokens : f[u] # NaN => f[u] <= f[MaxElement(f)]
    BY <2>2, <2>3, BetterOrders DEF Numbers
  <2> QED
    BY <2>3, <2>4
<1> QED
  BY <1>1, <1>2

LEMMA WeighedRight ==
  ASSUME row \in [Tokens -> Score]
  PROVE  /\ Weighed \in [Tokens -> Nat \union {NaN}] /\ Numbers(Weighed) = Numbers(row)
         /\ \A t \in Tokens : row[t] # NaN => Weighed[t] = Exp(t)
<1>1. \A t \in Tokens : row[t] # NaN => Exp(t) \in Nat
  BY MaximumWeighs DEF Numbers
<1> QED
  BY <1>1, DecisionAssumption DEF Weighed, Numbers

\* An inserted token rises to its place; the list keeps its order.
LEMMA RiseRight ==
  ASSUME values \in [Tokens -> Nat \union {NaN}],
         NEW list \in Seq(Tokens), NEW t \in Tokens
  PROVE  /\ Rise(list, t) \in Seq(Tokens) /\ Len(Rise(list, t)) = Len(list) + 1
         /\ Occurring(Rise(list, t)) = Occurring(list) \union {t}
         /\ (/\ Numbers(values) = Tokens /\ t \notin Occurring(list)
             /\ \A i, j \in DOMAIN list : i < j => Better(values, list[i], list[j])) =>
              \A i, j \in DOMAIN Rise(list, t) :
                i < j => Better(values, Rise(list, t)[i], Rise(list, t)[j])
<1> DEFINE n == Len(list)
           behind == {i \in DOMAIN list : ~Better(values, t, list[i])}
           place == IF behind = {} THEN 1 ELSE Max(behind) + 1
           new == Rise(list, t)
<1>1. n \in Nat /\ DOMAIN list = 1 .. n /\ \A i \in 1 .. n : list[i] \in Tokens
  BY LenProperties, ElementOfSeq
<1>2. /\ place \in 1 .. n + 1 /\ \A i \in place .. n : Better(values, t, list[i])
      /\ place > 1 => place - 1 \in behind
  <2>1. behind \subseteq 1 .. n
    BY <1>1
  <2>2. CASE behind = {}
    BY <1>1, <2>2
  <2>3. CASE behind # {}
    <3> HIDE DEF behind
    <3>1. Max(behind) \in behind /\ \A i \in behind : i <= Max(behind)
      BY <1>1, <2>1, <2>3, GreatestIndex
    <3>2. Max(behind) \in 1 .. n
      BY <2>1, <3>1
    <3>3. \A i \in Max(behind) + 1 .. n : i \in 1 .. n /\ i \notin behind
      BY <3>1, <3>2
    <3> QED
      BY <1>1, <2>3, <3>1, <3>2, <3>3 DEF behind
  <2> QED
    BY <2>2, <2>3
<1>3. new = [i \in 1 .. n + 1 |->
               IF i < place THEN list[i] ELSE IF i = place THEN t ELSE list[i - 1]]
  BY Zenon DEF Rise
<1>4. \A i \in 1 .. n + 1 :
        new[i] = IF i < place THEN list[i] ELSE IF i = place THEN t ELSE list[i - 1]
  BY <1>3, Zenon
<1> HIDE DEF place, new, n
<1>5. \A i \in 1 .. n + 1 : new[i] \in Tokens
  BY <1>1, <1>2, <1>4
<1>6. new \in [1 .. n + 1 -> Tokens]
  BY <1>3, <1>5, Zenon
<1>7. new \in Seq(Tokens) /\ Len(new) = n + 1 /\ DOMAIN new = 1 .. n + 1
  <2>1. n + 1 \in Nat
    BY <1>1
  <2>2. new \in Seq(Tokens)
    <3>1. new \in UNION {[1 .. m -> Tokens] : m \in Nat}
      BY <1>6, <2>1
    <3> QED
      BY <3>1, SeqDef, Zenon
  <2>3. DOMAIN new = 1 .. n + 1
    BY <1>6
  <2> QED
    BY <2>1, <2>2, <2>3, LenProperties
<1>8. Occurring(new) = Occurring(list) \union {t}
  <2>1. ASSUME NEW i \in 1 .. n + 1  PROVE new[i] \in Occurring(list) \union {t}
    BY <1>1, <1>2, <1>4 DEF Occurring
  <2>2. ASSUME NEW i \in 1 .. n  PROVE list[i] \in Occurring(new)
    <3>1. CASE i < place
      <4>1. i \in 1 .. n + 1 /\ new[i] = list[i]
        BY <1>1, <1>4, <3>1
      <4> QED
        BY <1>7, <4>1 DEF Occurring
    <3>2. CASE ~(i < place)
      <4>1. i + 1 \in 1 .. n + 1 /\ new[i + 1] = list[i]
        BY <1>1, <1>2, <1>4, <3>2
      <4> QED
        BY <1>7, <4>1 DEF Occurring
    <3> QED
      BY <3>1, <3>2
  <2>3. t \in Occurring(new)
    BY <1>2, <1>4, <1>7 DEF Occurring
  <2> QED
    BY <1>1, <1>7, <2>1, <2>2, <2>3 DEF Occurring
<1>9. ASSUME Numbers(values) = Tokens, t \notin Occurring(list),
             \A i, j \in 1 .. n : i < j => Better(values, list[i], list[j]),
             NEW i \in 1 .. n + 1, NEW j \in 1 .. n + 1, i < j
      PROVE  Better(values, new[i], new[j])
  <2>0. values \in [Tokens -> Score]
    BY DEF Score
  <2>1. \A k \in place .. n : Better(values, t, list[k])
    BY <1>2
  <2>2. \A k \in 1 .. place - 1 : Better(values, list[k], t)
    <3>1. ASSUME place > 1  PROVE Better(values, list[place - 1], t)
      <4>1. place - 1 \in 1 .. n /\ ~Better(values, t, list[place - 1])
        BY <1>1, <1>2, <3>1
      <4>2. list[place - 1] # t /\ list[place - 1] \in Tokens
        BY <1>1, <1>9, <4>1 DEF Occurring
      <4> QED
        BY <1>9, <2>0, <4>1, <4>2, BetterOrders
    <3> SUFFICES ASSUME NEW k \in 1 .. place - 1  PROVE Better(values, list[k], t)
      OBVIOUS
    <3>2. place > 1 /\ k \in 1 .. n /\ place - 1 \in 1 .. n /\ k <= place - 1
      BY <1>1, <1>2
    <3>3. CASE k = place - 1
      BY <3>1, <3>2, <3>3
    <3>4. CASE k # place - 1
      <4>1. Better(values, list[k], list[place - 1])
        BY <1>9, <3>2, <3>4
      <4> QED
        BY <1>1, <2>0, <3>1, <3>2, <4>1, BetterOrders
    <3> QED
      BY <3>3, <3>4
  <2>3. CASE j < place
    <3>1. i \in 1 .. n /\ j \in 1 .. n /\ new[i] = list[i] /\ new[j] = list[j]
      BY <1>1, <1>2, <1>4, <1>9, <2>3
    <3> QED
      BY <1>9, <3>1
  <2>4. CASE j = place
    <3>1. i \in 1 .. place - 1 /\ new[i] = list[i] /\ new[j] = t
      BY <1>2, <1>4, <1>9, <2>4
    <3> QED
      BY <2>2, <3>1
  <2>5. CASE j > place
    <3>1. j - 1 \in place .. n /\ j - 1 \in 1 .. n /\ new[j] = list[j - 1]
      BY <1>1, <1>2, <1>4, <2>5
    <3>2. CASE i < place
      <4>1. i \in 1 .. n /\ i < j - 1 /\ new[i] = list[i]
        BY <1>1, <1>2, <1>4, <3>1, <3>2
      <4> QED
        BY <1>9, <3>1, <4>1
    <3>3. CASE i = place
      BY <1>4, <2>1, <3>1, <3>3
    <3>4. CASE i > place
      <4>1. i - 1 \in 1 .. n /\ i - 1 < j - 1 /\ new[i] = list[i - 1]
        BY <1>1, <1>2, <1>4, <1>9, <3>1, <3>4
      <4> QED
        BY <1>9, <3>1, <4>1
    <3> QED
      BY <1>2, <3>2, <3>3, <3>4
  <2> QED
    BY <1>2, <2>3, <2>4, <2>5
<1> QED
  BY <1>1, <1>7, <1>8, <1>9 DEF new, n

LEMMA InsertRight ==
  ASSUME values \in [Tokens -> Nat \union {NaN}],
         NEW list \in Seq(Tokens), Len(list) <= TopCount, NEW t \in Tokens
  PROVE  /\ Insert(list, t) \in Seq(Tokens)
         /\ Len(Insert(list, t)) = Least(Len(list) + 1, TopCount)
         /\ Occurring(Insert(list, t)) \subseteq Occurring(list) \union {t}
<1>1. Len(list) \in Nat /\ TopCount \in Nat \ {0} /\ \A i \in 1 .. Len(list) : list[i] \in Tokens
  BY LenProperties, ElementOfSeq, DecisionAssumption
<1>2. CASE Len(list) < TopCount
  <2>1. Insert(list, t) = Rise(list, t)
    BY <1>2, Zenon DEF Insert
  <2>2. Rise(list, t) \in Seq(Tokens) /\ Len(Rise(list, t)) = Len(list) + 1
        /\ Occurring(Rise(list, t)) = Occurring(list) \union {t}
    BY RiseRight
  <2> QED
    BY <1>1, <1>2, <2>1, <2>2 DEF Least
<1>3. CASE ~(Len(list) < TopCount) /\ Better(values, t, list[TopCount])
  <2> DEFINE front == SubSeq(list, 1, TopCount - 1)
  <2>1. /\ front \in Seq(Tokens) /\ Len(front) = TopCount - 1
        /\ \A i \in 1 .. TopCount - 1 : front[i] = list[i]
    BY <1>1, <1>3, SubSeqProperties
  <2>2. Insert(list, t) = Rise(front, t)
    BY <1>3 DEF Insert
  <2> HIDE DEF front
  <2>3. Occurring(front) \subseteq Occurring(list)
    <3>1. DOMAIN front = 1 .. TopCount - 1 /\ DOMAIN list = 1 .. Len(list)
      BY <2>1, LenProperties
    <3> QED
      BY <1>1, <1>3, <2>1, <3>1 DEF Occurring
  <2>4. Rise(front, t) \in Seq(Tokens) /\ Len(Rise(front, t)) = TopCount - 1 + 1
        /\ Occurring(Rise(front, t)) = Occurring(front) \union {t}
    BY <2>1, RiseRight
  <2> QED
    BY <1>1, <1>3, <2>2, <2>3, <2>4 DEF Least
<1>4. CASE ~(Len(list) < TopCount) /\ ~Better(values, t, list[TopCount])
  <2>1. Insert(list, t) = list
    BY <1>4, Zenon DEF Insert
  <2> QED
    BY <1>1, <1>4, <2>1 DEF Least
<1> QED
  BY <1>2, <1>3, <1>4

------------------------------------------------------------------------------
(* Every step preserves the invariant *)

LEMMA InitDecision == RowInit => DecisionInv
<1> SUFFICES ASSUME RowInit  PROVE DecisionInv
  OBVIOUS
<1> USE DEF RowInit
<1>1. RowTypeOK
  <2>1. Blank \in [Tokens -> Score] /\ Blank \in [Tokens -> Nat \union {NaN}]
    BY DEF Blank, Score
  <2>2. NoOrder \in [Indices -> Tokens]
    BY TokensNatural DEF NoOrder, Indices, Tokens
  <2>3. <<>> \in Seq(Tokens) /\ <<>> \in Seq(Int)
    BY EmptySeq
  <2> QED
    BY <2>1, <2>2, <2>3, TokensNatural DEF RowTypeOK
<1>2. MarksRight
  <2>1. Occurring(<<>>) = {}
    BY DEF Occurring
  <2> QED
    BY <2>1 DEF MarksRight
<1>3. PenaltyUnderWay /\ PenaltyOnce /\ RankingUnderWay /\ HeadRight /\ SummaryUnderWay
      /\ LikeliestChosen /\ NucleusExact
  BY DEF PenaltyUnderWay, PenaltyOnce, RankingUnderWay, HeadRight, SummaryUnderWay,
         LikeliestChosen, NucleusExact, KeepsLikeliest, NucleusSmallest, Filtered
<1> QED
  BY <1>1, <1>2, <1>3 DEF DecisionInv

\* The summary always has as many tokens as it can.
LEMMA TopTyped ==
  ASSUME RowTypeOK, SummaryUnderWay, step = "summary"
  PROVE  /\ Len(top) = Least(next, TopCount) /\ Len(top) <= TopCount
         /\ DOMAIN top = 1 .. Len(top) /\ \A i \in 1 .. Len(top) : top[i] \in Tokens
         /\ next = VocabSize => 1 \in DOMAIN top
<1>1. Len(top) = Least(next, TopCount) /\ next \in Nat /\ TopCount \in 1 .. VocabSize
  BY DecisionAssumption DEF RowTypeOK, SummaryUnderWay
<1>2. Len(top) \in Nat /\ DOMAIN top = 1 .. Len(top) /\ \A i \in 1 .. Len(top) : top[i] \in Tokens
  BY LenProperties, ElementOfSeq DEF RowTypeOK
<1> QED
  BY <1>1, <1>2, TokensNatural DEF Least

LEMMA TypeKept ==
  ASSUME RowTypeOK, PenaltyUnderWay, RankingUnderWay, SummaryUnderWay, RowNext
  PROVE  RowTypeOK'
<1> USE DEF RowTypeOK, arguments, nucleus
<1>0. /\ VocabSize \in Nat \ {0} /\ 0 \in Tokens /\ Tokens \subseteq Nat
      /\ InitialWidth \in Nat \ {0} /\ MaximumWidth \in Nat \ {0}
      /\ NaN \notin Nat
  BY TokensNatural, DecisionAssumption
<1>1. CASE Begin
  BY <1>1, DecisionAssumption DEF Begin, Score
<1>2. CASE RecordToken
  <2>1. CASE text[next] \in Tokens \ seen
    <3>1. history' = Append(history, text[next]) /\ seen' = seen \union {text[next]}
      BY <1>2, <2>1 DEF RecordToken
    <3>2. history' \in Seq(Tokens) /\ seen' \in SUBSET Tokens
      BY <2>1, <3>1, AppendProperties
    <3> QED
      BY <1>2, <3>2 DEF RecordToken
  <2>2. CASE text[next] \notin Tokens \ seen
    <3>1. UNCHANGED <<history, seen>>
      BY <1>2, <2>2 DEF RecordToken
    <3> QED
      BY <1>2, <3>1 DEF RecordToken
  <2> QED
    BY <2>1, <2>2
<1>3. CASE HistoryBuilt
  BY <1>3 DEF HistoryBuilt
<1>4. CASE Penalise
  <2>1. Penalised(row[history[next]]) \in Score
    <3>1. next \in 1 .. Len(history)
      BY <1>4, LenProperties DEF Penalise, PenaltyUnderWay
    <3>2. history[next] \in Tokens
      BY <3>1, ElementOfSeq
    <3> QED
      BY <3>2, PenalisedTyped
  <2>2. row' \in [Tokens -> Score]
    BY <1>4, <2>1 DEF Penalise
  <2> QED
    BY <1>4, <2>2 DEF Penalise
<1>5. CASE RowFilled
  BY <1>5 DEF RowFilled
<1>6. CASE Argmax
  <2>1. MaxElement(row) \in Tokens
    BY MaxElementRight
  <2> QED
    BY <1>6, <2>1 DEF Argmax
<1>7. ASSUME NEW t \in Tokens, OnlyToken(t)  PROVE RowTypeOK'
  BY <1>7, EmptySeq DEF OnlyToken
<1>8. CASE PeakReturns
  <2>1. Maximum \in Tokens
    BY <1>8, MaximumWeighs DEF PeakReturns, Peaked
  <2> QED
    BY <1>7, <1>8, <2>1 DEF PeakReturns
<1>9. CASE Normalise
  <2>1. values' = Weighed /\ Weighed \in [Tokens -> Nat \union {NaN}]
        /\ Numbers(Weighed) = Numbers(row)
    BY <1>9, WeighedRight DEF Normalise, Weighed
  <2>2. mass' \in Nat
    <3>1. CASE Numbers(row) = Tokens
      <4>1. Weighed \in [Tokens -> Nat]
        BY <2>1, <3>1 DEF Numbers
      <4> QED
        BY <1>9, <2>1, <3>1, <4>1, SumTyped DEF Normalise
    <3>2. CASE Numbers(row) # Tokens
      BY <1>9, <3>2, WeightFalls DEF Normalise
    <3> QED
      BY <3>1, <3>2
  <2> QED
    BY <1>9, <2>1, <2>2 DEF Normalise
<1>10. CASE KeepAll
  BY <1>10, EmptySeq DEF KeepAll
<1>11. CASE SharpReturns
  <2>1. MaxElement(values) \in Tokens
    BY MaxElementRight DEF Score
  <2> QED
    BY <1>7, <1>11, <2>1 DEF SharpReturns
<1>12. ASSUME NEW from, NEW to \in 0 .. VocabSize, Sort(from, to), step' \in {"accumulate"}
       PROVE  RowTypeOK'
  <2>1. order' \in Orders
    BY <1>12 DEF Sort, Ranked
  <2>2. order' \in [Indices -> Tokens]
    BY <2>1 DEF Orders, Indices
  <2> QED
    BY <1>0, <1>12, <2>2 DEF Sort
<1>13. CASE BeginRanking
  <2>1. Least(InitialWidth, VocabSize) \in 0 .. VocabSize
    BY <1>0 DEF Least
  <2> QED
    BY <1>12, <1>13, <2>1 DEF BeginRanking
<1>14. CASE Accumulate
  <2>1. order[retained + 1] \in Tokens
    BY <1>0, <1>14 DEF Accumulate, Indices
  <2>2. cumulative' \in Nat \union {NaN}
    BY <1>14, <2>1 DEF Accumulate
  <2>3. retained' \in 0 .. width
    BY <1>14 DEF Accumulate
  <2> QED
    BY <1>14, <2>2, <2>3 DEF Accumulate
<1>15. CASE Widen
  <2>1. Wider \in 0 .. VocabSize
    BY <1>0 DEF Wider, Least
  <2> QED
    BY <1>12, <1>15, <2>1 DEF Widen
<1>16. CASE NothingRetained
  BY <1>16, EmptySeq DEF NothingRetained
<1>17. CASE Truncate
  <2>1. cumulative \in Nat
    BY <1>17 DEF Truncate, Greater
  <2> QED
    BY <1>17, <2>1, EmptySeq DEF Truncate
<1>18. CASE Summarize
  <2>1. next \in Tokens
    BY <1>18, <1>0 DEF Summarize, Tokens
  <2>2. Insert(top, next) \in Seq(Tokens)
    BY <1>18, <2>1, TopTyped, InsertRight DEF Summarize
  <2> QED
    BY <1>18, <2>2 DEF Summarize
<1>19. CASE SummaryDone
  BY <1>19, TopTyped DEF SummaryDone
<1>20. CASE Return
  <2>1. Blank \in [Tokens -> Score] /\ Blank \in [Tokens -> Nat \union {NaN}]
    BY DEF Blank, Score
  <2>2. NoOrder \in [Indices -> Tokens]
    BY TokensNatural DEF NoOrder, Indices, Tokens
  <2> QED
    BY <1>0, <1>20, <2>1, <2>2, EmptySeq DEF Return
<1> QED
  BY <1>1, <1>2, <1>3, <1>4, <1>5, <1>6, <1>8, <1>9, <1>10, <1>11, <1>13, <1>14, <1>15,
     <1>16, <1>17, <1>18, <1>19, <1>20 DEF RowNext

LEMMA MarksKept ==
  ASSUME RowTypeOK, MarksRight, PenaltyUnderWay, RowNext
  PROVE  MarksRight'
<1> USE DEF MarksRight, arguments, nucleus
<1>0. /\ Len(history) \in Nat /\ DOMAIN history = 1 .. Len(history)
      /\ Len(text) \in Nat /\ DOMAIN text = 1 .. Len(text)
  BY LenProperties DEF RowTypeOK
<1>1. CASE Begin
  <2>1. seen' = {} /\ Occurring(history') = {} /\ DOMAIN history' = {}
    BY <1>1 DEF Begin, Occurring
  <2>2. text' \in Seq(Int) /\ Len(text') \in Nat /\ next' = 1
    BY <1>1, DecisionAssumption, LenProperties DEF Begin
  <2> QED
    BY <1>1, <2>1, <2>2 DEF Begin
<1>2. CASE RecordToken
  <2>1. next \in 1 .. Len(text) /\ next' = next + 1 /\ text' = text /\ step' = "history"
    BY <1>2, <1>0 DEF RecordToken, PenaltyUnderWay, RowTypeOK
  <2>2. {text[i] : i \in 1 .. next} = {text[i] : i \in 1 .. next - 1} \union {text[next]}
    BY <2>1
  <2>3. CASE text[next] \in Tokens \ seen
    <3>1. history' = Append(history, text[next]) /\ seen' = seen \union {text[next]}
      BY <1>2, <2>3 DEF RecordToken
    <3>2. /\ Len(history') = Len(history) + 1 /\ DOMAIN history' = 1 .. Len(history) + 1
          /\ \A i \in 1 .. Len(history) : history'[i] = history[i]
          /\ history'[Len(history) + 1] = text[next]
      BY <1>0, <2>3, <3>1, AppendProperties, LenProperties DEF RowTypeOK
    <3>3. Occurring(history') = Occurring(history) \union {text[next]}
      BY <1>0, <3>2 DEF Occurring
    <3>4. \A i \in DOMAIN history : history[i] # text[next]
      BY <2>3 DEF Occurring
    <3>5. \A i, j \in DOMAIN history' : history'[i] = history'[j] => i = j
      BY <1>0, <3>2, <3>4
    <3> QED
      BY <1>2, <2>1, <2>2, <2>3, <3>1, <3>3, <3>5 DEF RecordToken
  <2>4. CASE text[next] \notin Tokens \ seen
    <3>1. history' = history /\ seen' = seen
      BY <1>2, <2>4 DEF RecordToken
    <3>2. {text[i] : i \in 1 .. next} \intersect Tokens = Occurring(history)
      BY <1>2, <2>2, <2>4 DEF RecordToken
    <3> QED
      BY <1>2, <2>1, <3>1, <3>2 DEF RecordToken
  <2> QED
    BY <2>3, <2>4
<1>3. CASE HistoryBuilt
  <2>1. next - 1 = Len(text)
    BY <1>0, <1>3 DEF HistoryBuilt, RowTypeOK
  <2>2. Occurring(text) = {text[i] : i \in 1 .. next - 1}
    BY <1>0, <2>1 DEF Occurring
  <2> QED
    BY <1>3, <2>2 DEF HistoryBuilt
<1>4. CASE Penalise \/ RowFilled
  BY <1>4 DEF Penalise, RowFilled
<1>5. CASE Argmax \/ Normalise \/ KeepAll \/ Accumulate \/ NothingRetained \/ Truncate
           \/ Summarize \/ SummaryDone \/ Return
  BY <1>5 DEF Argmax, Normalise, KeepAll, Accumulate, NothingRetained, Truncate,
              Summarize, SummaryDone, Return
<1>6. CASE PeakReturns \/ SharpReturns
  BY <1>6 DEF PeakReturns, SharpReturns, OnlyToken
<1>7. CASE BeginRanking \/ Widen
  BY <1>7 DEF BeginRanking, Widen, Sort
<1> QED
  BY <1>1, <1>2, <1>3, <1>4, <1>5, <1>6, <1>7 DEF RowNext

LEMMA PenaltyKept ==
  ASSUME RowTypeOK, MarksRight, PenaltyUnderWay, PenaltyOnce, RowNext
  PROVE  PenaltyUnderWay' /\ PenaltyOnce'
<1> USE DEF PenaltyUnderWay, PenaltyOnce, arguments, nucleus
<1>0. /\ Len(history) \in Nat /\ DOMAIN history = 1 .. Len(history)
      /\ \A i \in 1 .. Len(history) : history[i] \in Tokens
  BY LenProperties, ElementOfSeq DEF RowTypeOK
<1>1. CASE Begin
  BY <1>1 DEF Begin, MarksRight
<1>2. CASE RecordToken
  BY <1>2 DEF RecordToken, RowTypeOK
<1>3. CASE HistoryBuilt
  <2>1. row' = [t \in Tokens |-> IF \E i \in 1 .. 0 : history[i] = t
                                 THEN Penalised(logits[t]) ELSE logits[t]]
    BY <1>3 DEF HistoryBuilt, RowTypeOK
  <2> QED
    BY <1>0, <1>3, <2>1 DEF HistoryBuilt
<1>4. CASE Penalise
  <2>1. next \in 1 .. Len(history) /\ history[next] \in Tokens
    BY <1>0, <1>4 DEF Penalise, RowTypeOK
  <2>2. ~ \E i \in 1 .. next - 1 : history[i] = history[next]
    BY <1>0, <2>1 DEF MarksRight
  <2>3. row[history[next]] = logits[history[next]]
    BY <1>4, <2>1, <2>2 DEF Penalise
  <2>4. row' = [row EXCEPT ![history[next]] = Penalised(logits[history[next]])]
    BY <1>4, <2>3 DEF Penalise
  <2>5. ASSUME NEW t \in Tokens
        PROVE  row'[t] = IF \E i \in 1 .. next : history[i] = t
                         THEN Penalised(logits[t]) ELSE logits[t]
    <3>1. CASE t = history[next]
      BY <2>1, <2>4, <3>1 DEF RowTypeOK
    <3>2. CASE t # history[next]
      <4>1. row'[t] = row[t]
        BY <2>4, <3>2 DEF RowTypeOK
      <4>2. (\E i \in 1 .. next : history[i] = t) <=> (\E i \in 1 .. next - 1 : history[i] = t)
        BY <2>1, <3>2
      <4> QED
        BY <1>4, <4>1, <4>2 DEF Penalise
    <3> QED
      BY <3>1, <3>2
  <2>6. row' = [t \in Tokens |-> IF \E i \in 1 .. next : history[i] = t
                                 THEN Penalised(logits[t]) ELSE logits[t]]
    <3>1. row' \in [Tokens -> {row'[t] : t \in Tokens}]
      BY <2>4 DEF RowTypeOK
    <3> QED
      BY <2>5, <3>1
  <2>7. /\ next' = next + 1 /\ next' - 1 = next /\ next' <= Len(history) + 1 /\ next' >= 1
        /\ step' = "penalty" /\ history' = history /\ logits' = logits
    BY <1>4, <2>1 DEF Penalise
  <2> QED
    BY <2>6, <2>7
<1>5. CASE RowFilled
  <2>1. next - 1 = Len(history)
    BY <1>0, <1>5 DEF RowFilled, RowTypeOK
  <2>2. \A t \in Tokens : t \in Occurring(text) <=> \E i \in 1 .. next - 1 : history[i] = t
    <3>1. Occurring(history) = Occurring(text) \intersect Tokens
      BY <1>5 DEF RowFilled, MarksRight
    <3> QED
      BY <1>0, <2>1, <3>1 DEF Occurring
  <2>3. row = [t \in Tokens |-> IF t \in Occurring(text) THEN Penalised(logits[t]) ELSE logits[t]]
    BY <1>5, <2>2 DEF RowFilled
  <2> QED
    BY <1>5, <2>3 DEF RowFilled
<1>6. CASE Argmax \/ Normalise \/ KeepAll \/ Accumulate \/ NothingRetained \/ Truncate
           \/ Summarize \/ SummaryDone \/ Return
  BY <1>6 DEF Argmax, Normalise, KeepAll, Accumulate, NothingRetained, Truncate,
              Summarize, SummaryDone, Return
<1>7. CASE PeakReturns \/ SharpReturns
  BY <1>7 DEF PeakReturns, SharpReturns, OnlyToken
<1>8. CASE BeginRanking \/ Widen
  BY <1>8 DEF BeginRanking, Widen, Sort
<1> QED
  BY <1>1, <1>2, <1>3, <1>4, <1>5, <1>6, <1>7, <1>8 DEF RowNext

------------------------------------------------------------------------------
(* Ranking *)

LEMMA SumSingle ==
  ASSUME NEW f \in [Tokens -> Nat], NEW u \in Tokens, \A t \in Tokens : t # u => f[t] = 0
  PROVE  Sum(f) = f[u]
<1> DEFINE zero == [t \in Tokens |-> 0]
<1>1. zero \in [Tokens -> Nat] /\ \A t \in Tokens : zero[t] = 0
  OBVIOUS
<1> HIDE DEF zero
<1>2. Sum(zero) = 0
  BY <1>1, SumZero
<1>3. f[u] \in Nat /\ f[u] = zero[u] + f[u]
  BY <1>1
<1>4. Sum(f) = Sum(zero) + f[u]
  BY <1>1, <1>3, SumRaised
<1> QED
  BY <1>2, <1>3, <1>4

\* A sum is at least each of its summands.
LEMMA SumAtLeast ==
  ASSUME NEW f \in [Tokens -> Nat], NEW u \in Tokens
  PROVE  f[u] <= Sum(f)
<1> DEFINE g == [t \in Tokens |-> IF t = u THEN f[u] ELSE 0]
<1>1. /\ g \in [Tokens -> Nat] /\ g[u] = f[u]
      /\ \A t \in Tokens : (t # u => g[t] = 0) /\ g[t] <= f[t]
  OBVIOUS
<1> HIDE DEF g
<1>2. Sum(g) = f[u] /\ Sum(g) <= Sum(f)
  BY <1>1, SumSingle, SumGrows
<1> QED
  BY <1>2

LEMMA ProductGrows ==
  ASSUME NEW a \in Nat, NEW b \in Nat, NEW c \in Nat
  PROVE  /\ a * c \in Nat /\ c * a \in Nat
         /\ a <= b => c * a <= c * b
         /\ a < b /\ c > 0 => a * c < b * c
<1>1. a * c \in Nat /\ c * a \in Nat
  OBVIOUS
<1>2. ASSUME a <= b  PROVE c * a <= c * b
  <2>1. b - a \in Nat /\ c * b = c * a + c * (b - a) /\ c * (b - a) \in Nat
    BY <1>2
  <2> QED
    BY <1>1, <2>1
<1>3. ASSUME a < b, c > 0  PROVE a * c < b * c
  <2>1. b - a \in Nat \ {0} /\ b * c = a * c + (b - a) * c /\ (b - a) * c \in Nat \ {0}
    BY <1>3
  <2> QED
    BY <1>1, <2>1
<1> QED
  BY <1>1, <1>2, <1>3

\* What the row determines stays with it.
LEMMA RowUnchanged ==
  ASSUME row' = row
  PROVE  /\ Maximum' = Maximum /\ NoNaN' = NoNaN /\ Weighed' = Weighed
         /\ \A t : Exp(t)' = Exp(t)
         /\ \A S : Share(S)' = Share(S)
<1>1. Maximum' = Maximum /\ NoNaN' = NoNaN
  BY Zenon DEF Maximum, NoNaN
<1>2. \A t : Exp(t)' = Exp(t)
  BY <1>1, Zenon DEF Exp
<1>3. Weighed' = Weighed
  BY <1>2 DEF Weighed
<1>4. \A S : Share(S)' = Share(S)
  BY <1>2 DEF Share
<1> QED
  BY <1>1, <1>2, <1>3, <1>4

\* A row of numbers: every token has a weight, and the likeliest the largest.
LEMMA RowOfNumbers ==
  ASSUME row \in [Tokens -> Score], NoNaN
  PROVE  /\ Weighed \in [Tokens -> Nat] /\ Numbers(Weighed) = Tokens
         /\ \A t \in Tokens : /\ row[t] # NaN /\ Weighed[t] = Exp(t) /\ Exp(t) \in Nat
                              /\ Exp(t) <= Weight(0)
         /\ Maximum \in Tokens /\ Exp(Maximum) = Weight(0)
         /\ Sum(Weighed) \in Nat /\ Weight(0) <= Sum(Weighed) /\ Share(Tokens) = Sum(Weighed)
<1>1. Numbers(row) = Tokens /\ Numbers(row) # {} /\ \A t \in Tokens : row[t] # NaN
  BY TokensNatural DEF NoNaN, Numbers
<1>2. /\ Weighed \in [Tokens -> Nat \union {NaN}] /\ Numbers(Weighed) = Tokens
      /\ \A t \in Tokens : Weighed[t] = Exp(t) /\ Exp(t) \in Nat /\ Exp(t) <= Weight(0)
  BY <1>1, WeighedRight, MaximumWeighs
<1>3. Weighed \in [Tokens -> Nat]
  BY <1>2
<1>4. Maximum \in Tokens /\ Exp(Maximum) = Weight(0)
  BY <1>1, MaximumWeighs
<1>5. Sum(Weighed) \in Nat /\ Weight(0) <= Sum(Weighed)
  BY <1>2, <1>3, <1>4, SumTyped, SumAtLeast
<1>6. [t \in Tokens |-> IF t \in Tokens THEN Exp(t) ELSE 0] = Weighed
  BY <1>2, <1>3
<1> QED
  BY <1>1, <1>2, <1>3, <1>4, <1>5, <1>6 DEF Share

\* The largest weight belongs to a token of the largest score.
LEMMA LikeliestWeight ==
  ASSUME row \in [Tokens -> Score], values = Weighed, row[0] # NaN
  PROVE  /\ MaxElement(values) \in Tokens /\ row[MaxElement(values)] # NaN
         /\ values[MaxElement(values)] = Weight(0) /\ Exp(MaxElement(values)) = Weight(0)
<1> DEFINE m == MaxElement(values)
<1>1. 0 \in Numbers(row) /\ 0 \in Tokens
  BY TokensNatural DEF Numbers
<1>2. /\ values \in [Tokens -> Nat \union {NaN}] /\ values \in [Tokens -> Score]
      /\ Numbers(values) = Numbers(row)
      /\ \A t \in Tokens : row[t] # NaN => values[t] = Exp(t)
  BY WeighedRight DEF Score
<1>3. values[0] # NaN
  BY <1>1, <1>2 DEF Numbers
<1>4. m \in Tokens /\ values[m] # NaN /\ \A u \in Tokens : values[u] # NaN => values[u] <= values[m]
  BY <1>2, <1>3, MaxElementRight
<1>5. m \in Numbers(row) /\ row[m] # NaN
  BY <1>2, <1>4 DEF Numbers
<1>6. /\ Maximum \in Tokens /\ row[Maximum] # NaN /\ Exp(Maximum) = Weight(0)
      /\ Exp(m) \in Nat /\ Exp(m) <= Weight(0)
  BY <1>1, <1>4, <1>5, MaximumWeighs
<1>7. values[Maximum] = Weight(0) /\ values[m] = Exp(m) /\ values[Maximum] # NaN
  BY <1>2, <1>4, <1>5, <1>6, WeightFalls, DecisionAssumption
<1>8. Weight(0) <= values[m]
  BY <1>4, <1>6, <1>7
<1> QED
  BY <1>4, <1>5, <1>6, <1>7, <1>8, WeightFalls

\* Behind the second short cut either there is no NaN, or the row begins with one.
LEMMA NotSharp ==
  ASSUME RowTypeOK, RankingUnderWay, step = "cut", topP < 100, ~Sharp
  PROVE  NoNaN \/ row[0] = NaN
<1> SUFFICES ASSUME ~NoNaN, row[0] # NaN  PROVE FALSE
  OBVIOUS
<1>1. values = Weighed /\ mass = Weight(0)
  BY DEF RankingUnderWay
<1>2. values[MaxElement(values)] = Weight(0)
  BY <1>1, LikeliestWeight DEF RowTypeOK
<1>3. Weight(0) \in Nat \ {0} /\ topP \in Nat
  BY WeightFalls DEF RowTypeOK
<1>4. topP * Weight(0) < 100 * Weight(0)
  BY <1>3, ProductGrows
<1>5. Greater(Weight(0), 0)
  BY <1>3, DecisionAssumption DEF Greater
<1>6. topP * Weight(0) \in Int /\ 100 * Weight(0) > topP * Weight(0)
  BY <1>3, <1>4
<1> QED
  BY <1>1, <1>2, <1>5, <1>6 DEF Sharp

\* Sorting further ranks a longer front, and nothing is counted yet.
LEMMA SortRanks ==
  ASSUME RowTypeOK, NoNaN, values = Weighed, NEW from \in 0 .. VocabSize,
         NEW to \in 1 .. VocabSize, Sort(from, to), from = 0 \/ (from = width /\ FrontRanked)
  PROVE  FrontRanked' /\ cumulative' = Sum(Counted')
<1> USE DEF Indices
<1>0. VocabSize \in Nat \ {0} /\ values \in [Tokens -> Nat] /\ Numbers(values) = Tokens
      /\ values \in [Tokens -> Score] /\ values' = values
  BY TokensNatural, RowOfNumbers DEF RowTypeOK, Sort, Score
<1> DEFINE o == order'
<1>1. o \in Ranked(order, from, to) /\ width' = to /\ retained' = 0 /\ cumulative' = 0
  BY DEF Sort
<1>2. /\ o \in Orders /\ o \in [Indices -> Tokens]
      /\ \A i, j \in Indices : o[i] = o[j] => i = j
  BY <1>1 DEF Ranked, Orders
<1> DEFINE old(k) == k \in 1 .. from
\* The old front was ranked.
<1>3. ASSUME from # 0
      PROVE  /\ \A i, j \in Indices : order[i] = order[j] => i = j
             /\ \A t \in Tokens : \E i \in Indices : order[i] = t
             /\ \A k \in 1 .. from, m \in Indices : k < m => Better(values, order[k], order[m])
             /\ \A k \in Indices : order[k] \in Tokens
  BY <1>3 DEF FrontRanked, Orders, RowTypeOK
\* Of the old front nothing is left behind.
<1>4. ASSUME NEW k \in 1 .. from, NEW j \in Indices,
             \A m \in 1 .. from : \A i \in Indices : order[m] = o[i] => i < j
      PROVE  Better(values, order[k], o[j])
  <2>1. from # 0 /\ k \in Indices /\ o[j] \in Tokens
    BY <1>0, <1>2, <1>4
  <2>2. PICK m \in Indices : order[m] = o[j]
    BY <1>3, <2>1
  <2>3. m \notin 1 .. from
    BY <1>4, <2>2
  <2> QED
    BY <1>3, <1>4, <2>1, <2>2, <2>3
<1>5. ASSUME NEW i \in 1 .. to, NEW j \in Indices, i < j
      PROVE  Better(values, o[i], o[j])
  <2>1. i \in Indices /\ 1 .. from \subseteq Indices /\ 1 .. to \subseteq Indices
    BY <1>0
  <2>2. CASE to < VocabSize
    <3>1. /\ \A k \in 1 .. from : \E m \in 1 .. to : o[m] = order[k]
          /\ \A k, m \in 1 .. to : k < m => Better(values, o[k], o[m])
          /\ \A k \in 1 .. to, m \in to + 1 .. VocabSize :
               (\E n \in 1 .. from : order[n] = o[k]) \/ Better(values, o[k], o[m])
      BY <1>0, <1>1, <2>2 DEF Ranked
    <3>2. CASE j \in 1 .. to
      BY <1>5, <3>1, <3>2
    <3>3. CASE j \in to + 1 .. VocabSize
      <4>1. ASSUME NEW k \in 1 .. from, order[k] = o[i]  PROVE Better(values, o[i], o[j])
        <5>1. ASSUME NEW m \in 1 .. from, NEW n \in Indices, order[m] = o[n]  PROVE n < j
          <6>1. PICK n1 \in 1 .. to : o[n1] = order[m]
            BY <3>1
          <6>2. n1 \in Indices /\ n = n1
            BY <1>2, <2>1, <5>1, <6>1
          <6> QED
            BY <3>3, <6>2
        <5> QED
          BY <1>4, <4>1, <5>1
      <4> QED
        BY <3>1, <3>3, <4>1
    <3> QED
      BY <1>0, <3>2, <3>3
  <2>3. CASE ~(to < VocabSize)
    <3>1. /\ \A k \in 1 .. from : o[k] = order[k]
          /\ \A k, m \in from + 1 .. VocabSize : k < m => Better(values, o[k], o[m])
      BY <1>0, <1>1, <2>3 DEF Ranked
    <3>2. CASE i \in 1 .. from
      <4>1. CASE j \in 1 .. from
        <5>1. from # 0 /\ o[i] = order[i] /\ o[j] = order[j]
          BY <3>1, <3>2, <4>1
        <5> QED
          BY <1>3, <1>5, <3>2, <5>1
      <4>2. CASE j \notin 1 .. from
        <5>1. ASSUME NEW m \in 1 .. from, NEW n \in Indices, order[m] = o[n]  PROVE n < j
          <6>1. m \in Indices /\ o[m] = o[n]
            BY <2>1, <3>1, <5>1
          <6>2. m = n
            BY <1>2, <6>1
          <6> QED
            BY <4>2, <6>2
        <5> QED
          BY <1>4, <3>1, <3>2, <5>1
      <4> QED
        BY <4>1, <4>2
    <3>3. CASE i \notin 1 .. from
      <4>1. i \in from + 1 .. VocabSize /\ j \in from + 1 .. VocabSize
        BY <1>0, <1>5, <3>3
      <4> QED
        BY <1>5, <3>1, <4>1
    <3> QED
      BY <3>2, <3>3
  <2> QED
    BY <2>2, <2>3
<1>6. FrontRanked'
  BY <1>0, <1>1, <1>2, <1>5 DEF FrontRanked
<1>7. cumulative' = Sum(Counted')
  <2>1. Counted' \in [Tokens -> Nat] /\ \A t \in Tokens : Counted'[t] = 0
    BY <1>1 DEF Counted
  <2> QED
    BY <1>1, <2>1, SumZero
<1> QED
  BY <1>6, <1>7

\* Counting the next token raises the sum of those counted by its weight.
LEMMA AccumulateCounts ==
  ASSUME RowTypeOK, RankingUnderWay, NoNaN, Accumulate
  PROVE  /\ FrontRanked' /\ cumulative' = Sum(Counted')
         /\ retained' > 0 /\ 100 * (cumulative' - values'[order'[retained']]) < topP' * mass'
<1> USE DEF Indices, nucleus, arguments
<1>1. /\ step = "accumulate" /\ values = Weighed /\ FrontRanked /\ cumulative = Sum(Counted)
      /\ mass = Sum(values)
  BY DEF RankingUnderWay, Accumulate
<1>2. /\ VocabSize \in Nat \ {0} /\ values \in [Tokens -> Nat] /\ Counted \in [Tokens -> Nat]
      /\ cumulative \in Nat /\ mass \in Nat /\ topP \in Nat \ {0} /\ Weight(0) <= mass
      /\ NaN \notin Nat
  <2>1. values \in [Tokens -> Nat] /\ Weight(0) <= mass
    BY <1>1, RowOfNumbers DEF RowTypeOK
  <2>2. Counted \in [Tokens -> Nat]
    BY <2>1 DEF Counted
  <2> QED
    BY <1>1, <2>1, <2>2, SumTyped, TokensNatural, DecisionAssumption DEF RowTypeOK
<1> DEFINE u == order[retained + 1]
<1>3. retained \in Nat /\ retained + 1 \in Indices /\ u \in Tokens /\ values[u] \in Nat
  BY <1>2 DEF Accumulate, RowTypeOK
<1>4. /\ cumulative' = cumulative + values[u] /\ retained' = retained + 1
      /\ UNCHANGED <<values, mass, topP, order, width>>
  <2>1. cumulative # NaN /\ values[u] # NaN
    BY <1>2, <1>3
  <2> QED
    BY <2>1 DEF Accumulate
<1>5. Counted' \in [Tokens -> Nat] /\ Counted[u] = 0 /\ Counted'[u] = Counted[u] + values[u]
      /\ \A t \in Tokens : t # u => Counted'[t] = Counted[t]
  <2>1. \A i \in 1 .. retained : i \in Indices /\ i # retained + 1
    BY <1>2, <1>3
  <2>2. ~ \E i \in 1 .. retained : order[i] = u
    BY <1>1, <1>3, <2>1 DEF FrontRanked, Orders
  <2>3. Counted[u] = 0
    BY <1>3, <2>2 DEF Counted
  <2>4. Counted' = [t \in Tokens |-> IF \E i \in 1 .. retained + 1 : order[i] = t
                                     THEN values[t] ELSE 0]
    BY <1>4 DEF Counted
  <2>5. \E i \in 1 .. retained + 1 : order[i] = u
    BY <1>3
  <2>6. \A t \in Tokens : t # u =>
          ((\E i \in 1 .. retained + 1 : order[i] = t) <=> \E i \in 1 .. retained : order[i] = t)
    BY <1>3
  <2>7. Counted'[u] = values[u]
    BY <1>3, <2>4, <2>5
  <2>8. \A t \in Tokens : t # u => Counted'[t] = Counted[t]
    BY <2>4, <2>6 DEF Counted
  <2> QED
    BY <1>2, <1>3, <2>3, <2>4, <2>7, <2>8
<1>6. cumulative' = Sum(Counted')
  <2> HIDE DEF u
  <2>1. Sum(Counted') = Sum(Counted) + values[u]
    BY <1>2, <1>3, <1>5, SumRaised
  <2> QED
    BY <1>1, <1>4, <2>1
<1>7. FrontRanked'
  BY <1>1, <1>4 DEF FrontRanked
<1>8. 100 * cumulative < topP * mass
  <2>1. topP * mass \in Nat
    BY <1>2
  <2>2. CASE retained = 0
    <3>1. \A t \in Tokens : Counted[t] = 0
      BY <2>2 DEF Counted
    <3>2. cumulative = 0
      BY <1>1, <1>2, <3>1, SumZero
    <3>3. 0 * mass < topP * mass
      BY <1>2, WeightFalls, ProductGrows
    <3> QED
      BY <1>2, <3>2, <3>3
  <2>3. CASE retained # 0
    <3>1. ~(100 * cumulative >= topP * mass)
      BY <1>2, <2>3 DEF Accumulate, Reached
    <3> QED
      BY <1>2, <2>1, <3>1
  <2> QED
    BY <2>2, <2>3
<1>9. cumulative' - values'[order'[retained']] = cumulative
  BY <1>2, <1>3, <1>4
<1> QED
  BY <1>3, <1>4, <1>6, <1>7, <1>8, <1>9

LEMMA RankingKept ==
  ASSUME RowTypeOK, RankingUnderWay, RowNext
  PROVE  RankingUnderWay'
<1> USE DEF arguments, nucleus
<1>1. CASE Begin \/ RecordToken \/ HistoryBuilt \/ Penalise \/ RowFilled \/ Argmax \/ SummaryDone
           \/ Return
  BY <1>1 DEF Begin, RecordToken, HistoryBuilt, Penalise, RowFilled, Argmax, SummaryDone,
              Return, RankingUnderWay, RowTypeOK
<1>2. CASE PeakReturns \/ SharpReturns \/ KeepAll \/ NothingRetained \/ Truncate \/ Summarize
  <2>1. step' = "summary" /\ step \in {"softmax", "cut", "accumulate", "summary"} /\ mode' = mode
    BY <1>2 DEF PeakReturns, SharpReturns, OnlyToken, KeepAll, NothingRetained, Truncate,
                Summarize
  <2> QED
    BY <2>1 DEF RankingUnderWay
<1>3. CASE Normalise
  <2>1. /\ step' = "cut" /\ step = "softmax" /\ mode' = mode /\ row' = row /\ values' = Weighed
        /\ mass' = IF NoNaN THEN Sum(values') ELSE Weight(0)
    BY <1>3 DEF Normalise, Weighed, NoNaN
  <2>2. Weighed' = Weighed /\ NoNaN' = NoNaN
    BY <2>1, RowUnchanged
  <2> QED
    BY <2>1, <2>2 DEF RankingUnderWay
<1>4. CASE BeginRanking
  <2> DEFINE to == Least(InitialWidth, VocabSize)
  <2>1. /\ step' = "accumulate" /\ step = "cut" /\ topP < 100 /\ ~Sharp /\ Sort(0, to)
    BY <1>4 DEF BeginRanking
  <2>2. to \in 1 .. VocabSize /\ 0 \in 0 .. VocabSize
    BY TokensNatural, DecisionAssumption DEF Least
  <2> HIDE DEF to
  <2>3. /\ UNCHANGED <<mode, topP, row, values, mass>> /\ width' = to /\ retained' = 0
    BY <2>1 DEF Sort
  <2>4. Weighed' = Weighed /\ NoNaN' = NoNaN
    BY <2>3, RowUnchanged
  <2>5. /\ mode = "pbd" /\ values = Weighed
        /\ mass = IF NoNaN THEN Sum(values) ELSE Weight(0)
    BY <2>1 DEF RankingUnderWay
  <2>6. NoNaN \/ row[0] = NaN
    BY <2>1, NotSharp
  <2>7. NoNaN => FrontRanked' /\ cumulative' = Sum(Counted')
    BY <2>1, <2>2, <2>5, SortRanks
  <2> QED
    BY <2>1, <2>2, <2>3, <2>4, <2>5, <2>6, <2>7 DEF RankingUnderWay
<1>5. CASE Accumulate
  <2>1. /\ step' = "accumulate" /\ step = "accumulate"
        /\ UNCHANGED <<mode, topP, row, values, mass, width>>
    BY <1>5 DEF Accumulate
  <2>2. Weighed' = Weighed /\ NoNaN' = NoNaN
    BY <2>1, RowUnchanged
  <2>3. /\ mode = "pbd" /\ values = Weighed
        /\ mass = (IF NoNaN THEN Sum(values) ELSE Weight(0))
        /\ topP < 100 /\ width >= 1 /\ (NoNaN \/ row[0] = NaN)
    BY <2>1 DEF RankingUnderWay
  <2>4. NoNaN => /\ FrontRanked' /\ cumulative' = Sum(Counted')
                 /\ 100 * (cumulative' - values'[order'[retained']]) < topP' * mass'
    BY <1>5, AccumulateCounts
  <2> QED
    BY <2>1, <2>2, <2>3, <2>4 DEF RankingUnderWay
<1>6. CASE Widen
  <2>1. step' = "accumulate" /\ step = "accumulate" /\ Sort(width, Wider)
    BY <1>6 DEF Widen
  <2>2. Wider \in 1 .. VocabSize /\ width \in 0 .. VocabSize
    BY <2>1, TokensNatural, DecisionAssumption DEF Wider, Least, RankingUnderWay, RowTypeOK
  <2>3. /\ UNCHANGED <<mode, topP, row, values, mass>> /\ width' = Wider /\ retained' = 0
    BY <2>1 DEF Sort
  <2>4. Weighed' = Weighed /\ NoNaN' = NoNaN
    BY <2>3, RowUnchanged
  <2>5. /\ mode = "pbd" /\ values = Weighed
        /\ mass = (IF NoNaN THEN Sum(values) ELSE Weight(0))
        /\ topP < 100 /\ (NoNaN \/ row[0] = NaN) /\ (NoNaN => FrontRanked)
    BY <2>1 DEF RankingUnderWay
  <2>6. NoNaN => FrontRanked' /\ cumulative' = Sum(Counted')
    BY <2>1, <2>2, <2>5, SortRanks
  <2> QED
    BY <2>1, <2>2, <2>3, <2>4, <2>5, <2>6 DEF RankingUnderWay
<1> QED
  BY <1>1, <1>2, <1>3, <1>4, <1>5, <1>6 DEF RowNext

\* What makes NucleusExact true behind a step that fills the summary's values.
LEMMA NucleusNext ==
  ASSUME row \in [Tokens -> Score], UNCHANGED <<row, topP>>, NEW K, K \subseteq Tokens, K # {},
         NoNaN =>
           /\ \A t \in Tokens : values'[t] > 0 <=> t \in K
           /\ \A t \in K, u \in Tokens \ K : Exp(u) <= Exp(t)
           /\ mass' = Sum(values')
           /\ 100 * Share(K) >= topP * Share(Tokens)
           /\ topP < 100 => \A t \in K : 100 * (Share(K) - Exp(t)) < topP * Share(Tokens)
  PROVE  NucleusExact'
<1>1. /\ NoNaN' = NoNaN /\ topP' = topP
      /\ \A t : Exp(t)' = Exp(t)
      /\ \A S : Share(S)' = Share(S)
  BY RowUnchanged
<1>2. ASSUME NoNaN  PROVE Kept' = K
  BY <1>2 DEF Kept
<1>3. KeepsLikeliest'
  <2> SUFFICES ASSUME NoNaN, NEW t \in Kept', NEW u \in Tokens \ Kept'
               PROVE  Exp(u)' <= Exp(t)'
    BY <1>1 DEF KeepsLikeliest, Filtered
  <2> QED
    BY <1>1, <1>2
<1>4. NucleusSmallest'
  <2> SUFFICES ASSUME NoNaN
               PROVE  /\ Kept' # {} /\ mass' = Sum(values')
                      /\ 100 * Share(K) >= topP * Share(Tokens)
                      /\ topP < 100 =>
                           \A t \in K : 100 * (Share(K) - Exp(t)) < topP * Share(Tokens)
    BY <1>1, <1>2 DEF NucleusSmallest, Filtered
  <2> QED
    BY <1>2
<1> QED
  BY <1>3, <1>4 DEF NucleusExact

\* A single token is a nucleus if it is the likeliest and reaches top_p alone.
LEMMA OnlyNucleus ==
  ASSUME RowTypeOK, NEW u \in Tokens, OnlyToken(u),
         NoNaN => Exp(u) = Weight(0) /\ 100 * Weight(0) > topP * Sum(Weighed)
  PROVE  NucleusExact'
<1> USE DEF arguments
<1>1. /\ UNCHANGED <<row, topP>> /\ mass' = 1 /\ row \in [Tokens -> Score]
      /\ topP \in Nat \ {0}
      /\ values' = [t \in Tokens |-> IF t = u THEN 1 ELSE 0]
  BY DEF OnlyToken, RowTypeOK
<1>2. Sum(values') = 1
  <2>1. values' \in [Tokens -> Nat] /\ values'[u] = 1 /\ \A t \in Tokens : t # u => values'[t] = 0
    BY <1>1
  <2> QED
    BY <2>1, SumSingle
<1>3. ASSUME NoNaN
      PROVE  /\ \A t \in Tokens : Exp(t) \in Nat /\ Exp(t) <= Exp(u)
             /\ Exp(u) = Weight(0) /\ Weight(0) \in Nat \ {0}
             /\ Share({u}) = Exp(u) /\ Share(Tokens) = Sum(Weighed) /\ Sum(Weighed) \in Nat
             /\ Weight(0) <= Sum(Weighed)
  <2>1. /\ \A t \in Tokens : Exp(t) \in Nat /\ Exp(t) <= Exp(u)
        /\ Exp(u) = Weight(0) /\ Weight(0) \in Nat \ {0}
        /\ Share(Tokens) = Sum(Weighed) /\ Sum(Weighed) \in Nat /\ Weight(0) <= Sum(Weighed)
    BY <1>1, <1>3, RowOfNumbers, WeightFalls
  <2> DEFINE f == [t \in Tokens |-> IF t \in {u} THEN Exp(t) ELSE 0]
  <2>2. f \in [Tokens -> Nat] /\ f[u] = Exp(u) /\ \A t \in Tokens : t # u => f[t] = 0
    BY <2>1
  <2>3. Share({u}) = Sum(f)
    BY DEF Share
  <2> HIDE DEF f
  <2> QED
    BY <2>1, <2>2, <2>3, SumSingle
<1>4. ASSUME NoNaN
      PROVE  /\ 100 * Share({u}) >= topP * Share(Tokens)
             /\ 100 * (Share({u}) - Exp(u)) < topP * Share(Tokens)
  <2>1. topP * Sum(Weighed) \in Nat /\ 0 * Sum(Weighed) < topP * Sum(Weighed)
    BY <1>1, <1>3, <1>4, ProductGrows
  <2>2. 100 * Weight(0) > topP * Sum(Weighed)
    BY <1>4
  <2> QED
    BY <1>3, <1>4, <2>1, <2>2
<1>5. \A t \in Tokens : values'[t] > 0 <=> t \in {u}
  BY <1>1
<1>6. NoNaN =>
        /\ \A t \in {u}, v \in Tokens \ {u} : Exp(v) <= Exp(t)
        /\ mass' = Sum(values')
        /\ 100 * Share({u}) >= topP * Share(Tokens)
        /\ topP < 100 => \A t \in {u} : 100 * (Share({u}) - Exp(t)) < topP * Share(Tokens)
  BY <1>1, <1>2, <1>3, <1>4
<1> QED
  BY <1>1, <1>5, <1>6, NucleusNext

\* The first short cut: all others together weigh no more than its bound.
LEMMA PeakIsNucleus ==
  ASSUME RowTypeOK, PeakReturns
  PROVE  NucleusExact'
<1>1. /\ topP < 100 /\ Numbers(row) # {} /\ Numbers(row) # {Maximum} /\ OnlyToken(Maximum)
      /\ 100 * Weight(0) > topP * (Weight(0) + (VocabSize - 1) * Exp(Second))
  BY DEF PeakReturns, Peaked
<1>2. Maximum \in Tokens /\ Exp(Maximum) = Weight(0)
  BY <1>1, MaximumWeighs DEF RowTypeOK
<1>3. ASSUME NoNaN  PROVE 100 * Weight(0) > topP * Sum(Weighed)
  <2>1. /\ Weighed \in [Tokens -> Nat] /\ Sum(Weighed) \in Nat /\ Numbers(row) = Tokens
        /\ \A t \in Tokens : Weighed[t] = Exp(t) /\ Exp(t) \in Nat /\ row[t] # NaN
    BY <1>3, RowOfNumbers DEF RowTypeOK, NoNaN
  <2> DEFINE others == Numbers(row) \ {Maximum}
  <2>2. others # {} /\ others \in SUBSET Numbers(row) /\ others = Tokens \ {Maximum}
    BY <1>1, <1>2, <2>1
  <2>3. Second \in others /\ \A t \in others : t = Second \/ Better(row, Second, t)
    BY <2>2, FirstIsBest DEF Second, RowTypeOK
  <2>4. Second \in Tokens /\ Exp(Second) \in Nat
    BY <2>1, <2>2, <2>3
  <2>5. \A t \in Tokens : t # Maximum => Exp(t) <= Exp(Second)
    <3> SUFFICES ASSUME NEW t \in Tokens, t # Maximum  PROVE Exp(t) <= Exp(Second)
      OBVIOUS
    <3>1. CASE t = Second
      BY <2>4, <3>1
    <3>2. CASE Better(row, Second, t)
      <4>1. row[t] <= row[Second]
        BY <2>4, <3>2, BetterOrders DEF RowTypeOK
      <4> QED
        BY <1>1, <2>1, <2>4, <4>1, MaximumWeighs DEF RowTypeOK
    <3> QED
      BY <2>2, <2>3, <3>1, <3>2
  <2>6. Sum(Weighed) <= Weight(0) + (VocabSize - 1) * Exp(Second)
    <3>1. Weighed[Maximum] = Weight(0) /\ \A t \in Tokens : t # Maximum => Weighed[t] <= Exp(Second)
      BY <1>2, <2>1, <2>5
    <3> QED
      BY <1>2, <2>1, <2>4, <3>1, SumBounded
  <2> DEFINE bound == Weight(0) + (VocabSize - 1) * Exp(Second)
  <2>7. bound \in Nat
    <3>1. VocabSize - 1 \in Nat /\ Weight(0) \in Nat
      BY TokensNatural, WeightFalls
    <3>2. (VocabSize - 1) * Exp(Second) \in Nat
      BY <2>4, <3>1, ProductGrows
    <3> QED
      BY <3>1, <3>2
  <2>8. topP \in Nat /\ 100 * Weight(0) > topP * bound /\ Weight(0) \in Nat
    BY <1>1, WeightFalls DEF RowTypeOK
  <2>9. Sum(Weighed) <= bound
    BY <2>6
  <2> HIDE DEF bound
  <2>10. topP * Sum(Weighed) <= topP * bound /\ topP * Sum(Weighed) \in Nat /\ topP * bound \in Nat
    BY <2>1, <2>7, <2>8, <2>9, ProductGrows
  <2> QED
    BY <2>8, <2>10
<1> QED
  BY <1>1, <1>2, <1>3, OnlyNucleus

\* The second short cut: the largest probability exceeds top_p.
LEMMA SharpIsNucleus ==
  ASSUME RowTypeOK, RankingUnderWay, SharpReturns
  PROVE  NucleusExact'
<1> DEFINE m == MaxElement(values)
<1>1. /\ step = "cut" /\ OnlyToken(m) /\ Greater(values[m], 0)
      /\ 100 * values[m] > topP * mass
  BY DEF SharpReturns, Sharp
<1>2. values = Weighed /\ mass = IF NoNaN THEN Sum(values) ELSE Weight(0)
  BY <1>1 DEF RankingUnderWay
<1>3. m \in Tokens
  BY MaxElementRight DEF RowTypeOK, Score
<1>4. ASSUME NoNaN  PROVE Exp(m) = Weight(0) /\ values[m] = Weight(0)
  <2>1. row[0] # NaN
    BY <1>4, TokensNatural, RowOfNumbers DEF RowTypeOK
  <2> QED
    BY <1>2, <2>1, LikeliestWeight DEF RowTypeOK
<1> HIDE DEF m
<1> QED
  BY <1>1, <1>2, <1>3, <1>4, OnlyNucleus

LEMMA AllIsNucleus ==
  ASSUME RowTypeOK, RankingUnderWay, KeepAll
  PROVE  NucleusExact'
<1>1. /\ step = "cut" /\ topP = 100 /\ UNCHANGED <<row, topP, values, mass>>
  BY DEF KeepAll, arguments
<1>2. values = Weighed /\ (NoNaN => mass = Sum(values))
  BY <1>1 DEF RankingUnderWay
<1> DEFINE K == IF NoNaN THEN {t \in Tokens : Exp(t) > 0} ELSE Tokens
<1>3. K \subseteq Tokens /\ K # {}
  <2>1. CASE NoNaN
    <3>1. Maximum \in Tokens /\ Exp(Maximum) = Weight(0)
      BY <2>1, RowOfNumbers DEF RowTypeOK
    <3>2. Exp(Maximum) > 0
      BY <3>1, WeightFalls
    <3> QED
      BY <2>1, <3>1, <3>2
  <2>2. CASE ~NoNaN
    BY <2>2, TokensNatural
  <2> QED
    BY <2>1, <2>2
<1>4. ASSUME NoNaN
      PROVE  /\ \A t \in Tokens : values'[t] > 0 <=> t \in K
             /\ \A t \in K, u \in Tokens \ K : Exp(u) <= Exp(t)
             /\ Share(K) = Share(Tokens) /\ Share(Tokens) \in Nat
  <2>1. /\ \A t \in Tokens : Weighed[t] = Exp(t) /\ Exp(t) \in Nat
        /\ Share(Tokens) \in Nat
    BY <1>4, RowOfNumbers DEF RowTypeOK
  <2>2. K = {t \in Tokens : Exp(t) > 0}
    BY <1>4
  <2> HIDE DEF K
  <2>3. [t \in Tokens |-> IF t \in K THEN Exp(t) ELSE 0]
          = [t \in Tokens |-> IF t \in Tokens THEN Exp(t) ELSE 0]
    BY <2>1, <2>2
  <2> QED
    BY <1>1, <1>2, <2>1, <2>2, <2>3 DEF Share
<1> HIDE DEF K
<1>5. NoNaN =>
        /\ \A t \in Tokens : values'[t] > 0 <=> t \in K
        /\ \A t \in K, u \in Tokens \ K : Exp(u) <= Exp(t)
        /\ mass' = Sum(values')
        /\ 100 * Share(K) >= topP * Share(Tokens)
        /\ topP < 100 => \A t \in K : 100 * (Share(K) - Exp(t)) < topP * Share(Tokens)
  BY <1>1, <1>2, <1>4
<1>6. row \in [Tokens -> Score] /\ UNCHANGED <<row, topP>>
  BY <1>1 DEF RowTypeOK
<1> QED
  BY <1>3, <1>5, <1>6, NucleusNext

\* Where the search ends in a row of numbers, the counted tokens weigh something
\* and the values become their weights.
LEMMA TruncateCounts ==
  ASSUME RowTypeOK, RankingUnderWay, NoNaN, step = "accumulate"
  PROVE  /\ values = Weighed /\ FrontRanked /\ values \in [Tokens -> Nat]
         /\ Counted \in [Tokens -> Nat] /\ cumulative = Sum(Counted) /\ cumulative \in Nat
         /\ mass = Share(Tokens) /\ mass \in Nat /\ topP \in 1 .. 99
         /\ retained > 0 => values[order[1]] = Weight(0) /\ Counted[order[1]] = Weight(0)
                            /\ order[1] \in Tokens
         /\ retained = VocabSize => Counted = Weighed
<1>1. /\ values = Weighed /\ FrontRanked /\ cumulative = Sum(Counted) /\ mass = Sum(values)
      /\ topP < 100
  BY DEF RankingUnderWay
<1>2. /\ values \in [Tokens -> Nat] /\ mass = Share(Tokens) /\ mass \in Nat
      /\ Maximum \in Tokens /\ values[Maximum] = Weight(0)
      /\ \A t \in Tokens : values[t] <= Weight(0) /\ values[t] \in Nat
  BY <1>1, RowOfNumbers DEF RowTypeOK
<1>3. Counted \in [Tokens -> Nat] /\ cumulative \in Nat
  <2>1. Counted \in [Tokens -> Nat]
    BY <1>2 DEF Counted
  <2> QED
    BY <1>1, <2>1, SumTyped
<1>4. ASSUME retained > 0
      PROVE  values[order[1]] = Weight(0) /\ Counted[order[1]] = Weight(0) /\ order[1] \in Tokens
  <2>1. 1 \in 1 .. width /\ 1 \in 1 .. retained /\ 1 \in Indices /\ order[1] \in Tokens
    BY <1>4, TokensNatural DEF RowTypeOK, Indices
  <2>2. PICK j \in Indices : order[j] = Maximum
    BY <1>1, <1>2 DEF FrontRanked, Orders, Indices
  <2>3. values[order[1]] >= Weight(0)
    <3>1. CASE j = 1
      BY <1>2, <2>1, <2>2, <3>1, WeightFalls
    <3>2. CASE j # 1
      <4>1. Better(values, order[1], Maximum)
        BY <1>1, <2>1, <2>2, <3>2 DEF FrontRanked, Indices
      <4> QED
        BY <1>2, <2>1, <4>1, BetterOrders, WeightFalls DEF Score
    <3> QED
      BY <3>1, <3>2
  <2>4. values[order[1]] = Weight(0)
    BY <1>2, <2>1, <2>3, WeightFalls
  <2>5. Counted[order[1]] = values[order[1]]
    BY <2>1 DEF Counted
  <2> QED
    BY <2>1, <2>4, <2>5
<1>5. ASSUME retained = VocabSize  PROVE Counted = Weighed
  <2>1. \A t \in Tokens : \E i \in 1 .. retained : order[i] = t
    BY <1>1, <1>5 DEF FrontRanked, Orders
  <2>2. \A t \in Tokens : Counted[t] = Weighed[t]
    BY <1>1, <2>1 DEF Counted
  <2> QED
    BY <1>1, <1>2, <1>3, <2>2
<1> QED
  BY <1>1, <1>2, <1>3, <1>4, <1>5 DEF RowTypeOK

LEMMA TruncateIsNucleus ==
  ASSUME RowTypeOK, RankingUnderWay, Truncate
  PROVE  NucleusExact'
<1>1. /\ step = "accumulate" /\ retained > 0 /\ (Reached \/ retained = VocabSize)
      /\ UNCHANGED <<row, topP>> /\ mass' = cumulative
      /\ values' = Counted
  BY DEF Truncate, arguments, Counted
<1> DEFINE K == IF NoNaN THEN {t \in Tokens : Counted[t] > 0} ELSE Tokens
<1>2. ASSUME NoNaN
      PROVE  /\ K = {t \in Tokens : Counted[t] > 0}
             /\ K # {} /\ \A t \in Tokens : values'[t] > 0 <=> t \in K
             /\ mass' = Sum(values') /\ Share(K) = cumulative
             /\ \A t \in K, u \in Tokens \ K : Exp(u) <= Exp(t)
             /\ 100 * Share(K) >= topP * Share(Tokens)
             /\ \A t \in K : 100 * (Share(K) - Exp(t)) < topP * Share(Tokens)
  <2>1. K = {t \in Tokens : Counted[t] > 0}
    BY <1>2
  <2> HIDE DEF K
  <2>2. /\ values = Weighed /\ FrontRanked /\ values \in [Tokens -> Nat]
        /\ Counted \in [Tokens -> Nat] /\ cumulative = Sum(Counted) /\ cumulative \in Nat
        /\ mass = Share(Tokens) /\ mass \in Nat /\ topP \in 1 .. 99
        /\ Counted[order[1]] = Weight(0) /\ order[1] \in Tokens
        /\ retained = VocabSize => Counted = Weighed
    BY <1>1, <1>2, TruncateCounts
  <2>3. K # {}
    BY <2>1, <2>2, WeightFalls
  <2>4. \A t \in Tokens : values[t] = Exp(t) /\ Exp(t) \in Nat
    BY <1>2, <2>2, RowOfNumbers DEF RowTypeOK
  <2>5. Share(K) = cumulative
    <3>1. [t \in Tokens |-> IF t \in K THEN Exp(t) ELSE 0] = Counted
      <4>1. \A t \in Tokens : Counted[t] = IF t \in K THEN Exp(t) ELSE 0
        <5>1. \A t \in Tokens : Counted[t] = Exp(t) \/ Counted[t] = 0
          BY <2>4 DEF Counted
        <5> QED
          BY <2>1, <2>2, <5>1
      <4> QED
        BY <2>2, <4>1
    <3> QED
      BY <2>2, <3>1 DEF Share
  <2>6. ASSUME NEW t \in K, NEW u \in Tokens \ K  PROVE Exp(u) <= Exp(t)
    <3>1. PICK i \in 1 .. retained : order[i] = t
      BY <2>1, <2>6 DEF Counted
    <3>2. CASE \E j \in 1 .. retained : order[j] = u
      <4>1. Counted[u] = Exp(u) /\ ~(Counted[u] > 0)
        BY <2>1, <2>4, <2>6, <3>2 DEF Counted
      <4> QED
        BY <2>1, <2>4, <2>6, <4>1
    <3>3. CASE ~ \E j \in 1 .. retained : order[j] = u
      <4>1. PICK j \in Indices : order[j] = u
        BY <2>2, <2>6 DEF FrontRanked, Orders, Indices
      <4>2. i \in 1 .. width /\ i < j
        BY <3>1, <3>3, <4>1, TokensNatural DEF RowTypeOK, Indices
      <4>3. Better(values, t, u)
        BY <2>2, <3>1, <4>1, <4>2 DEF FrontRanked
      <4>4. values[u] <= values[t]
        BY <2>1, <2>2, <2>6, <4>3, BetterOrders DEF Score
      <4> QED
        BY <2>1, <2>4, <2>6, <4>4
    <3> QED
      BY <3>2, <3>3
  <2>7. topP * mass \in Nat
    BY <2>2
  <2>8. 100 * cumulative >= topP * mass
    <3>1. CASE Reached
      BY <3>1 DEF Reached
    <3>2. CASE retained = VocabSize
      <4>1. cumulative = mass
        BY <1>2, <2>2, <3>2, RowOfNumbers DEF RowTypeOK
      <4> QED
        BY <2>2, <4>1, ProductGrows
    <3> QED
      BY <1>1, <3>1, <3>2
  <2> DEFINE last == order[retained]
  <2>9. 100 * (cumulative - values[last]) < topP * mass
    BY <1>1, <1>2 DEF RankingUnderWay
  <2>10. last \in Tokens /\ Counted[last] = values[last]
    <3>1. retained \in Indices /\ retained \in 1 .. retained
      BY <1>1, TokensNatural DEF RowTypeOK, Indices
    <3> QED
      BY <3>1 DEF Counted, RowTypeOK
  \* The last token counted has the least weight of all that are kept.
  <2>11. ASSUME NEW t \in K  PROVE 100 * (cumulative - Exp(t)) < topP * mass
    <3>1. PICK i \in 1 .. retained : order[i] = t
      BY <2>1, <2>11 DEF Counted
    <3>2. t \in Tokens /\ (t = last \/ Better(values, t, last))
      <4>1. i \in 1 .. width /\ retained \in Indices /\ (i = retained \/ i < retained)
        BY <1>1, <3>1, TokensNatural DEF RowTypeOK, Indices
      <4> QED
        BY <2>1, <2>2, <2>11, <3>1, <4>1 DEF FrontRanked
    <3>3. values[last] <= values[t]
      BY <2>2, <2>10, <3>2, BetterOrders DEF Score
    <3>4. values[last] \in Nat /\ Exp(t) \in Nat /\ values[last] <= Exp(t)
      BY <2>2, <2>4, <2>10, <3>2, <3>3
    <3> QED
      BY <2>2, <2>7, <2>9, <3>4
  <2> QED
    BY <1>1, <2>1, <2>2, <2>3, <2>4, <2>5, <2>6, <2>8, <2>9, <2>10, <2>11
<1>3. K \subseteq Tokens /\ K # {}
  <2>1. CASE NoNaN
    BY <1>2, <2>1
  <2>2. CASE ~NoNaN
    BY <2>2, TokensNatural
  <2> QED
    BY <2>1, <2>2
<1> HIDE DEF K
<1> QED
  BY <1>1, <1>2, <1>3, NucleusNext DEF RowTypeOK

\* A row of numbers always retains something.
LEMMA NothingOnlyNaN ==
  ASSUME RowTypeOK, RankingUnderWay, NothingRetained
  PROVE  ~NoNaN /\ row[0] = NaN
<1>1. step = "accumulate" /\ retained = VocabSize /\ ~Greater(cumulative, 0)
  BY DEF NothingRetained
<1>2. ASSUME NoNaN  PROVE FALSE
  <2>1. retained > 0
    BY <1>1, TokensNatural
  <2>2. /\ Counted \in [Tokens -> Nat] /\ cumulative = Sum(Counted) /\ cumulative \in Nat
        /\ order[1] \in Tokens /\ Counted[order[1]] = Weight(0)
    BY <1>1, <1>2, <2>1, TruncateCounts
  <2>3. Weight(0) <= cumulative
    BY <2>2, SumAtLeast
  <2> QED
    BY <1>1, <2>2, <2>3, WeightFalls, DecisionAssumption DEF Greater
<1> QED
  BY <1>1, <1>2 DEF RankingUnderWay

LEMMA NucleusKept ==
  ASSUME RowTypeOK, RankingUnderWay, NucleusExact, RowNext
  PROVE  NucleusExact'
<1>1. CASE step' # "summary"
  BY <1>1 DEF NucleusExact, KeepsLikeliest, NucleusSmallest, Filtered
<1>2. CASE NothingRetained
  <2>1. NoNaN' = NoNaN /\ ~NoNaN
    BY <1>2, NothingOnlyNaN, RowUnchanged DEF NothingRetained
  <2> QED
    BY <2>1 DEF NucleusExact, KeepsLikeliest, NucleusSmallest, Filtered
<1>3. CASE Summarize
  <2>1. UNCHANGED <<row, topP, values, mass, step>>
    BY <1>3 DEF Summarize, arguments
  <2>2. NoNaN' = NoNaN /\ \A t : Exp(t)' = Exp(t) /\ \A S : Share(S)' = Share(S)
    BY <2>1, RowUnchanged
  <2>3. Kept' = Kept /\ Filtered' = Filtered
    BY <2>1, <2>2 DEF Kept, Filtered
  <2>4. KeepsLikeliest' = KeepsLikeliest
    BY <2>2, <2>3 DEF KeepsLikeliest
  <2>5. NucleusSmallest' = NucleusSmallest
    BY <2>1, <2>2, <2>3 DEF NucleusSmallest
  <2> QED
    BY <2>4, <2>5 DEF NucleusExact
<1>4. RowNext /\ step' = "summary" =>
        PeakReturns \/ KeepAll \/ SharpReturns \/ NothingRetained \/ Truncate \/ Summarize
  BY DEF RowNext, Begin, RecordToken, HistoryBuilt, Penalise, RowFilled, Argmax, Normalise,
         BeginRanking, Accumulate, Widen, SummaryDone, Return
<1> QED
  BY <1>1, <1>2, <1>3, <1>4, PeakIsNucleus, AllIsNucleus, SharpIsNucleus, TruncateIsNucleus

LEMMA HeadKept ==
  ASSUME RowTypeOK, RankingUnderWay, HeadRight, RowNext
  PROVE  HeadRight'
<1> USE DEF arguments, nucleus
\* A single token has the only value that is not zero.
<1>1. ASSUME NEW u \in Tokens, OnlyToken(u), topP' = topP,
             row[0] # NaN => row[u] # NaN /\ Exp(u) = Weight(0)
      PROVE  HeadRight'
  <2>1. row' = row /\ values' = [t \in Tokens |-> IF t = u THEN 1 ELSE 0]
    BY <1>1 DEF OnlyToken
  <2>2. \A t : Exp(t)' = Exp(t)
    BY <2>1, RowUnchanged
  <2>3. Numbers(values') = Tokens
    BY <2>1, DecisionAssumption DEF Numbers
  <2>4. ASSUME NEW t \in Tokens, values'[u] <= values'[t]  PROVE t = u
    BY <2>1, <2>4
  <2> QED
    BY <1>1, <2>1, <2>2, <2>3, <2>4 DEF HeadRight, Undisturbed
<1>2. CASE PeakReturns
  <2>1. Maximum \in Tokens /\ row[Maximum] # NaN /\ Exp(Maximum) = Weight(0)
        /\ OnlyToken(Maximum) /\ topP' = topP
    BY <1>2, MaximumWeighs DEF PeakReturns, Peaked, RowTypeOK, OnlyToken
  <2> QED
    BY <1>1, <2>1
<1>3. CASE SharpReturns
  <2>1. values = Weighed /\ OnlyToken(MaxElement(values)) /\ topP' = topP
    BY <1>3 DEF SharpReturns, OnlyToken, RankingUnderWay
  <2>2. MaxElement(values) \in Tokens
    BY MaxElementRight DEF RowTypeOK, Score
  <2>3. row[0] # NaN => row[MaxElement(values)] # NaN /\ Exp(MaxElement(values)) = Weight(0)
    BY <2>1, LikeliestWeight DEF RowTypeOK
  <2> QED
    BY <1>1, <2>1, <2>2, <2>3
<1>4. CASE KeepAll
  <2>1. /\ UNCHANGED <<row, topP, values>> /\ topP = 100 /\ values = Weighed
    BY <1>4 DEF KeepAll, RankingUnderWay
  <2>2. NoNaN' = NoNaN /\ \A t : Exp(t)' = Exp(t)
    BY <2>1, RowUnchanged
  <2> SUFFICES ASSUME NoNaN
               PROVE  /\ Numbers(values) = Tokens
                      /\ \A t \in Tokens : (\A u \in Tokens : values[u] <= values[t]) =>
                           row[t] # NaN /\ Exp(t) = Weight(0)
    BY <2>1, <2>2 DEF HeadRight, Undisturbed
  <2>3. /\ Numbers(values) = Tokens /\ Maximum \in Tokens /\ values[Maximum] = Weight(0)
        /\ \A t \in Tokens : row[t] # NaN /\ values[t] = Exp(t) /\ Exp(t) \in Nat
                             /\ Exp(t) <= Weight(0)
    BY <2>1, RowOfNumbers DEF RowTypeOK
  <2>4. ASSUME NEW t \in Tokens, \A u \in Tokens : values[u] <= values[t]
        PROVE  Exp(t) = Weight(0)
    <3>1. values[Maximum] <= values[t]
      BY <2>3, <2>4
    <3> QED
      BY <2>3, <3>1, WeightFalls
  <2> QED
    BY <2>3, <2>4
<1>5. CASE NothingRetained
  <2>1. row' = row /\ row[0] = NaN
    BY <1>5, NothingOnlyNaN DEF NothingRetained
  <2> QED
    BY <2>1 DEF HeadRight, Undisturbed
<1>6. CASE Truncate
  <2>1. /\ UNCHANGED <<row, topP>> /\ step = "accumulate" /\ retained > 0
        /\ values' = Counted
    BY <1>6 DEF Truncate, Counted
  <2>2. NoNaN' = NoNaN /\ \A t : Exp(t)' = Exp(t)
    BY <2>1, RowUnchanged
  <2>3. NoNaN \/ row[0] = NaN
    BY <2>1 DEF RankingUnderWay
  <2> SUFFICES ASSUME NoNaN
               PROVE  /\ Numbers(Counted) = Tokens
                      /\ \A t \in Tokens : (\A u \in Tokens : Counted[u] <= Counted[t]) =>
                           row[t] # NaN /\ Exp(t) = Weight(0)
    BY <2>1, <2>2, <2>3 DEF HeadRight, Undisturbed
  <2>4. /\ values = Weighed /\ Counted \in [Tokens -> Nat]
        /\ order[1] \in Tokens /\ Counted[order[1]] = Weight(0)
    BY <2>1, TruncateCounts
  <2>5. /\ \A t \in Tokens : row[t] # NaN /\ values[t] = Exp(t) /\ Exp(t) \in Nat
                             /\ Exp(t) <= Weight(0)
    BY <2>4, RowOfNumbers DEF RowTypeOK
  <2>6. ASSUME NEW t \in Tokens, \A u \in Tokens : Counted[u] <= Counted[t]
        PROVE  Exp(t) = Weight(0)
    <3>1. Weight(0) <= Counted[t]
      BY <2>4, <2>6
    <3>2. Counted[t] = Exp(t) \/ Counted[t] = 0
      BY <2>5 DEF Counted
    <3> QED
      BY <2>5, <3>1, <3>2, WeightFalls
  <2>7. Numbers(Counted) = Tokens
    BY <2>4, DecisionAssumption DEF Numbers
  <2> QED
    BY <2>5, <2>6, <2>7
<1>7. CASE Summarize
  <2>1. UNCHANGED <<row, topP, values, step>>
    BY <1>7 DEF Summarize
  <2>2. NoNaN' = NoNaN /\ \A t : Exp(t)' = Exp(t)
    BY <2>1, RowUnchanged
  <2> QED
    BY <2>1, <2>2 DEF HeadRight, Undisturbed
<1>8. CASE step' # "summary"
  BY <1>8 DEF HeadRight
<1>9. RowNext /\ step' = "summary" =>
        PeakReturns \/ KeepAll \/ SharpReturns \/ NothingRetained \/ Truncate \/ Summarize
  BY DEF RowNext, Begin, RecordToken, HistoryBuilt, Penalise, RowFilled, Argmax, Normalise,
         BeginRanking, Accumulate, Widen, SummaryDone, Return
<1> QED
  BY <1>2, <1>3, <1>4, <1>5, <1>6, <1>7, <1>8, <1>9

\* A token that comes next keeps the list ranked and pushes out only the last.
LEMMA SummarizeRanks ==
  ASSUME RowTypeOK, SummaryUnderWay, step = "summary", next < VocabSize,
         Numbers(values) = Tokens
  PROVE  LET new == Insert(top, next)
         IN  /\ \A i, j \in DOMAIN new : i < j => Better(values, new[i], new[j])
             /\ \A t \in 0 .. next : t \in Occurring(new) \/
                  \A i \in DOMAIN new : Better(values, new[i], t)
             /\ Len(top) < TopCount => Occurring(new) = 0 .. next
<1> DEFINE new == Insert(top, next)
           n == Len(top)
<1>1. /\ n \in Nat /\ n <= TopCount /\ TopCount \in 1 .. VocabSize /\ DOMAIN top = 1 .. n
      /\ \A i \in 1 .. n : top[i] \in Tokens
  BY TopTyped, LenProperties, DecisionAssumption DEF RowTypeOK
<1>2. /\ next \in Tokens /\ next \in Nat /\ 0 .. next = (0 .. next - 1) \union {next}
      /\ 0 .. next - 1 \subseteq Tokens
  BY TokensNatural DEF RowTypeOK, Tokens
<1>3. next \notin Occurring(top)
  BY <1>2 DEF SummaryUnderWay
<1>4. /\ \A i, j \in 1 .. n : i < j => Better(values, top[i], top[j])
      /\ \A t \in 0 .. next - 1 : t \in Occurring(top) \/ \A i \in 1 .. n : Better(values, top[i], t)
      /\ n < TopCount => Occurring(top) = 0 .. next - 1
  BY <1>1 DEF SummaryUnderWay, TopIsBest
<1>5. values \in [Tokens -> Nat \union {NaN}] /\ values \in [Tokens -> Score]
      /\ top \in Seq(Tokens)
  BY DEF RowTypeOK, Score
<1>6. CASE n < TopCount
  <2>1. new = Rise(top, next)
    BY <1>6, Zenon DEF Insert
  <2>2. /\ \A i, j \in DOMAIN new : i < j => Better(values, new[i], new[j])
        /\ Occurring(new) = Occurring(top) \union {next}
    BY <1>1, <1>2, <1>3, <1>4, <1>5, <2>1, RiseRight
  <2> HIDE DEF new
  <2> QED
    BY <1>2, <1>4, <1>6, <2>2 DEF new
<1>7. CASE ~(n < TopCount) /\ Better(values, next, top[TopCount])
  <2> DEFINE front == SubSeq(top, 1, TopCount - 1)
             last == top[TopCount]
  <2>0. n = TopCount /\ last \in Tokens /\ TopCount \in 1 .. n
    <3>1. ~(n < TopCount)
      BY <1>7
    <3>2. n \in Nat /\ n <= TopCount /\ TopCount \in Nat /\ TopCount >= 1
      BY <1>1, TokensNatural
    <3>3. n = TopCount /\ TopCount \in 1 .. n
      BY <3>1, <3>2
    <3> QED
      BY <1>1, <3>3 DEF last
  <2>1. /\ front \in Seq(Tokens) /\ Len(front) = TopCount - 1
        /\ DOMAIN front = 1 .. TopCount - 1
        /\ \A i \in 1 .. TopCount - 1 : front[i] = top[i]
    BY <1>1, <2>0, SubSeqProperties, LenProperties
  <2>2. new = Rise(front, next)
    BY <1>7, Zenon DEF Insert
  <2> HIDE DEF front, new, last
  <2>3. Occurring(front) \subseteq Occurring(top)
        /\ Occurring(top) \subseteq Occurring(front) \union {last}
    <3>1. \A i \in 1 .. n : i \in 1 .. TopCount - 1 \/ i = TopCount
      BY <2>0
    <3> QED
      BY <1>1, <2>0, <2>1, <3>1 DEF Occurring, last
  <2>4. \A i, j \in DOMAIN front : i < j => Better(values, front[i], front[j])
    <3>1. \A i \in 1 .. TopCount - 1 : i \in 1 .. n
      BY <2>0
    <3> QED
      BY <1>4, <2>1, <3>1
  <2>5. /\ \A i, j \in DOMAIN new : i < j => Better(values, new[i], new[j])
        /\ Occurring(new) = Occurring(front) \union {next}
    <3>1. next \notin Occurring(front)
      BY <1>3, <2>3
    <3> QED
      BY <1>2, <1>5, <2>1, <2>2, <2>4, <3>1, RiseRight
  \* Whatever is worse than the last of the list, or is that last, is worse than the new list.
  <2>6. \A i \in DOMAIN front : Better(values, front[i], last) /\ front[i] \in Tokens
    <3>1. \A i \in 1 .. TopCount - 1 : i \in 1 .. n /\ i < TopCount
      BY <2>0
    <3> QED
      BY <1>1, <1>4, <2>0, <2>1, <3>1 DEF last
  <2>7. Better(values, next, last)
    BY <1>7 DEF last
  <2>8. ASSUME NEW t \in Tokens, t = last \/ Better(values, last, t), NEW i \in DOMAIN new
        PROVE  Better(values, new[i], t)
    <3>1. new[i] \in Occurring(front) \union {next}
      BY <2>5 DEF Occurring
    <3>2. Better(values, new[i], last) /\ new[i] \in Tokens
      BY <1>2, <2>6, <2>7, <3>1 DEF Occurring
    <3> QED
      BY <1>5, <2>0, <2>8, <3>2, BetterOrders
  <2>9. ASSUME NEW t \in 0 .. next
        PROVE  t \in Occurring(new) \/ \A i \in DOMAIN new : Better(values, new[i], t)
    <3>1. CASE t = next
      BY <2>5, <3>1
    <3>2. CASE t \in Occurring(front)
      BY <2>5, <3>2
    <3>3. CASE t # next /\ t \notin Occurring(front)
      <4>1. t \in 0 .. next - 1 /\ t \in Tokens
        BY <1>2, <3>3
      <4>2. t = last \/ Better(values, last, t)
        BY <1>4, <2>0, <2>3, <3>3, <4>1 DEF last
      <4> QED
        BY <2>8, <4>1, <4>2
    <3> QED
      BY <3>1, <3>2, <3>3
  <2> QED
    BY <1>7, <2>5, <2>9 DEF new
<1>8. CASE ~(n < TopCount) /\ ~Better(values, next, top[TopCount])
  <2>1. new = top
    BY <1>8, Zenon DEF Insert
  <2>2. TopCount \in 1 .. n /\ n = TopCount /\ top[TopCount] \in Tokens
    <3>1. ~(n < TopCount)
      BY <1>8
    <3>2. n \in Nat /\ n <= TopCount /\ TopCount \in Nat /\ TopCount >= 1
      BY <1>1, TokensNatural
    <3>3. n = TopCount /\ TopCount \in 1 .. n
      BY <3>1, <3>2
    <3> QED
      BY <1>1, <3>3
  <2>3. Better(values, top[TopCount], next)
    <3>1. top[TopCount] # next
      BY <1>1, <1>3, <2>2 DEF Occurring
    <3> QED
      BY <1>2, <1>5, <1>8, <2>2, <3>1, BetterOrders
  <2>4. \A i \in 1 .. n : Better(values, top[i], next)
    <3> SUFFICES ASSUME NEW i \in 1 .. n  PROVE Better(values, top[i], next)
      OBVIOUS
    <3>1. CASE i = TopCount
      BY <2>3, <3>1
    <3>2. CASE i # TopCount
      <4>1. Better(values, top[i], top[TopCount])
        BY <1>4, <2>2, <3>2
      <4> QED
        BY <1>1, <1>2, <1>5, <2>2, <2>3, <4>1, BetterOrders
    <3> QED
      BY <3>1, <3>2
  <2> HIDE DEF new
  <2>5. \A t \in 0 .. next : t \in Occurring(new) \/ \A i \in DOMAIN new : Better(values, new[i], t)
    BY <1>1, <1>2, <1>4, <2>1, <2>4
  <2>6. \A i, j \in DOMAIN new : i < j => Better(values, new[i], new[j])
    BY <1>1, <1>4, <2>1
  <2> QED
    BY <1>8, <2>5, <2>6 DEF new
<1> QED
  BY <1>6, <1>7, <1>8

LEMMA SummaryKept ==
  ASSUME RowTypeOK, SummaryUnderWay, RowNext
  PROVE  SummaryUnderWay'
<1> USE DEF arguments, nucleus
<1>1. CASE PeakReturns \/ KeepAll \/ SharpReturns \/ NothingRetained \/ Truncate
  <2>1. next' = 0 /\ top' = <<>>
    BY <1>1 DEF PeakReturns, SharpReturns, OnlyToken, KeepAll, NothingRetained, Truncate
  <2>2. Len(top') = 0 /\ DOMAIN top' = {} /\ Occurring(top') = {}
    BY <2>1 DEF Occurring
  <2>3. TopCount \in Nat \ {0} /\ Least(0, TopCount) = 0 /\ VocabSize \in Nat
    BY DecisionAssumption DEF Least
  <2> QED
    BY <2>1, <2>2, <2>3 DEF SummaryUnderWay, TopIsBest
<1>2. CASE Summarize
  <2>1. /\ step = "summary" /\ step' = "summary" /\ next < VocabSize /\ next' = next + 1
        /\ values' = values /\ top' = Insert(top, next)
    BY <1>2 DEF Summarize
  <2>2. next \in Tokens /\ next \in Nat /\ next' - 1 = next /\ next' <= VocabSize
        /\ 0 .. next = (0 .. next - 1) \union {next}
    BY <2>1, TokensNatural DEF RowTypeOK, Tokens
  <2>3. /\ top' \in Seq(Tokens) /\ Len(top') = Least(Len(top) + 1, TopCount)
        /\ Occurring(top') \subseteq Occurring(top) \union {next}
        /\ Len(top) = Least(next, TopCount)
    BY <2>1, <2>2, TopTyped, InsertRight DEF RowTypeOK
  <2>4. Len(top') = Least(next', TopCount)
    BY <2>1, <2>2, <2>3, DecisionAssumption DEF Least
  <2>5. Occurring(top') \subseteq 0 .. next
    BY <2>1, <2>2, <2>3 DEF SummaryUnderWay
  <2>6. Numbers(values) = Tokens => TopIsBest'
    BY <2>1, <2>2, <2>4, SummarizeRanks DEF TopIsBest
  <2>7. Len(top') < TopCount => Occurring(top') = 0 .. next
    <3>1. ASSUME Len(top') < TopCount  PROVE Len(top) < TopCount
      BY <2>2, <2>3, <3>1, DecisionAssumption DEF Least
    <3>2. ASSUME Len(top) < TopCount  PROVE Occurring(top') = 0 .. next
      <4>1. Insert(top, next) = Rise(top, next)
        BY <3>2, Zenon DEF Insert
      <4>2. Occurring(top') = Occurring(top) \union {next}
        BY <2>1, <2>2, <4>1, RiseRight DEF RowTypeOK
      <4>3. Occurring(top) = 0 .. next - 1
        BY <2>1, <3>2 DEF SummaryUnderWay
      <4> QED
        BY <2>2, <4>2, <4>3
    <3> QED
      BY <3>1, <3>2
  <2>8. TopIsBest'
    BY <2>1, <2>6 DEF TopIsBest
  <2> QED
    BY <2>1, <2>2, <2>4, <2>5, <2>7, <2>8 DEF SummaryUnderWay
<1>3. CASE step' # "summary"
  BY <1>3 DEF SummaryUnderWay
<1>4. RowNext /\ step' = "summary" =>
        PeakReturns \/ KeepAll \/ SharpReturns \/ NothingRetained \/ Truncate \/ Summarize
  BY DEF RowNext, Begin, RecordToken, HistoryBuilt, Penalise, RowFilled, Argmax, Normalise,
         BeginRanking, Accumulate, Widen, SummaryDone, Return
<1> QED
  BY <1>1, <1>2, <1>3, <1>4

LEMMA LikeliestKept ==
  ASSUME RowTypeOK, RankingUnderWay, HeadRight, SummaryUnderWay, RowNext
  PROVE  LikeliestChosen'
<1> USE DEF arguments, nucleus
<1>1. CASE Argmax
  <2>1. token' = MaxElement(row) /\ row' = row
    BY <1>1 DEF Argmax
  <2>2. \A t : Exp(t)' = Exp(t)
    BY <2>1, RowUnchanged
  <2>3. ASSUME row[0] # NaN
        PROVE  row[MaxElement(row)] # NaN /\ Exp(MaxElement(row)) = Weight(0)
    <3>1. Numbers(row) # {}
      BY <2>3, TokensNatural DEF Numbers
    <3>2. /\ MaxElement(row) \in Tokens /\ row[MaxElement(row)] # NaN
          /\ \A u \in Tokens : row[u] # NaN => row[u] <= row[MaxElement(row)]
      BY <2>3, MaxElementRight DEF RowTypeOK
    <3>3. /\ Maximum \in Tokens /\ row[Maximum] # NaN /\ Exp(Maximum) = Weight(0)
          /\ Exp(MaxElement(row)) \in Nat /\ Exp(MaxElement(row)) <= Weight(0)
          /\ Exp(Maximum) <= Exp(MaxElement(row))
      BY <3>1, <3>2, MaximumWeighs DEF RowTypeOK
    <3> QED
      BY <3>2, <3>3, WeightFalls
  <2> QED
    BY <2>1, <2>2, <2>3 DEF LikeliestChosen
<1>2. CASE SummaryDone
  <2>1. /\ step = "summary" /\ next = VocabSize /\ token' = top[1]
        /\ UNCHANGED <<row, topP, mode>>
    BY <1>2 DEF SummaryDone
  <2>2. mode = "pbd" /\ NoNaN' = NoNaN /\ \A t : Exp(t)' = Exp(t)
    BY <2>1, RowUnchanged DEF RankingUnderWay
  <2>3. ASSUME Undisturbed  PROVE row[top[1]] # NaN /\ Exp(top[1]) = Weight(0)
    <3>1. Numbers(values) = Tokens
      BY <2>1, <2>3 DEF HeadRight
    <3>2. 1 \in DOMAIN top /\ DOMAIN top = 1 .. Len(top) /\ top[1] \in Tokens
      BY <2>1, TopTyped
    <3>3. ASSUME NEW t \in Tokens  PROVE t = top[1] \/ Better(values, top[1], t)
      <4>1. t \in 0 .. next - 1
        BY <2>1 DEF Tokens
      <4>2. CASE t \in Occurring(top)
        <5>1. PICK j \in DOMAIN top : top[j] = t
          BY <4>2 DEF Occurring
        <5>2. CASE j = 1
          BY <5>1, <5>2
        <5>3. CASE j # 1
          <6>1. 1 < j
            BY <3>2, <5>1, <5>3, LenProperties DEF RowTypeOK
          <6> QED
            BY <2>1, <3>1, <3>2, <5>1, <6>1 DEF SummaryUnderWay, TopIsBest
        <5> QED
          BY <5>2, <5>3
      <4>3. CASE t \notin Occurring(top)
        BY <2>1, <3>1, <3>2, <4>1, <4>3 DEF SummaryUnderWay, TopIsBest
      <4> QED
        BY <4>2, <4>3
    <3>4. values \in [Tokens -> Score] /\ \A t \in Tokens : values[t] \in Nat
      BY <3>1 DEF RowTypeOK, Numbers, Score
    <3>5. \A t \in Tokens : values[t] <= values[top[1]]
      BY <3>2, <3>3, <3>4, BetterOrders
    <3> QED
      BY <2>1, <2>3, <3>2, <3>5 DEF HeadRight
  <2> QED
    BY <2>1, <2>2, <2>3 DEF LikeliestChosen, Undisturbed
<1>3. CASE step' # "chosen"
  BY <1>3 DEF LikeliestChosen
<1>4. RowNext /\ step' = "chosen" => Argmax \/ SummaryDone
  BY DEF RowNext, Begin, RecordToken, HistoryBuilt, Penalise, RowFilled, PeakReturns, KeepAll,
         SharpReturns, OnlyToken, Normalise, BeginRanking, Accumulate, Widen, NothingRetained,
         Truncate, Summarize, Return
<1> QED
  BY <1>1, <1>2, <1>3, <1>4

LEMMA StutterKeeps ==
  ASSUME DecisionInv, UNCHANGED rowVars  PROVE DecisionInv'
<1>1. UNCHANGED <<history, seen, text, logits, mode, topP, step, next, row, values, mass, order,
                  width, retained, cumulative, top, token>>
  BY DEF rowVars, arguments, nucleus
<1>2. /\ NoNaN' = NoNaN /\ Weighed' = Weighed /\ Maximum' = Maximum
      /\ \A t : Exp(t)' = Exp(t) /\ \A S : Share(S)' = Share(S)
  BY <1>1, RowUnchanged
<1>3. Kept' = Kept /\ Filtered' = Filtered /\ Counted' = Counted /\ FrontRanked' = FrontRanked
      /\ Undisturbed' = Undisturbed /\ TopIsBest' = TopIsBest
  BY <1>1, <1>2 DEF Kept, Filtered, Counted, FrontRanked, Undisturbed, TopIsBest
<1>4. RowTypeOK' /\ MarksRight' /\ PenaltyUnderWay' /\ PenaltyOnce'
  <2>1. RowTypeOK'
    BY <1>1 DEF DecisionInv, RowTypeOK
  <2>2. MarksRight'
    <3>1. MarksRight
      BY DEF DecisionInv
    <3>2. UNCHANGED <<history, seen, text, step, next>>
      BY <1>1
    <3> QED
      BY <3>1, <3>2, Zenon DEF MarksRight
  <2>3. PenaltyUnderWay'
    BY <1>1 DEF DecisionInv, PenaltyUnderWay, Penalised
  <2>4. PenaltyOnce'
    BY <1>1 DEF DecisionInv, PenaltyOnce, Occurring, Penalised
  <2> QED
    BY <2>1, <2>2, <2>3, <2>4
<1>5. RankingUnderWay' /\ HeadRight' /\ SummaryUnderWay' /\ LikeliestChosen'
  <2>1. RankingUnderWay'
    BY <1>1, <1>2, <1>3 DEF DecisionInv, RankingUnderWay
  <2>2. HeadRight'
    BY <1>1, <1>2, <1>3 DEF DecisionInv, HeadRight
  <2>3. SummaryUnderWay'
    BY <1>1, <1>2, <1>3 DEF DecisionInv, SummaryUnderWay
  <2>4. LikeliestChosen'
    BY <1>1, <1>2, <1>3 DEF DecisionInv, LikeliestChosen
  <2> QED
    BY <2>1, <2>2, <2>3, <2>4
<1>6. NucleusExact'
  BY <1>1, <1>2, <1>3 DEF DecisionInv, NucleusExact, KeepsLikeliest, NucleusSmallest
<1> QED
  BY <1>4, <1>5, <1>6 DEF DecisionInv

LEMMA DecisionInvariance == RowSpec => []DecisionInv
<1>1. DecisionInv /\ [RowNext]_rowVars => DecisionInv'
  <2>1. CASE UNCHANGED rowVars
    BY <2>1, StutterKeeps
  <2>2. ASSUME DecisionInv, RowNext  PROVE DecisionInv'
    BY <2>2, TypeKept, MarksKept, PenaltyKept, RankingKept, NucleusKept, HeadKept, SummaryKept,
       LikeliestKept DEF DecisionInv
  <2> QED
    BY <2>1, <2>2
<1> QED
  BY <1>1, InitDecision, PTL DEF RowSpec

\* Every reachable state of the row decision is well formed.
THEOREM RowTypeCorrect == RowSpec => []RowTypeOK
<1>1. DecisionInv => RowTypeOK
  BY DEF DecisionInv
<1> QED
  BY <1>1, DecisionInvariance, PTL

\* For any vocabulary, text and thread history every repeated token is penalised
\* exactly once (decoder.cpp:475).
THEOREM PenalisesOnce == RowSpec => []PenaltyOnce
<1>1. DecisionInv => PenaltyOnce
  BY DEF DecisionInv
<1> QED
  BY <1>1, DecisionInvariance, PTL

\* Whichever short cut is taken and however often the search widens, the filter
\* keeps the fewest likeliest tokens that reach top_p, and normalises by their
\* weight (decoder.cpp:160, 186, 207).
THEOREM KeepsNucleus == RowSpec => []NucleusExact
<1>1. DecisionInv => NucleusExact
  BY DEF DecisionInv
<1> QED
  BY <1>1, DecisionInvariance, PTL

\* The summary's list is the best of the tokens seen, in order (decoder.cpp:279).
THEOREM SummaryRanks == RowSpec => []TopIsBest
<1>1. DecisionInv => TopIsBest
  BY DEF DecisionInv, SummaryUnderWay, TopIsBest
<1> QED
  BY <1>1, DecisionInvariance, PTL

\* The token chosen has the largest score, by either decoder (decoder.cpp:493).
THEOREM ChoosesLikeliest == RowSpec => []LikeliestChosen
<1>1. DecisionInv => LikeliestChosen
  BY DEF DecisionInv
<1> QED
  BY <1>1, DecisionInvariance, PTL
==============================================================================
