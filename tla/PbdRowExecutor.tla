--------------------------- MODULE PbdRowExecutor ---------------------------
(***************************************************************************)
(* The row executor of the PBD decoder: five long-lived workers decode one *)
(* row each of a six-row logits window while the caller decodes the last   *)
(* row on its own thread, then waits for them.  The job is a set of        *)
(* pointers into the caller's frame, so no worker may hold it once Decode  *)
(* has returned.  A job is named by the number of the call that issued it; *)
(* 0 is the null pointer.  As in the pipeline, a critical section is one   *)
(* step and a notification after the unlock is another.                    *)
(***************************************************************************)
EXTENDS Naturals, FiniteSets

CONSTANTS
  Callers,    \* threads that call Decode
  Workers,    \* the worker threads, one per row but the last
  Own,        \* the row the caller decodes itself
  Nobody,     \* call_mutex_ is free
  MaxCalls    \* bound: calls of Decode in one behaviour

ASSUME WorkersAssumption == IsFiniteSet(Workers) /\ Own \notin Workers
ASSUME CallersAssumption == Nobody \notin Callers
ASSUME MaxCallsAssumption == MaxCalls \in Nat

VARIABLES
  callLock,   \* owner of call_mutex_
  at,         \* where each caller stands in Decode
  pw,         \* where each worker stands in Worker
  generation, \* generation_
  pendingWorkers,
  job,        \* logits_, history_tokens_, results_: the call they point into
  stopping,
  observed,   \* observed_generation of each worker
  held,       \* the pointers each worker has copied
  results,    \* call whose row is stored in each element of *results
  dtor        \* where the destructor stands

vars == <<callLock, at, pw, generation, pendingWorkers, job, stopping, observed, held,
          results, dtor>>

Rows == Workers \union {Own}

Init ==
  /\ callLock = Nobody
  /\ at = [c \in Callers |-> "idle"]
  /\ pw = [w \in Workers |-> "test"]
  /\ generation = 0
  /\ pendingWorkers = 0
  /\ job = 0
  /\ stopping = FALSE
  /\ observed = [w \in Workers |-> 0]
  /\ held = [w \in Workers |-> 0]
  /\ results = [r \in Rows |-> 0]
  /\ dtor = "alive"

\* job_ready_.notify_all()
WakeWorkers == pw' = [w \in Workers |-> IF pw[w] = "asleep" THEN "test" ELSE pw[w]]

\* job_done_.notify_one(): at most one caller can be asleep.
WakeCaller == at' = [c \in Callers |-> IF at[c] = "asleep" THEN "await" ELSE at[c]]

------------------------------------------------------------------------------
(* Decode *)

\* Faulty variant: calls are not serialised.
EnterUnlocked(c) ==
  /\ at[c] = "idle"
  /\ generation < MaxCalls
  /\ dtor = "alive"
  /\ callLock' = c
  /\ at' = [at EXCEPT ![c] = "dispatch"]
  /\ UNCHANGED <<pw, generation, pendingWorkers, job, stopping, observed, held, results,
                 dtor>>

\* Decode is called, and call_mutex_ is free.
Enter(c) ==
  /\ at[c] = "idle"
  /\ generation < MaxCalls
  /\ dtor = "alive"
  /\ callLock = Nobody
  /\ callLock' = c
  /\ at' = [at EXCEPT ![c] = "dispatch"]
  /\ UNCHANGED <<pw, generation, pendingWorkers, job, stopping, observed, held, results,
                 dtor>>

\* Publish the job under job_mutex_.  The array is the caller's, still unset.
Dispatch(c) ==
  /\ at[c] = "dispatch"
  /\ job' = generation + 1
  /\ generation' = generation + 1
  /\ pendingWorkers' = Cardinality(Workers)
  /\ results' = [r \in Rows |-> 0]
  /\ at' = [at EXCEPT ![c] = "notify"]
  /\ UNCHANGED <<callLock, pw, stopping, observed, held, dtor>>

\* Faulty variant: the workers are not told about the job.
DispatchWithoutNotify(c) ==
  /\ at[c] = "notify"
  /\ at' = [at EXCEPT ![c] = "own"]
  /\ UNCHANGED <<callLock, pw, generation, pendingWorkers, job, stopping, observed, held,
                 results, dtor>>

NotifyReady(c) ==
  /\ at[c] = "notify"
  /\ WakeWorkers
  /\ at' = [at EXCEPT ![c] = "own"]
  /\ UNCHANGED <<callLock, generation, pendingWorkers, job, stopping, observed, held,
                 results, dtor>>

\* The caller decodes the last row of the window.
DecodeOwnRow(c) ==
  /\ at[c] = "own"
  /\ results' = [results EXCEPT ![Own] = generation]
  /\ at' = [at EXCEPT ![c] = "await"]
  /\ UNCHANGED <<callLock, pw, generation, pendingWorkers, job, stopping, observed, held,
                 dtor>>

\* job_done_.wait: not yet.
AwaitBlocks(c) ==
  /\ at[c] = "await"
  /\ pendingWorkers # 0
  /\ at' = [at EXCEPT ![c] = "asleep"]
  /\ UNCHANGED <<callLock, pw, generation, pendingWorkers, job, stopping, observed, held,
                 results, dtor>>

\* Faulty variant: the caller does not wait for the workers.
AwaitNobody(c) ==
  /\ at[c] = "await"
  /\ job' = 0
  /\ at' = [at EXCEPT ![c] = "return"]
  /\ UNCHANGED <<callLock, pw, generation, pendingWorkers, stopping, observed, held,
                 results, dtor>>

\* Faulty variant: the wait ends one row early.
AwaitAllButOne(c) ==
  /\ at[c] = "await"
  /\ pendingWorkers <= 1
  /\ job' = 0
  /\ at' = [at EXCEPT ![c] = "return"]
  /\ UNCHANGED <<callLock, pw, generation, pendingWorkers, stopping, observed, held,
                 results, dtor>>

\* job_done_.wait returns; the shared pointers are cleared.
AwaitReturns(c) ==
  /\ at[c] = "await"
  /\ pendingWorkers = 0
  /\ job' = 0
  /\ at' = [at EXCEPT ![c] = "return"]
  /\ UNCHANGED <<callLock, pw, generation, pendingWorkers, stopping, observed, held,
                 results, dtor>>

\* Decode returns to its caller: call_mutex_ is released last.
Leave(c) ==
  /\ at[c] = "return"
  /\ callLock' = Nobody
  /\ at' = [at EXCEPT ![c] = "idle"]
  /\ UNCHANGED <<pw, generation, pendingWorkers, job, stopping, observed, held, results,
                 dtor>>

------------------------------------------------------------------------------
(* Worker *)

\* The predicate holds because of stopping_: return.
WorkerExits(w) ==
  /\ pw[w] = "test"
  /\ stopping
  /\ pw' = [pw EXCEPT ![w] = "exited"]
  /\ UNCHANGED <<callLock, at, generation, pendingWorkers, job, stopping, observed, held,
                 results, dtor>>

\* The predicate is false: block on job_ready_.
WorkerBlocks(w) ==
  /\ pw[w] = "test"
  /\ ~stopping
  /\ generation = observed[w]
  /\ pw' = [pw EXCEPT ![w] = "asleep"]
  /\ UNCHANGED <<callLock, at, generation, pendingWorkers, job, stopping, observed, held,
                 results, dtor>>

\* Copy the job under job_mutex_.
TakeJob(w) ==
  /\ pw[w] = "test"
  /\ ~stopping
  /\ generation # observed[w]
  /\ observed' = [observed EXCEPT ![w] = generation]
  /\ held' = [held EXCEPT ![w] = job]
  /\ pw' = [pw EXCEPT ![w] = "decode"]
  /\ UNCHANGED <<callLock, at, generation, pendingWorkers, job, stopping, results, dtor>>

\* Decode the row through the copied pointers, outside any lock.
DecodeRow(w) ==
  /\ pw[w] = "decode"
  /\ results' = [results EXCEPT ![w] = held[w]]
  /\ pw' = [pw EXCEPT ![w] = "finish"]
  /\ UNCHANGED <<callLock, at, generation, pendingWorkers, job, stopping, observed, held,
                 dtor>>

\* Faulty variant: the caller is told when one row is still missing.
FinishRowEarly(w) ==
  /\ pw[w] = "finish"
  /\ pendingWorkers' = pendingWorkers - 1
  /\ IF pendingWorkers' = 1 THEN WakeCaller ELSE UNCHANGED at
  /\ held' = [held EXCEPT ![w] = 0]
  /\ pw' = [pw EXCEPT ![w] = "test"]
  /\ UNCHANGED <<callLock, generation, job, stopping, observed, results, dtor>>

\* Count down under job_mutex_; the last worker notifies the caller.
FinishRow(w) ==
  /\ pw[w] = "finish"
  /\ pendingWorkers' = pendingWorkers - 1
  /\ IF pendingWorkers' = 0 THEN WakeCaller ELSE UNCHANGED at
  /\ held' = [held EXCEPT ![w] = 0]
  /\ pw' = [pw EXCEPT ![w] = "test"]
  /\ UNCHANGED <<callLock, generation, job, stopping, observed, results, dtor>>

SpuriousWakeup ==
  \/ /\ \E w \in Workers : pw[w] = "asleep" /\ pw' = [pw EXCEPT ![w] = "test"]
     /\ UNCHANGED at
  \/ /\ \E c \in Callers : at[c] = "asleep" /\ at' = [at EXCEPT ![c] = "await"]
     /\ UNCHANGED pw

------------------------------------------------------------------------------
(* The destructor runs at process exit, when no Decode is in progress. *)

BeginStop ==
  /\ dtor = "alive"
  /\ \A c \in Callers : at[c] = "idle"
  /\ stopping' = TRUE
  /\ dtor' = "notify"
  /\ UNCHANGED <<callLock, at, pw, generation, pendingWorkers, job, observed, held,
                 results>>

NotifyStop ==
  /\ dtor = "notify"
  /\ WakeWorkers
  /\ dtor' = "join"
  /\ UNCHANGED <<callLock, at, generation, pendingWorkers, job, stopping, observed, held,
                 results>>

Joined ==
  /\ dtor = "join"
  /\ \A w \in Workers : pw[w] = "exited"
  /\ dtor' = "gone"
  /\ UNCHANGED <<callLock, at, pw, generation, pendingWorkers, job, stopping, observed,
                 held, results>>

------------------------------------------------------------------------------
\* The steps of a Decode that has begun.
Decode(c) ==
  \/ Dispatch(c) \/ NotifyReady(c) \/ DecodeOwnRow(c)
  \/ AwaitBlocks(c) \/ AwaitReturns(c) \/ Leave(c)

Worker(w) ==
  WorkerExits(w) \/ WorkerBlocks(w) \/ TakeJob(w) \/ DecodeRow(w) \/ FinishRow(w)

Destructor == BeginStop \/ NotifyStop \/ Joined

Next ==
  \/ \E c \in Callers : Enter(c) \/ Decode(c)
  \/ \E w \in Workers : Worker(w)
  \/ Destructor
  \/ SpuriousWakeup
       /\ UNCHANGED <<callLock, generation, pendingWorkers, job, stopping, observed, held,
                      results, dtor>>

Spec == Init /\ [][Next]_vars

(* Fairness: a thread that is not blocked keeps running; nothing obliges a  *)
(* caller to call Decode, or the process to exit.                           *)
Fairness ==
  /\ \A c \in Callers : WF_vars(Decode(c))
  /\ \A w \in Workers : WF_vars(Worker(w))
  /\ WF_vars(NotifyStop \/ Joined)

FairSpec == Spec /\ Fairness

------------------------------------------------------------------------------
(* Properties *)

\* Shape of the state.
TypeOK ==
  /\ callLock \in Callers \union {Nobody}
  /\ at \in [Callers -> {"idle", "dispatch", "notify", "own", "await", "asleep", "return"}]
  /\ pw \in [Workers -> {"test", "asleep", "decode", "finish", "exited"}]
  /\ generation \in Nat /\ job \in Nat /\ pendingWorkers \in Nat
  /\ stopping \in BOOLEAN
  /\ observed \in [Workers -> Nat]
  /\ held \in [Workers -> Nat]
  /\ results \in [Rows -> Nat]
  /\ dtor \in {"alive", "notify", "join", "gone"}

\* Some Decode is between publishing its job and clearing the pointers, so the
\* caller's tensor, history and result array are alive.
JobAlive == \E c \in Callers : at[c] \in {"notify", "own", "await", "asleep"}

\* A worker dereferences its copied pointers only while the call they belong to
\* is the current one and has not returned (decoder.cpp:425).
NoDanglingJob ==
  \A w \in Workers : pw[w] \in {"decode", "finish"} =>
    JobAlive /\ held[w] = generation /\ job = generation

\* When Decode returns, all six elements are results of this very call: no row
\* is missing and none is left over from the call before (decoder.cpp:384).
AllRowsOnReturn ==
  \A c \in Callers : at[c] = "return" => \A r \in Rows : results[r] = generation

\* The workers that still owe a row of the current generation.
Owing == {w \in Workers : observed[w] # generation \/ pw[w] \in {"decode", "finish"}}

\* The countdown is exactly the number of rows still owed, so it reaches zero
\* once per call and a late decrement never lands in the next call's count.
CountdownExact == pendingWorkers = Cardinality(Owing)

\* A worker never sleeps through a job or the stop request, and the caller
\* never sleeps with nothing left to wait for, unless a notification is due.
NoLostWakeup ==
  /\ \A w \in Workers : pw[w] = "asleep" /\ (stopping \/ generation # observed[w]) =>
       dtor = "notify" \/ \E c \in Callers : at[c] = "notify"
  /\ \A c \in Callers : at[c] = "asleep" => pendingWorkers # 0

\* Every worker serves every call, in turn: none is skipped or served twice.
NoCallSkipped ==
  [][\A w \in Workers : observed'[w] \in {observed[w], observed[w] + 1}]_vars

\* The caller whose job is published, the rows of its array still unset.
Served == IF callLock # Nobody /\ at[callLock] # "dispatch" THEN callLock ELSE Nobody
Unset == {r \in Rows : results[r] # generation}

\* Workers, countdown and both condition variables together serve whole batches
\* of rows, one call after the other (decoder.cpp:338).
Batch == INSTANCE RowBatch WITH caller <- Served, owed <- Unset

ImplementsRowBatch == Batch!Spec

\* A Decode that has begun returns, and the destructor joins every worker.
ExecutorReturns ==
  /\ \A c \in Callers : at[c] = "dispatch" ~> at[c] = "idle"
  /\ stopping ~> dtor = "gone"

------------------------------------------------------------------------------
(* What makes the properties inductive. *)

Decoding(w) == pw[w] \in {"decode", "finish"}

RowInv ==
  /\ TypeOK
  \* call_mutex_: only its owner is inside Decode.
  /\ \A c \in Callers : at[c] # "idle" <=> callLock = c
  \* The generation was announced by the call in progress; everybody else is done.
  /\ \A w \in Workers : observed[w] = generation \/ observed[w] + 1 = generation
  /\ job = IF JobAlive THEN generation ELSE 0
  /\ ~JobAlive => Owing = {}
  /\ CountdownExact
  /\ \A w \in Workers : Decoding(w) => held[w] = generation /\ observed[w] = generation
  \* A row that is no longer owed, or already written, belongs to this call.
  /\ \A w \in Workers : generation # 0 /\ (w \notin Owing \/ pw[w] = "finish")
       => results[w] = generation
  /\ \A c \in Callers : at[c] \in {"await", "asleep", "return"} => results[Own] = generation
  /\ NoLostWakeup
  \* The destructor runs after the last call.
  /\ stopping <=> dtor # "alive"
  /\ stopping => \A c \in Callers : at[c] = "idle"
  /\ (\E w \in Workers : pw[w] = "exited") => stopping
  /\ (\E c \in Callers : at[c] # "idle" /\ at[c] # "dispatch") => generation # 0
==============================================================================
