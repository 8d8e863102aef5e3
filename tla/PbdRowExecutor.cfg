\* Two callers compete for five workers in three calls; the executor stops with
\* the process.
CONSTANTS
  Callers = {c1, c2}
  Workers = {w1, w2, w3, w4, w5}
  Own = Own
  Nobody = Nobody
  MaxCalls = 3
SPECIFICATION FairSpec
INVARIANTS
  NoDanglingJob
  CountdownExact
  NoLostWakeup
PROPERTIES
  ImplementsRowBatch
  ExecutorReturns
CHECK_DEADLOCK FALSE
