------------------------ MODULE IoContextPoolProofs ------------------------
(***************************************************************************)
(* Proofs about IoContextPool for every pool size and every bound on the   *)
(* queues and on the number of getIoContext() calls.                       *)
(***************************************************************************)
EXTENDS IoContextPool, TLAPS

\* Contexts below the index were handed out once more than the others.
RoundRobin ==
  \E b \in Nat : \A i \in Ctx :
    handed[i] = IF i < m_next_io_context THEN b + 1 ELSE b

\* Where stop() is tells which threads it has joined, each after it exited; it
\* is called after start() has created them all.
JoinedSoFar ==
  /\ owner # "using" => m_threads = PoolSize
  /\ owner = "joining" => \A i \in Ctx : i < cursor => thread[i] = "exited"
  /\ owner = "stopped" => \A i \in Ctx : thread[i] = "exited"

\* The work tracked for every context is never given up.
WorkTracked == m_work = Ctx

\* The inductive invariant.
Inv ==
  /\ TypeOK
  /\ RoundRobin
  /\ WorkTracked
  /\ ThreadsOutliveWork
  /\ JoinedSoFar

\* getIoContext()'s increment and wrap-around stays within the pool.
LEMMA NextIndexInPool ==
  ASSUME NEW i \in Ctx
  PROVE  NextIndex(i) \in Ctx
BY PoolSizeAssumption DEF Ctx, NextIndex

\* The constructor establishes the invariant.
LEMMA InitInv == Init => Inv
<1> SUFFICES ASSUME Init PROVE Inv
  OBVIOUS
<1>1. 0 \in Ctx
  BY PoolSizeAssumption DEF Ctx
<1>2. TypeOK
  BY <1>1, PoolSizeAssumption
  DEF Init, TypeOK, TrackedContexts, ThreadState
<1>3. RoundRobin
  <2>1. \A i \in Ctx : handed[i] = IF i < m_next_io_context THEN 0 + 1 ELSE 0
    BY DEF Init, Ctx
  <2>2. QED
    BY <2>1 DEF RoundRobin
<1>4. WorkTracked /\ ThreadsOutliveWork /\ JoinedSoFar
  BY DEF Init, WorkTracked, ThreadsOutliveWork, JoinedSoFar, TrackedContexts
<1>5. QED
  BY <1>2, <1>3, <1>4 DEF Inv

\* One call of getIoContext() keeps the hand-outs in round-robin shape.
LEMMA GetIoContextRoundRobin ==
  ASSUME Inv, GetIoContext
  PROVE  RoundRobin'
<1> DEFINE n == m_next_io_context
<1>1. n \in Ctx /\ handed \in [Ctx -> Nat]
  BY DEF Inv, TypeOK
<1>2. PICK b \in Nat : \A i \in Ctx : handed[i] = IF i < n THEN b + 1 ELSE b
  BY DEF Inv, RoundRobin
<1>3. \A i \in Ctx : handed'[i] = IF i < n + 1 THEN b + 1 ELSE b
  BY <1>1, <1>2 DEF GetIoContext, Ctx
<1>4. CASE n + 1 = PoolSize
  <2>1. m_next_io_context' = 0
    BY <1>4 DEF GetIoContext, NextIndex
  <2>2. \A i \in Ctx : handed'[i] = IF i < 0 THEN b + 1 + 1 ELSE b + 1
    BY <1>3, <1>4, PoolSizeAssumption DEF Ctx
  <2>3. QED
    BY <2>1, <2>2 DEF RoundRobin
<1>5. CASE n + 1 # PoolSize
  <2>1. m_next_io_context' = n + 1
    BY <1>5 DEF GetIoContext, NextIndex
  <2>2. QED
    BY <1>3, <2>1 DEF RoundRobin
<1>6. QED
  BY <1>4, <1>5

\* Every step of the pool, its owner and its threads preserves the invariant.
LEMMA NextInv == Inv /\ [Next]_vars => Inv'
<1> SUFFICES ASSUME Inv, [Next]_vars PROVE Inv'
  OBVIOUS
<1> USE PoolSizeAssumption DEF Inv
<1>1. CASE StartThread
  <2>1. TypeOK'
    BY <1>1 DEF StartThread, TypeOK, ThreadState, Ctx
  <2>2. RoundRobin' /\ WorkTracked'
    BY <1>1 DEF StartThread, RoundRobin, WorkTracked
  <2>3. ThreadsOutliveWork'
    BY <1>1 DEF StartThread, ThreadsOutliveWork, TypeOK
  <2>4. JoinedSoFar'
    BY <1>1 DEF StartThread, JoinedSoFar, TypeOK
  <2>5. QED
    BY <2>1, <2>2, <2>3, <2>4
<1>2. CASE GetIoContext
  <2>1. TypeOK'
    BY <1>2, NextIndexInPool DEF GetIoContext, TypeOK
  <2>2. RoundRobin'
    BY <1>2, GetIoContextRoundRobin
  <2>3. WorkTracked' /\ ThreadsOutliveWork' /\ JoinedSoFar'
    BY <1>2 DEF GetIoContext, WorkTracked, ThreadsOutliveWork, JoinedSoFar
  <2>4. QED
    BY <2>1, <2>2, <2>3
<1>3. ASSUME NEW i \in Ctx, Post(i) PROVE Inv'
  <2>1. TypeOK'
    BY <1>3 DEF Post, TypeOK
  <2>2. RoundRobin' /\ WorkTracked' /\ ThreadsOutliveWork' /\ JoinedSoFar'
    BY <1>3 DEF Post, RoundRobin, WorkTracked, ThreadsOutliveWork,
                JoinedSoFar
  <2>3. QED
    BY <2>1, <2>2
<1>4. ASSUME NEW i \in Ctx, RunHandler(i) \/ HandlerReturns(i) PROVE Inv'
  <2>1. thread[i] \in {"run", "busy"} /\ thread'[i] \in {"run", "busy"}
    BY <1>4 DEF RunHandler, HandlerReturns, TypeOK
  <2>2. \A j \in Ctx : j # i => thread'[j] = thread[j]
    BY <1>4 DEF RunHandler, HandlerReturns, TypeOK
  <2>3. TypeOK'
    BY <1>4 DEF RunHandler, HandlerReturns, TypeOK, ThreadState
  <2>4. RoundRobin' /\ WorkTracked'
    BY <1>4 DEF RunHandler, HandlerReturns, RoundRobin, WorkTracked
  <2>5. ThreadsOutliveWork'
    BY <1>4, <2>1, <2>2 DEF RunHandler, HandlerReturns, ThreadsOutliveWork
  <2>6. JoinedSoFar'
    BY <1>4, <2>1, <2>2 DEF RunHandler, HandlerReturns, JoinedSoFar
  <2>7. QED
    BY <2>3, <2>4, <2>5, <2>6
<1>5. ASSUME NEW i \in Ctx, RunReturns(i) PROVE Inv'
  <2>1. TypeOK'
    BY <1>5 DEF RunReturns, TypeOK, ThreadState
  <2>2. RoundRobin' /\ WorkTracked'
    BY <1>5 DEF RunReturns, RoundRobin, WorkTracked
  <2>3. ThreadsOutliveWork'
    BY <1>5 DEF RunReturns, ThreadsOutliveWork, WorkTracked, TypeOK
  <2>4. JoinedSoFar'
    BY <1>5 DEF RunReturns, JoinedSoFar, TypeOK
  <2>5. QED
    BY <2>1, <2>2, <2>3, <2>4
<1>6. CASE CallStop
  <2>1. TypeOK'
    BY <1>6 DEF CallStop, FirstStopped, TypeOK
  <2>2. RoundRobin' /\ WorkTracked' /\ ThreadsOutliveWork' /\ JoinedSoFar'
    BY <1>6 DEF CallStop, RoundRobin, WorkTracked, ThreadsOutliveWork,
                JoinedSoFar
  <2>3. QED
    BY <2>1, <2>2
<1>7. CASE StopContext
  <2>1. TypeOK'
    <3>1. stopped' \in [Ctx -> BOOLEAN]
      BY <1>7 DEF StopContext, TypeOK
    <3>2. m_threads' \in 0 .. PoolSize /\ cursor' \in 0 .. PoolSize
      BY <1>7 DEF StopContext, TypeOK
    <3>3. owner' \in {"using", "stopping", "joining", "stopped"}
      BY <1>7 DEF StopContext, TypeOK
    <3>4. QED
      BY <1>7, <3>1, <3>2, <3>3 DEF StopContext, TypeOK
  <2>2. RoundRobin' /\ WorkTracked'
    BY <1>7 DEF StopContext, RoundRobin, WorkTracked
  <2>3. ThreadsOutliveWork'
    BY <1>7 DEF StopContext, ThreadsOutliveWork, TypeOK
  <2>4. JoinedSoFar'
    BY <1>7 DEF StopContext, JoinedSoFar, Ctx
  <2>5. QED
    BY <2>1, <2>2, <2>3, <2>4
<1>8. CASE JoinThread
  <2>1. TypeOK'
    BY <1>8 DEF JoinThread, TypeOK
  <2>2. RoundRobin' /\ WorkTracked'
    BY <1>8 DEF JoinThread, RoundRobin, WorkTracked
  <2>3. ThreadsOutliveWork'
    BY <1>8 DEF JoinThread, ThreadsOutliveWork
  <2>4. JoinedSoFar'
    BY <1>8 DEF JoinThread, JoinReturns, JoinedSoFar, TypeOK, Ctx
  <2>5. QED
    BY <2>1, <2>2, <2>3, <2>4
<1>9. CASE UNCHANGED vars
  BY <1>9 DEF vars, TypeOK, RoundRobin, WorkTracked, ThreadsOutliveWork,
              JoinedSoFar
<1>10. QED
  BY <1>1, <1>2, <1>3, <1>4, <1>5, <1>6, <1>7, <1>8, <1>9 DEF Next

\* The inductive invariant holds of the pool.
THEOREM Invariance == Spec => []Inv
BY InitInv, NextInv, PTL DEF Spec, SafeSpec

\* The type invariant; in particular m_next_io_context never leaves the pool,
\* so getIoContext() always finds a context.
THEOREM TypeCorrect == Spec => []TypeOK
<1>1. Inv => TypeOK
  BY DEF Inv
<1>2. QED
  BY <1>1, Invariance, PTL

\* getIoContext() spreads its callers evenly over any number of contexts.
THEOREM EvenlyBalanced == Spec => []Balanced
<1>1. Inv => Balanced
  BY DEF Inv, RoundRobin, Balanced, TypeOK, Ctx
<1>2. QED
  BY <1>1, Invariance, PTL

\* No pool thread leaves run() before stop() has stopped its context.
THEOREM NoEarlyExit == Spec => []ThreadsOutliveWork
<1>1. Inv => ThreadsOutliveWork
  BY DEF Inv
<1>2. QED
  BY <1>1, Invariance, PTL

\* No thread is in a handler once stop() has returned.
THEOREM StopIsFinal == Spec => []QuietAfterStop
<1>1. Inv => QuietAfterStop
  BY DEF Inv, JoinedSoFar, QuietAfterStop
<1>2. QED
  BY <1>1, Invariance, PTL
=============================================================================
