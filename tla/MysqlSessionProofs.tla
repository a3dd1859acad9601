------------------------- MODULE MysqlSessionProofs -------------------------
(***************************************************************************)
(* Proofs about MysqlSession for every pool size and every number of runs  *)
(* of the program: the awaiters hand over only what was produced, a run    *)
(* prints its own row or none, and a run nothing disturbs prints it,       *)
(* whatever the crashed runs before it have left in the database.          *)
(***************************************************************************)
EXTENDS MysqlSession, TLAPS

PoolProofs == INSTANCE IoContextPoolProofs

\* Where main() is tells what the coroutine and the pool are doing.
Phases ==
  /\ main = "start" => /\ step = 1 /\ op = "none" /\ outcome = "ok"
                       /\ owner = "using" /\ clean /\ ~broken
  /\ main = "coroutine" => /\ op # "none"
                           /\ owner = "using" /\ m_threads = PoolSize
  /\ main \in {"stop", "exited"} => op = "none"
  /\ main = "exited" => owner = "stopped"

\* The only handler ever queued is the callback of the operation in hand.
QueueIsCallback ==
  \A i \in Pool!Ctx : queue[i] = IF i = ctx /\ op = "queued" THEN 1 ELSE 0

\* The coroutine goes past an operation only as GoesOn allows.
Passed == \A i \in DOMAIN Script : i < step => GoesOn(Script[i])

\* The awaiter of the operation in hand has stored its completion's code.
StoredOutcome == op = "resumed" => ec[Script[step]] = outcome

\* The operation at index i has completed.
Done(i) == i < step \/ (i = step /\ op \in {"queued", "resumed"})

\* Past a successful insert the row is this run's, and nothing removes it.
Inserted ==
  6 < step \/ (6 = step /\ op \in {"queued", "resumed"} /\ outcome = "ok")
    => exists /\ row = run

\* A row that was read or printed is this run's.
OwnRow == result \in {0, run} /\ printed \in {0, run}

\* The database while a run nothing disturbs goes through the script.
Undisturbed ==
  /\ Done(3) /\ ~Done(4) => ~exists /\ row = 0
  /\ Done(4) /\ ~Done(6) => exists /\ row = 0
  /\ Done(6) => exists /\ row = run
  /\ Done(8) => result = run

\* A run nothing disturbs sees no error, and prints the row it selected.
CleanRun ==
  clean => /\ ~broken /\ outcome = "ok"
           /\ main = "coroutine" => Undisturbed
           /\ main \in {"stop", "exited"} => printed = run

SessionInv ==
  /\ Phases
  /\ QueueIsCallback
  /\ Passed
  /\ StoredOutcome
  /\ Inserted
  /\ OwnRow
  /\ CleanRun

Inv == PoolProofs!Inv /\ TypeOK /\ SessionInv

-----------------------------------------------------------------------------
\* The nine operations, spelt out.
LEMMA ScriptFacts ==
  /\ DOMAIN Script = 1 .. 9
  /\ Len(Script) = 9
  /\ Script[1] = "resolve" /\ Script[2] = "connect" /\ Script[3] = "drop"
  /\ Script[4] = "create" /\ Script[5] = "prepareInsert"
  /\ Script[6] = "insert" /\ Script[7] = "prepareSelect"
  /\ Script[8] = "select" /\ Script[9] = "read"
  /\ \A i \in 1 .. 9 : Script[i] \in Operation
  /\ \A i, j \in 1 .. 9 : Script[i] = Script[j] => i = j
<1>1. /\ DOMAIN Script = 1 .. 9
      /\ Len(Script) = 9
      /\ Script[1] = "resolve" /\ Script[2] = "connect" /\ Script[3] = "drop"
      /\ Script[4] = "create" /\ Script[5] = "prepareInsert"
      /\ Script[6] = "insert" /\ Script[7] = "prepareSelect"
      /\ Script[8] = "select" /\ Script[9] = "read"
  BY DEF Script
<1>2. \A i \in 1 .. 9 : \/ i = 1 \/ i = 2 \/ i = 3 \/ i = 4 \/ i = 5
                        \/ i = 6 \/ i = 7 \/ i = 8 \/ i = 9
  OBVIOUS
<1>3. \A i \in 1 .. 9 : Script[i] \in Operation
  BY <1>1 DEF Operation
<1>4. QED
  BY <1>1, <1>2, <1>3

\* The context of the session is one of the pool's.
LEMMA CtxInPool == ctx \in Pool!Ctx
BY ConstantsAssumption DEF ctx, Pool!Ctx

\* The pool's inductive invariant, which its own proofs establish, carries over
\* to the pool of the session.
LEMMA PoolStep ==
  ASSUME PoolProofs!Inv, [Pool!Next]_pool
  PROVE  PoolProofs!Inv' /\ Pool!TypeOK'
<1>1. [PoolProofs!Next]_(PoolProofs!vars)
  BY DEF pool, Pool!Next, PoolProofs!Next, PoolProofs!vars,
         Pool!Ctx, PoolProofs!Ctx,
         Pool!StartThread, PoolProofs!StartThread,
         Pool!GetIoContext, PoolProofs!GetIoContext,
         Pool!NextIndex, PoolProofs!NextIndex,
         Pool!Post, PoolProofs!Post,
         Pool!RunHandler, PoolProofs!RunHandler,
         Pool!HandlerReturns, PoolProofs!HandlerReturns,
         Pool!RunReturns, PoolProofs!RunReturns,
         Pool!CallStop, PoolProofs!CallStop,
         Pool!FirstStopped, PoolProofs!FirstStopped,
         Pool!StopContext, PoolProofs!StopContext,
         Pool!JoinThread, PoolProofs!JoinThread,
         Pool!JoinReturns, PoolProofs!JoinReturns
<1>2. PoolProofs!Inv'
  BY <1>1, PoolProofs!NextInv, ConstantsAssumption
<1>3. Pool!TypeOK'
  BY <1>2 DEF PoolProofs!Inv, PoolProofs!TypeOK, Pool!TypeOK,
              PoolProofs!ThreadState, Pool!ThreadState, Pool!Ctx, PoolProofs!Ctx
<1>4. QED
  BY <1>2, <1>3

\* What the pool's invariant says here: its types, and that stop() returns
\* only when the threads have exited.
LEMMA PoolFacts ==
  ASSUME PoolProofs!Inv
  PROVE  /\ Pool!TypeOK
         /\ owner = "stopped" => \A i \in Pool!Ctx : thread[i] = "exited"
BY DEF PoolProofs!Inv, PoolProofs!TypeOK, Pool!TypeOK, PoolProofs!JoinedSoFar,
       PoolProofs!ThreadState, Pool!ThreadState, Pool!Ctx, PoolProofs!Ctx

\* The constructor of a new process brings the pool's invariant about.
LEMMA PoolFresh ==
  Pool!Init => PoolProofs!Inv
<1>1. Pool!Init => PoolProofs!Init
  BY DEF Pool!Init, PoolProofs!Init, Pool!Ctx, PoolProofs!Ctx,
         Pool!TrackedContexts, PoolProofs!TrackedContexts
<1>2. QED
  BY <1>1, PoolProofs!InitInv, ConstantsAssumption

\* The first run begins with the invariant.
LEMMA InitInv == Init => Inv
<1> SUFFICES ASSUME Init PROVE Inv
  OBVIOUS
<1>1. PoolProofs!Inv
  BY PoolFresh DEF Init
<1>2. TypeOK
  <2>1. Pool!TypeOK
    BY <1>1, PoolFacts
  <2>2. exists \in BOOLEAN /\ broken \in BOOLEAN /\ clean \in BOOLEAN
    BY DEF Init
  <2>3. row \in IF exists THEN 0 .. run ELSE {0}
    BY DEF Init
  <2>4. /\ step \in DOMAIN Script
        /\ result \in 0 .. run /\ printed \in 0 .. run
        /\ run \in 1 .. MaxRuns
    BY ScriptFacts, ConstantsAssumption DEF Init
  <2>5. /\ op \in {"none", "pending", "queued", "resumed"}
        /\ outcome \in Code
        /\ ec \in [Operation -> Code \cup {"unset"}]
        /\ main \in {"start", "coroutine", "stop", "exited", "crashed"}
    BY DEF Init, Code
  <2>6. QED
    BY <2>1, <2>2, <2>3, <2>4, <2>5 DEF TypeOK
<1>3. SessionInv
  BY ScriptFacts DEF Init, Pool!Init, SessionInv, Phases, QueueIsCallback, Passed,
     StoredOutcome, Inserted, OwnRow, CleanRun
<1>4. QED
  BY <1>1, <1>2, <1>3 DEF Inv

\* What executing the operation in hand does to the database and the result.
LEMMA ExecuteFacts ==
  ASSUME TypeOK, Executable, Execute(Script[step])
  PROVE  /\ step = 3 => exists' = FALSE /\ row' = 0
         /\ step = 4 => exists' = TRUE /\ row' = 0
         /\ step = 6 => exists' = TRUE /\ row' = run
         /\ step \notin {3, 4, 6} => exists' = exists /\ row' = row
         /\ result' = IF step = 8 THEN row ELSE result
<1>1. step \in 1 .. 9
  BY ScriptFacts DEF TypeOK
<1>2. /\ Script[step] = "drop" <=> step = 3
      /\ Script[step] = "create" <=> step = 4
      /\ Script[step] = "insert" <=> step = 6
      /\ Script[step] = "select" <=> step = 8
  BY <1>1, ScriptFacts
<1>3. step = 6 => exists = TRUE
  BY <1>2 DEF TypeOK, Executable, Refused
<1>4. QED
  BY <1>2, <1>3 DEF Execute, DropTable, database

\* Executing it keeps the types of the database and of the result, and a row
\* that is selected is this run's.
LEMMA ExecuteTypes ==
  ASSUME Inv, Executable, Execute(Script[step])
  PROVE  /\ exists' \in BOOLEAN
         /\ row' \in IF exists' THEN 0 .. run ELSE {0}
         /\ result' \in 0 .. run
         /\ result' \in {0, run}
         /\ step > 6 => exists' /\ row' = run
<1>1. step \in 1 .. 9 /\ run \in Nat /\ exists \in BOOLEAN
  BY ScriptFacts DEF Inv, TypeOK
<1>2. step > 6 => exists = TRUE /\ row = run
  BY <1>1 DEF Inv, SessionInv, Inserted
<1>3. /\ row \in IF exists THEN 0 .. run ELSE {0}
      /\ result \in 0 .. run /\ result \in {0, run}
  BY DEF Inv, TypeOK, SessionInv, OwnRow
<1>4. TypeOK
  BY DEF Inv
<1>5. CASE step = 3
  BY <1>1, <1>3, <1>4, <1>5, ExecuteFacts
<1>6. CASE step = 4
  BY <1>1, <1>3, <1>4, <1>6, ExecuteFacts
<1>7. CASE step = 6
  BY <1>1, <1>3, <1>4, <1>7, ExecuteFacts
<1>8. CASE step \notin {3, 4, 6}
  BY <1>1, <1>2, <1>3, <1>4, <1>8, ExecuteFacts
<1>9. QED
  BY <1>5, <1>6, <1>7, <1>8

\* In a run nothing disturbs every operation finds the database as it needs it.
LEMMA CleanExecutable ==
  ASSUME Inv, clean, main = "coroutine", op = "pending"
  PROVE  Executable
<1>1. step \in 1 .. 9
  BY ScriptFacts DEF Inv, TypeOK
<1>2. ~broken /\ Undisturbed
  BY DEF Inv, SessionInv, CleanRun
<1>3. \A i \in 1 .. 9 : Done(i) <=> i < step
  BY DEF Done
<1>4. /\ step = 4 => ~exists /\ row = 0
      /\ step \in {5, 6} => exists /\ row = 0
      /\ step \in {7, 8, 9} => exists /\ row = run
  BY <1>1, <1>2, <1>3 DEF Undisturbed
<1>5. ~Refused(Script[step])
  BY <1>1, <1>4, ScriptFacts DEF Refused
<1>6. QED
  BY <1>2, <1>5 DEF Executable

\* A completion keeps the invariant if it leaves the database and the result
\* as the script has them.
LEMMA CompleteInv ==
  ASSUME Inv, NEW c \in Code, Complete(c),
         exists' \in BOOLEAN, broken' \in BOOLEAN, clean' \in BOOLEAN,
         row' \in IF exists' THEN 0 .. run ELSE {0},
         result' \in {0, run},
         Inserted', CleanRun'
  PROVE  Inv'
<1>1. op = "pending" /\ op' = "queued" /\ main = "coroutine" /\ outcome' = c
  BY DEF Complete
<1>2. UNCHANGED <<step, ec, printed, main, run>>
  BY DEF Complete
<1>3. Pool!Post(ctx)
  BY DEF Complete
<1>4. PoolProofs!Inv' /\ Pool!TypeOK'
  BY <1>3, CtxInPool, PoolStep DEF Inv, Pool!Next
<1>5. TypeOK'
  <2>1. run \in Nat /\ result' \in 0 .. run
    BY DEF Inv, TypeOK
  <2>2. QED
    BY <1>1, <1>2, <1>4, <2>1 DEF Inv, TypeOK
<1>6. Phases'
  BY <1>1, <1>2, <1>3 DEF Inv, SessionInv, Phases, Pool!Post
<1>7. QueueIsCallback'
  BY <1>1, <1>3, CtxInPool
  DEF Inv, TypeOK, Pool!TypeOK, SessionInv, QueueIsCallback, Pool!Post
<1>8. Passed' /\ StoredOutcome' /\ OwnRow'
  BY <1>1, <1>2 DEF Inv, SessionInv, Passed, StoredOutcome, OwnRow, GoesOn
<1>9. QED
  BY <1>4, <1>5, <1>6, <1>7, <1>8 DEF Inv, SessionInv

\* A successful operation keeps the invariant; in an undisturbed run it takes
\* the database to what the next operation needs.
LEMMA SucceedInv ==
  ASSUME Inv, Succeed PROVE Inv'
<1>1. /\ Executable /\ Execute(Script[step]) /\ Complete("ok")
      /\ broken' = broken /\ clean' = clean
  BY DEF Succeed
<1>2. /\ op = "pending" /\ op' = "queued" /\ outcome' = "ok"
      /\ main = "coroutine" /\ UNCHANGED <<step, main, run>>
  BY <1>1 DEF Complete
<1>3. step \in 1 .. 9 /\ TypeOK /\ exists \in BOOLEAN
  BY ScriptFacts DEF Inv, TypeOK
<1>4. Inserted'
  BY <1>1, <1>2, <1>3, ExecuteFacts, ExecuteTypes DEF Inserted
<1>5. CleanRun'
  <2> SUFFICES ASSUME clean PROVE ~broken /\ Undisturbed'
    BY <1>1, <1>2 DEF CleanRun
  <2>1. ~broken /\ Undisturbed
    BY <1>2 DEF Inv, SessionInv, CleanRun
  <2>2. \A i \in 1 .. 9 : (Done(i) <=> i < step) /\ (Done(i)' <=> i <= step)
    BY <1>2, <1>3 DEF Done
  <2>3. /\ step = 5 => exists = TRUE /\ row = 0
        /\ step \in 7 .. 9 => exists = TRUE /\ row = run
        /\ step = 9 => result = run
    BY <1>3, <2>1, <2>2 DEF Undisturbed
  <2>4. step = 3 => ~exists' /\ row' = 0
    BY <1>1, <1>3, ExecuteFacts
  <2>5. step \in {4, 5} => exists' = TRUE /\ row' = 0
    <3>1. CASE step = 4
      BY <1>1, <1>3, <3>1, ExecuteFacts
    <3>2. CASE step = 5
      BY <1>1, <1>3, <2>3, <3>2, ExecuteFacts
    <3>3. QED
      BY <3>1, <3>2
  <2>6. step \in 6 .. 9 => exists' = TRUE /\ row' = run
    <3>1. CASE step = 6
      BY <1>1, <1>3, <3>1, ExecuteFacts
    <3>2. CASE step \in 7 .. 9
      BY <1>1, <1>3, <2>3, <3>2, ExecuteFacts
    <3>3. step \in 6 .. 9 => step = 6 \/ step \in 7 .. 9
      OBVIOUS
    <3>4. QED
      BY <3>1, <3>2, <3>3
  <2>7. step \in 8 .. 9 => result' = run
    BY <1>1, <1>3, <2>3, ExecuteFacts
  <2>8. Undisturbed'
    BY <1>2, <1>3, <2>2, <2>4, <2>5, <2>6, <2>7 DEF Undisturbed
  <2>9. QED
    BY <2>1, <2>8
<1>6. broken' \in BOOLEAN /\ clean' \in BOOLEAN /\ "ok" \in Code
  BY <1>1 DEF Inv, TypeOK, Code
<1>7. QED
  BY <1>1, <1>4, <1>5, <1>6, ExecuteTypes, CompleteInv

\* The ways an operation fails keep the invariant: a refusal happens in a
\* disturbed run only, and a fault marks the run.
LEMMA FailureInv ==
  ASSUME Inv, Refuse \/ Fault \/ LoseReply PROVE Inv'
<1>1. Complete("error") /\ "error" \in Code
  BY DEF Refuse, Fault, LoseReply, Code
<1>2. /\ op = "pending" /\ op' = "queued" /\ outcome' = "error"
      /\ main = "coroutine" /\ UNCHANGED <<step, main, run>>
  BY <1>1 DEF Complete
<1>3. step \in 1 .. 9 /\ TypeOK
  BY ScriptFacts DEF Inv, TypeOK
<1>4. clean' = FALSE /\ broken' \in BOOLEAN
  <2>1. CASE Refuse
    <3>1. clean' = clean /\ broken' = broken /\ ~Executable
      BY <2>1 DEF Refuse
    <3>2. ~clean
      BY <1>2, <3>1, CleanExecutable
    <3>3. QED
      BY <3>1, <3>2 DEF Inv, TypeOK
  <2>2. CASE Fault \/ LoseReply
    BY <2>2 DEF Fault, LoseReply, Inv, TypeOK
  <2>3. QED
    BY <2>1, <2>2
<1>5. CleanRun'
  BY <1>4 DEF CleanRun
<1>6. CASE Refuse \/ Fault
  <2>1. UNCHANGED <<exists, row, result>>
    BY <1>6 DEF Refuse, Fault, database
  <2>2. Inserted'
    BY <1>2, <2>1 DEF Inserted, Inv, SessionInv
  <2>3. /\ exists' \in BOOLEAN
        /\ row' \in IF exists' THEN 0 .. run ELSE {0}
        /\ result' \in {0, run}
    BY <2>1 DEF Inv, TypeOK, SessionInv, OwnRow
  <2>4. QED
    BY <1>1, <1>4, <1>5, <2>2, <2>3, CompleteInv
<1>7. CASE LoseReply
  <2>1. Executable /\ Execute(Script[step])
    BY <1>7 DEF LoseReply
  <2>2. Inserted'
    BY <1>2, <1>3, <2>1, ExecuteTypes DEF Inserted
  <2>3. QED
    BY <1>1, <1>4, <1>5, <2>1, <2>2, ExecuteTypes, CompleteInv
<1>8. QED
  BY <1>6, <1>7

\* The steps of the pool that leave the session alone keep the invariant.
LEMMA PoolOnlyInv ==
  ASSUME Inv, StartPool \/ CallbackReturns \/ StopPool \/ ThreadExits PROVE Inv'
<1>1. [Pool!Next]_pool
  BY CtxInPool DEF StartPool, CallbackReturns, StopPool, ThreadExits, Pool!Next
<1>2. PoolProofs!Inv' /\ Pool!TypeOK'
  BY <1>1, PoolStep DEF Inv
<1>3. UNCHANGED <<exists, row, broken, step, op, outcome, ec, result, printed,
                  main, run, clean>>
  BY DEF StartPool, CallbackReturns, StopPool, ThreadExits, database, session
<1>4. queue' = queue
  BY DEF StartPool, CallbackReturns, StopPool, ThreadExits, Pool!StartThread,
         Pool!CallStop, Pool!StopContext, Pool!JoinThread, Pool!RunReturns
<1>5. main # "stop" => owner' = owner
  BY DEF StartPool, CallbackReturns, StopPool, ThreadExits, Pool!StartThread,
         Pool!HandlerReturns, Pool!RunReturns
<1>6. main = "coroutine" => m_threads' = m_threads
  BY DEF StartPool, CallbackReturns, StopPool, ThreadExits, Pool!HandlerReturns,
         Pool!RunReturns
<1>7. Phases'
  BY <1>3, <1>5, <1>6 DEF Inv, SessionInv, Phases
<1>8. TypeOK'
  BY <1>2, <1>3 DEF Inv, TypeOK
<1>9. QueueIsCallback' /\ Passed' /\ StoredOutcome' /\ Inserted' /\ OwnRow'
  BY <1>3, <1>4
  DEF Inv, SessionInv, QueueIsCallback, Passed, StoredOutcome, Inserted, OwnRow, GoesOn
<1>10. CleanRun'
  BY <1>3 DEF Inv, SessionInv, CleanRun, Undisturbed, Done
<1>11. QED
  BY <1>2, <1>7, <1>8, <1>9, <1>10 DEF Inv, SessionInv

\* Launching the coroutine keeps the invariant.
LEMMA LaunchInv ==
  ASSUME Inv, Launch PROVE Inv'
<1>1. PoolProofs!Inv' /\ Pool!TypeOK'
  BY PoolStep DEF Inv, Launch, Pool!Next
<1>2. UNCHANGED <<exists, row, broken, step, outcome, ec, result, printed, run, clean>>
  BY DEF Launch, database
<1>3. /\ main = "start" /\ main' = "coroutine" /\ op' = "pending"
      /\ m_threads = PoolSize
      /\ UNCHANGED <<m_threads, owner, queue>>
  BY DEF Launch, Pool!GetIoContext
<1>4. step = 1 /\ op = "none" /\ owner = "using" /\ outcome = "ok" /\ ~broken
  BY <1>3 DEF Inv, SessionInv, Phases
<1>5. TypeOK'
  BY <1>1, <1>2, <1>3 DEF Inv, TypeOK
<1>6. Phases' /\ QueueIsCallback'
  BY <1>2, <1>3, <1>4 DEF Inv, SessionInv, Phases, QueueIsCallback
<1>7. Passed' /\ StoredOutcome' /\ Inserted' /\ OwnRow'
  BY <1>2, <1>3, <1>4
  DEF Inv, SessionInv, Passed, StoredOutcome, Inserted, OwnRow, GoesOn
<1>8. CleanRun'
  BY <1>2, <1>3, <1>4 DEF CleanRun, Undisturbed, Done
<1>9. QED
  BY <1>1, <1>5, <1>6, <1>7, <1>8 DEF Inv, SessionInv

\* The callback of an awaiter keeps the invariant: it is the callback of the
\* operation the coroutine is suspended on.
LEMMA CallbackInv ==
  ASSUME Inv, Callback PROVE Inv'
<1>1. PoolProofs!Inv' /\ Pool!TypeOK'
  BY PoolStep, CtxInPool DEF Inv, Callback, Pool!Next
<1>2. UNCHANGED <<exists, row, broken, step, outcome, result, printed, main,
                  run, clean, owner, m_threads>>
  BY DEF Callback, Pool!RunHandler, database
<1>3. op = "queued" /\ main = "coroutine"
  <2>1. op = "queued"
    BY CtxInPool DEF Inv, SessionInv, QueueIsCallback, Callback, Pool!RunHandler
  <2>2. QED
    BY <2>1 DEF Inv, TypeOK, SessionInv, Phases, Callback, Alive
<1>4. op' = "resumed" /\ ec' = [ec EXCEPT ![Script[step]] = outcome]
  BY DEF Callback, Resumed, StoredEc
<1>5. step \in 1 .. 9 /\ Script[step] \in Operation
  BY ScriptFacts DEF Inv, TypeOK
<1>6. TypeOK'
  BY <1>1, <1>2, <1>4 DEF Inv, TypeOK
<1>7. Phases'
  BY <1>2, <1>3, <1>4 DEF Inv, SessionInv, Phases
<1>8. QueueIsCallback'
  <2>1. queue' = [queue EXCEPT ![ctx] = @ - 1]
    BY DEF Callback, Pool!RunHandler
  <2>2. queue \in [Pool!Ctx -> Nat]
    BY DEF Inv, TypeOK, Pool!TypeOK
  <2>3. QED
    BY <1>3, <1>4, <2>1, <2>2, CtxInPool
    DEF Inv, SessionInv, QueueIsCallback
<1>9. Passed'
  BY <1>2, <1>4, <1>5, ScriptFacts DEF Inv, TypeOK, SessionInv, Passed, GoesOn
<1>10. StoredOutcome'
  BY <1>2, <1>4, <1>5 DEF Inv, TypeOK, StoredOutcome
<1>11. Inserted' /\ OwnRow'
  BY <1>2, <1>3, <1>4 DEF Inv, SessionInv, Inserted, OwnRow
<1>12. CleanRun'
  BY <1>2, <1>3, <1>4 DEF Inv, SessionInv, CleanRun, Undisturbed, Done
<1>13. QED
  BY <1>1, <1>6, <1>7, <1>8, <1>9, <1>10, <1>11, <1>12 DEF Inv, SessionInv

\* Going on to the next operation keeps the invariant.
LEMMA NextOperationInv ==
  ASSUME Inv, NextOperation PROVE Inv'
<1>1. /\ UNCHANGED pool
      /\ UNCHANGED <<exists, row, broken, outcome, ec, result, printed, main,
                     run, clean>>
      /\ main = "coroutine" /\ op = "resumed" /\ op' = "pending"
      /\ step' = step + 1 /\ step < 9 /\ GoesOn(Script[step])
  BY ScriptFacts DEF NextOperation, database
<1>2. PoolProofs!Inv' /\ Pool!TypeOK'
  BY <1>1, PoolStep DEF Inv
<1>3. step \in 1 .. 9
  BY ScriptFacts DEF Inv, TypeOK
<1>4. UNCHANGED <<queue, owner, m_threads>>
  BY <1>1 DEF pool
<1>5. TypeOK'
  BY <1>1, <1>2, <1>3, ScriptFacts DEF Inv, TypeOK
<1>6. Phases' /\ QueueIsCallback'
  BY <1>1, <1>4 DEF Inv, SessionInv, Phases, QueueIsCallback
<1>7. Passed'
  BY <1>1, <1>3, ScriptFacts DEF Inv, SessionInv, Passed, GoesOn
<1>8. StoredOutcome' /\ OwnRow'
  BY <1>1 DEF Inv, SessionInv, StoredOutcome, OwnRow
<1>9. Inserted'
  <2>1. step = 6 => outcome = "ok"
    BY <1>1, ScriptFacts DEF Inv, SessionInv, StoredOutcome, GoesOn
  <2>2. QED
    BY <1>1, <1>3, <2>1 DEF Inv, SessionInv, Inserted
<1>10. CleanRun'
  <2>1. \A i \in 1 .. 9 : Done(i)' <=> Done(i)
    BY <1>1, <1>3 DEF Done
  <2>2. Undisturbed' <=> Undisturbed
    BY <1>1, <2>1 DEF Undisturbed
  <2>3. QED
    BY <1>1, <2>2 DEF Inv, SessionInv, CleanRun
<1>11. QED
  BY <1>2, <1>5, <1>6, <1>7, <1>8, <1>9, <1>10 DEF Inv, SessionInv

\* The end of the coroutine keeps the invariant: without an error it is
\* reached only at the last operation.
LEMMA CoReturnInv ==
  ASSUME Inv, CoReturn PROVE Inv'
<1>1. /\ UNCHANGED pool
      /\ UNCHANGED <<exists, row, broken, step, outcome, ec, result, run, clean>>
      /\ main = "coroutine" /\ main' = "stop" /\ op = "resumed" /\ op' = "none"
      /\ ~GoesOn(Script[step]) \/ step = 9
      /\ printed' = IF GoesOn(Script[step]) THEN result ELSE printed
  BY ScriptFacts DEF CoReturn, database
<1>2. PoolProofs!Inv' /\ Pool!TypeOK'
  BY <1>1, PoolStep DEF Inv
<1>3. UNCHANGED <<queue, owner, m_threads>>
  BY <1>1 DEF pool
<1>4. TypeOK'
  <2>1. printed' \in 0 .. run
    BY <1>1 DEF Inv, TypeOK
  <2>2. QED
    BY <1>1, <1>2, <2>1 DEF Inv, TypeOK
<1>5. Phases' /\ QueueIsCallback'
  BY <1>1, <1>3 DEF Inv, SessionInv, Phases, QueueIsCallback
<1>6. Passed' /\ StoredOutcome' /\ Inserted'
  BY <1>1 DEF Inv, SessionInv, Passed, StoredOutcome, Inserted, GoesOn
<1>7. OwnRow'
  BY <1>1 DEF Inv, SessionInv, OwnRow
<1>8. CleanRun'
  <2>1. clean => outcome = "ok" /\ ~broken /\ Undisturbed
    BY <1>1 DEF Inv, SessionInv, CleanRun
  <2>2. clean => GoesOn(Script[step]) /\ step = 9
    BY <1>1, <2>1 DEF Inv, SessionInv, StoredOutcome, GoesOn
  <2>3. clean => result = run
    BY <2>1, <2>2 DEF Undisturbed, Done
  <2>4. QED
    BY <1>1, <2>1, <2>2, <2>3 DEF CleanRun
<1>9. QED
  BY <1>2, <1>4, <1>5, <1>6, <1>7, <1>8 DEF Inv, SessionInv

\* The return of main() keeps the invariant.
LEMMA ExitInv ==
  ASSUME Inv, Exit PROVE Inv'
<1>1. /\ UNCHANGED pool
      /\ UNCHANGED <<exists, row, broken, step, op, outcome, ec, result, printed,
                     run, clean>>
      /\ main = "stop" /\ main' = "exited" /\ owner = "stopped"
  BY DEF Exit, database
<1>2. PoolProofs!Inv' /\ Pool!TypeOK'
  BY <1>1, PoolStep DEF Inv
<1>3. UNCHANGED <<queue, owner, m_threads>>
  BY <1>1 DEF pool
<1>4. TypeOK'
  BY <1>1, <1>2 DEF Inv, TypeOK
<1>5. Phases' /\ QueueIsCallback'
  BY <1>1, <1>3 DEF Inv, SessionInv, Phases, QueueIsCallback
<1>6. Passed' /\ StoredOutcome' /\ Inserted' /\ OwnRow'
  BY <1>1 DEF Inv, SessionInv, Passed, StoredOutcome, Inserted, OwnRow, GoesOn
<1>7. CleanRun'
  BY <1>1 DEF Inv, SessionInv, CleanRun
<1>8. QED
  BY <1>2, <1>4, <1>5, <1>6, <1>7 DEF Inv, SessionInv

\* A crash keeps the invariant, even if the statement in flight is executed.
LEMMA CrashInv ==
  ASSUME Inv, Crash PROVE Inv'
<1>1. /\ UNCHANGED pool
      /\ UNCHANGED <<broken, step, op, outcome, ec, printed, run, clean>>
      /\ main' = "crashed"
  BY DEF Crash
<1>2. PoolProofs!Inv' /\ Pool!TypeOK'
  BY <1>1, PoolStep DEF Inv
<1>3. UNCHANGED <<queue, owner, m_threads>>
  BY <1>1 DEF pool
<1>4. /\ exists' \in BOOLEAN
      /\ row' \in IF exists' THEN 0 .. run ELSE {0}
      /\ result' \in 0 .. run /\ result' \in {0, run}
      /\ Inserted'
  <2>1. CASE UNCHANGED <<database, result>>
    BY <1>1, <2>1 DEF database, Inv, TypeOK, SessionInv, OwnRow, Inserted
  <2>2. CASE op = "pending" /\ Executable /\ Execute(Script[step])
    BY <1>1, <2>2, ExecuteTypes DEF Inserted
  <2>3. QED
    BY <2>1, <2>2 DEF Crash
<1>5. TypeOK'
  BY <1>1, <1>2, <1>4 DEF Inv, TypeOK
<1>6. Phases' /\ QueueIsCallback'
  BY <1>1, <1>3 DEF Inv, SessionInv, Phases, QueueIsCallback
<1>7. Passed' /\ StoredOutcome' /\ OwnRow'
  BY <1>1, <1>4 DEF Inv, SessionInv, Passed, StoredOutcome, OwnRow, GoesOn
<1>8. CleanRun'
  BY <1>1 DEF Inv, SessionInv, CleanRun
<1>9. QED
  BY <1>2, <1>4, <1>5, <1>6, <1>7, <1>8 DEF Inv, SessionInv

\* Starting the program again keeps the invariant, with the database as it is.
LEMMA RerunInv ==
  ASSUME Inv, Rerun PROVE Inv'
<1>1. Pool!Init'
  BY DEF Rerun, Pool!Init
<1>2. PoolProofs!Inv' /\ Pool!TypeOK'
  BY <1>1, PoolFresh, PoolFacts, PTL
<1>3. /\ UNCHANGED <<exists, row>>
      /\ step' = 1 /\ op' = "none" /\ outcome' = "ok" /\ main' = "start"
      /\ result' = 0 /\ printed' = 0 /\ run' = run + 1 /\ run < MaxRuns
      /\ clean' = TRUE /\ broken' = FALSE /\ owner' = "using"
      /\ queue' = [i \in Pool!Ctx |-> 0]
      /\ ec' = [o \in Operation |-> "unset"]
  BY DEF Rerun, database
<1>4. TypeOK'
  <2>1. run \in 1 .. MaxRuns /\ exists \in BOOLEAN
    BY DEF Inv, TypeOK
  <2>2. row' \in IF exists' THEN 0 .. run' ELSE {0}
    BY <1>3, <2>1 DEF Inv, TypeOK
  <2>3. /\ run' \in 1 .. MaxRuns /\ step' \in DOMAIN Script
        /\ result' \in 0 .. run' /\ printed' \in 0 .. run'
    BY <1>3, <2>1, ScriptFacts, ConstantsAssumption
  <2>4. ec' \in [Operation -> Code \cup {"unset"}] /\ outcome' \in Code
    BY <1>3 DEF Code
  <2>5. exists' \in BOOLEAN /\ broken' \in BOOLEAN /\ clean' \in BOOLEAN
    BY <1>3, <2>1
  <2>6. /\ op' \in {"none", "pending", "queued", "resumed"}
        /\ main' \in {"start", "coroutine", "stop", "exited", "crashed"}
    BY <1>3
  <2>7. QED
    BY <1>2, <2>2, <2>3, <2>4, <2>5, <2>6 DEF TypeOK
<1>5. SessionInv'
  BY <1>3, ScriptFacts
  DEF SessionInv, Phases, QueueIsCallback, Passed, StoredOutcome, Inserted,
      OwnRow, CleanRun
<1>6. QED
  BY <1>2, <1>4, <1>5 DEF Inv

\* Every step of the program, the environment and the operator keeps it.
LEMMA NextInv == Inv /\ [Next]_vars => Inv'
<1> SUFFICES ASSUME Inv, [Next]_vars PROVE Inv'
  OBVIOUS
<1>1. CASE UNCHANGED vars
  <2>1. UNCHANGED <<exists, row, broken, step, op, outcome, ec, result, printed,
                    main, run, clean>> /\ UNCHANGED pool
    BY <1>1 DEF vars, database, session
  <2>2. PoolProofs!Inv' /\ Pool!TypeOK'
    BY <2>1, PoolStep DEF Inv
  <2>3. TypeOK'
    BY <2>1, <2>2 DEF Inv, TypeOK
  <2>4. SessionInv'
    BY <2>1 DEF pool, Inv, SessionInv, Phases, QueueIsCallback, Passed,
       StoredOutcome, Inserted, OwnRow, CleanRun, Undisturbed, Done, GoesOn
  <2>5. QED
    BY <2>2, <2>3, <2>4 DEF Inv
<1>2. QED
  BY <1>1, PoolOnlyInv, LaunchInv, SucceedInv, FailureInv, CallbackInv,
     NextOperationInv, CoReturnInv, ExitInv, CrashInv, RerunInv DEF Next

\* The invariant holds through any series of runs and crashes.
LEMMA Invariance == Spec => []Inv
BY InitInv, NextInv, PTL DEF Spec

\* Every variable keeps its type; the pool's are IoContextPool's.
THEOREM TypeCorrect == Spec => []TypeOK
<1>1. Inv => TypeOK
  BY DEF Inv
<1>2. QED
  BY <1>1, Invariance, PTL

\* No operation is ever started on a handle that an earlier one did not produce.
THEOREM HandlesAlwaysValid == Spec => []HandlesValid
<1>1. ASSUME Inv PROVE HandlesValid
  <2>1. step \in 1 .. 9
    BY <1>1, ScriptFacts DEF Inv, TypeOK
  <2>2. \A i \in 1 .. 9 : i < step /\ i \notin {3, 4} => ec[Script[i]] = "ok"
    BY <1>1, ScriptFacts DEF Inv, SessionInv, Passed, GoesOn
  <2>3. \A o \in Needs(Script[step]) : ec[o] = "ok"
    <3>1. /\ step > 1 => ec["resolve"] = "ok"
          /\ step > 2 => ec["connect"] = "ok"
          /\ step > 5 => ec["prepareInsert"] = "ok"
          /\ step > 7 => ec["prepareSelect"] = "ok"
          /\ step > 8 => ec["select"] = "ok"
      BY <2>1, <2>2, ScriptFacts
    <3>2. Needs("resolve") = {} /\ Needs("connect") = {"resolve"}
      BY DEF Needs
    <3>3. /\ Needs("drop") = {"connect"} /\ Needs("create") = {"connect"}
          /\ Needs("prepareInsert") = {"connect"}
          /\ Needs("prepareSelect") = {"connect"}
      BY DEF Needs
    <3>4. /\ Needs("insert") = {"prepareInsert"}
          /\ Needs("select") = {"prepareSelect"}
          /\ Needs("read") = {"select"}
      BY DEF Needs
    <3>5. QED
      BY <2>1, <3>1, <3>2, <3>3, <3>4, ScriptFacts
  <2>4. QED
    BY <2>3 DEF HandlesValid
<1>2. QED
  BY <1>1, Invariance, PTL

\* A run prints the row it inserted or none, whatever rows and tables the runs
\* before it have left, and whatever fails.
THEOREM PrintsOwnRow == Spec => []PrintedOwnRow
<1>1. Inv => PrintedOwnRow
  BY DEF Inv, SessionInv, OwnRow, PrintedOwnRow
<1>2. QED
  BY <1>1, Invariance, PTL

\* A run nothing disturbs prints its row, after any history of crashed runs.
THEOREM CleanRunConverges == Spec => []RerunConverges
<1>1. Inv => RerunConverges
  BY DEF Inv, SessionInv, CleanRun, RerunConverges
<1>2. QED
  BY <1>1, Invariance, PTL

\* When the coroutine has returned no callback is queued for its frame, and
\* when main() returns every pool thread has exited.
THEOREM NoDanglingCallback == Spec => []NothingDangles
<1>1. ASSUME Inv PROVE NothingDangles
  <2>1. main \in {"stop", "exited"} => op = "none" /\ \A i \in Pool!Ctx : queue[i] = 0
    BY <1>1 DEF Inv, SessionInv, Phases, QueueIsCallback
  <2>2. main = "exited" => \A i \in Pool!Ctx : thread[i] = "exited"
    BY <1>1, PoolFacts DEF Inv, SessionInv, Phases
  <2>3. QED
    BY <2>1, <2>2 DEF NothingDangles
<1>2. QED
  BY <1>1, Invariance, PTL
-----------------------------------------------------------------------------
\* A row of this run is there only from its insert on, which is past the drop.
OwnInserted ==
  row = run => /\ main # "start"
               /\ step > 6 \/ (step = 6 /\ (op # "pending" \/ main = "crashed"))

\* What a step does to the row, and which steps do anything to it.
LEMMA RowSteps ==
  ASSUME Inv, OwnInserted, [Next]_vars
  PROVE  \/ row' = row
         \/ /\ main = "coroutine" /\ op = "pending" /\ run' = run /\ step' = step
            /\ \/ step = 3 /\ row' = 0 /\ row # run
               \/ step = 4 /\ row' = 0 /\ row = 0
               \/ step = 6 /\ row' = run /\ row = 0 /\ (op' = "queued" \/ main' = "crashed")
<1>1. step \in 1 .. 9 /\ TypeOK
  BY ScriptFacts DEF Inv, TypeOK
<1>2. CASE \/ Succeed \/ LoseReply
           \/ Crash /\ op = "pending" /\ Executable /\ Execute(Script[step])
  <2>1. Executable /\ Execute(Script[step]) /\ op = "pending" /\ run' = run /\ step' = step
        /\ (op' = "queued" \/ main' = "crashed")
    BY <1>2 DEF Succeed, LoseReply, Crash, Complete
  <2>2. main = "coroutine"
    BY <1>2, <2>1 DEF Succeed, LoseReply, Crash, Complete, Alive, Inv, SessionInv, Phases, TypeOK
  <2>3. CASE step = 3
    BY <1>1, <2>1, <2>2, <2>3, ExecuteFacts DEF OwnInserted
  <2>4. CASE step = 4
    <3>1. ~exists
      BY <2>1, <2>4, ScriptFacts DEF Executable, Refused
    <3>2. row = 0
      BY <1>1, <3>1 DEF TypeOK
    <3>3. QED
      BY <1>1, <2>1, <2>2, <2>4, <3>2, ExecuteFacts
  <2>5. CASE step = 6
    <3>1. row = 0
      BY <2>1, <2>5, ScriptFacts DEF Executable, Refused
    <3>2. QED
      BY <1>1, <2>1, <2>2, <2>5, <3>1, ExecuteFacts
  <2>6. CASE step \notin {3, 4, 6}
    BY <1>1, <2>1, <2>6, ExecuteFacts
  <2>7. QED
    BY <2>3, <2>4, <2>5, <2>6
<1>3. CASE ~ (\/ Succeed \/ LoseReply
              \/ Crash /\ op = "pending" /\ Executable /\ Execute(Script[step]))
  BY <1>3 DEF Next, vars, database, StartPool, Launch, Refuse, Fault, Callback,
     CallbackReturns, NextOperation, CoReturn, StopPool, ThreadExits, Exit, Crash, Rerun
<1>4. QED
  BY <1>2, <1>3

\* Every step keeps it: the script never goes back.
LEMMA OwnInsertedStep ==
  ASSUME Inv, OwnInserted, [Next]_vars
  PROVE  OwnInserted'
<1>1. step \in 1 .. 9 /\ TypeOK /\ run \in Nat /\ run >= 1
      /\ row \in 0 .. run
  BY ScriptFacts, ConstantsAssumption DEF Inv, TypeOK
<1>2. CASE row' # row
  <2>1. \/ /\ row' = run /\ run' = run /\ step' = 6 /\ main = "coroutine"
           /\ op' = "queued" \/ main' = "crashed"
        \/ row' = 0 /\ run' = run
    BY <1>2, RowSteps
  <2>2. main = "coroutine" => main' # "start"
    BY DEF Next, vars, session, StartPool, Launch, Succeed, Refuse, Fault, LoseReply,
       Complete, Callback, CallbackReturns, NextOperation, CoReturn, StopPool,
       ThreadExits, Exit, Crash, Rerun, Alive
  <2>3. QED
    BY <1>1, <2>1, <2>2 DEF OwnInserted
<1>3. CASE row' = row
  <2>1. CASE Rerun
    BY <1>1, <1>3, <2>1 DEF Rerun, OwnInserted
  <2>2. CASE ~Rerun
    <3>1. run' = run /\ (main' = "start" => main = "start")
          /\ (main = "crashed" => main' = "crashed")
      BY <2>2 DEF Next, vars, session, StartPool, Launch, Succeed, Refuse, Fault, LoseReply,
         Complete, Callback, CallbackReturns, NextOperation, CoReturn, StopPool,
         ThreadExits, Exit, Crash, Alive
    <3>2. \/ step' = step /\ (op' = "pending" => op = "pending" \/ main = "start")
          \/ step' = step + 1 /\ main # "start"
      BY <2>2 DEF Next, vars, session, StartPool, Launch, Succeed, Refuse, Fault, LoseReply,
         Complete, Callback, CallbackReturns, NextOperation, CoReturn, StopPool,
         ThreadExits, Exit, Crash, Resumed
    <3>3. QED
      BY <1>1, <1>3, <3>1, <3>2 DEF OwnInserted
  <2>3. QED
    BY <2>1, <2>2
<1>4. QED
  BY <1>2, <1>3

\* A row goes only by the DROP of a later run: no run replaces a row it finds or
\* loses its own.
THEOREM RowsStay == Spec => RowStays
<1>1. Init => OwnInserted
  BY DEF Init, OwnInserted
<1>2. Inv /\ OwnInserted /\ [Next]_vars => OwnInserted'
  BY OwnInsertedStep
<1>3. Inv /\ OwnInserted /\ [Next]_vars =>
        [row # 0 /\ row' # row => row' = 0 /\ row # run /\ Script[step] = "drop"]_vars
  BY RowSteps, ScriptFacts
<1>4. QED
  BY <1>1, <1>2, <1>3, Invariance, PTL DEF Spec, RowStays
=============================================================================
