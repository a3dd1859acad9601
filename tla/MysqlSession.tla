---------------------------- MODULE MysqlSession ----------------------------
(***************************************************************************)
(* src/test_boost_mysql.cpp: a coroutine on the main thread issues nine    *)
(* operations, one after the other, whose completions arrive on a context  *)
(* of an IoContextPool.  The table mysql_db_test outlives the process, so  *)
(* the module describes a series of runs, some cut short by a crash.       *)
(*                                                                         *)
(* The awaiters (ResolveAwaiter, ConnectAwaiter, QueryAwaiter, ...) have   *)
(* one shape: await_suspend starts the operation, its callback, run by the *)
(* pool thread, stores the results and calls handle.resume(), which        *)
(* schedules the coroutine on the main thread, and await_resume hands them *)
(* over.  Of a row only the run that inserted it is kept.  The statement   *)
(* of a dead process is applied or discarded before the next run begins.   *)
(***************************************************************************)
EXTENDS Naturals, Sequences

CONSTANTS
  PoolSize, MaxQueue, MaxHandouts,   \* of IoContextPool
  MaxRuns                            \* bound: times the program is started

\* IoContextPool's constructor throws on an empty pool; the rest are bounds.
ASSUME ConstantsAssumption ==
  /\ PoolSize \in Nat \ {0} /\ MaxRuns \in Nat \ {0}
  /\ MaxQueue \in Nat /\ MaxHandouts \in Nat

VARIABLES
  m_next_io_context, m_work, m_threads, thread, stopped, queue, owner,
  cursor, handed,   \* of IoContextPool
  exists,           \* the database has the table mysql_db_test
  row,              \* the run that inserted the row "10086", 0 if none did
  broken,           \* the connection is lost
  step,             \* the coroutine's operation, an index into Script
  op,               \* "none", "pending", "queued" or "resumed"
  outcome,          \* the error code the completion carries
  ec,               \* the code each operation's awaiter has stored
  result,           \* what the select found, as row
  printed,          \* the row printed, as row
  main,             \* "start", "coroutine", "stop", "exited" or "crashed"
  run,              \* the number of this run
  clean             \* history: the environment caused no error in this run

Pool == INSTANCE IoContextPool

pool == <<m_next_io_context, m_work, m_threads, thread, stopped, queue, owner,
          cursor, handed>>
database == <<exists, row>>
session == <<broken, step, op, outcome, ec, result, printed, main>>
vars == <<pool, database, session, run, clean>>

M_Script == <<"resolve", "connect", "create", "prepareInsert", "insert",
              "prepareSelect", "select", "read", "drop">>
\* The operations, in the order of the coroutine's body.
Script == <<"resolve", "connect", "drop", "create", "prepareInsert", "insert",
            "prepareSelect", "select", "read">>
Operation == {Script[i] : i \in DOMAIN Script}

Code == {"ok", "error"}

\* The process exists, and with it its threads.
Alive == main \notin {"exited", "crashed"}

TypeOK ==
  /\ Pool!TypeOK
  /\ exists \in BOOLEAN
  /\ row \in IF exists THEN 0 .. run ELSE {0}
  /\ broken \in BOOLEAN
  /\ step \in DOMAIN Script
  /\ op \in {"none", "pending", "queued", "resumed"}
  /\ outcome \in Code
  /\ ec \in [Operation -> Code \cup {"unset"}]
  /\ result \in 0 .. run
  /\ printed \in 0 .. run
  /\ main \in {"start", "coroutine", "stop", "exited", "crashed"}
  /\ run \in 1 .. MaxRuns
  /\ clean \in BOOLEAN
-----------------------------------------------------------------------------
Init ==
  /\ Pool!Init
  /\ exists = FALSE
  /\ row = 0
  /\ broken = FALSE
  /\ step = 1
  /\ op = "none"
  /\ outcome = "ok"
  /\ ec = [o \in Operation |-> "unset"]
  /\ result = 0
  /\ printed = 0
  /\ main = "start"
  /\ run = 1
  /\ clean = TRUE

\* ctx_pool.start().
StartPool ==
  /\ main = "start"
  /\ Pool!StartThread
  /\ UNCHANGED <<database, session, run, clean>>

\* The coroutine begins: it takes a context and awaits the first operation.
Launch ==
  /\ main = "start"
  /\ m_threads = PoolSize
  /\ Pool!GetIoContext
  /\ main' = "coroutine"
  /\ op' = "pending"
  /\ UNCHANGED <<database, broken, step, outcome, ec, result, printed,
                 run, clean>>

\* The only call of getIoContext() returns the first context.
ctx == 0
-----------------------------------------------------------------------------
(* The database and the connection to it.                                  *)

\* The database cannot execute operation o: create finds the table, insert the
\* key, and the statements on the table do not find it.
Refused(o) ==
  \/ o = "create" /\ exists
  \/ o = "insert" /\ row # 0
  \/ o \in {"prepareInsert", "insert", "prepareSelect", "select"} /\ ~exists

M_DropTable == UNCHANGED database
\* DROP TABLE IF EXISTS mysql_db_test.
DropTable == exists' = FALSE /\ row' = 0

\* What operation o does when it is executed.
Execute(o) ==
  /\ \/ o = "drop" /\ DropTable
     \/ o = "create" /\ exists' = TRUE /\ row' = 0
     \/ o = "insert" /\ exists' = exists /\ row' = run
     \/ o \notin {"drop", "create", "insert"} /\ UNCHANGED database
  /\ result' = IF o = "select" THEN row ELSE result

\* The pending operation completes with code c: its callback is queued on ctx.
Complete(c) ==
  /\ op = "pending"
  /\ main = "coroutine"
  /\ op' = "queued"
  /\ outcome' = c
  /\ Pool!Post(ctx)
  /\ UNCHANGED <<step, ec, printed, main, run>>

Executable == ~broken /\ ~Refused(Script[step])

Succeed ==
  /\ Executable
  /\ Complete("ok")
  /\ Execute(Script[step])
  /\ UNCHANGED <<broken, clean>>

Refuse ==
  /\ ~Executable
  /\ Complete("error")
  /\ UNCHANGED <<database, result, broken, clean>>

\* The environment makes an operation fail: the peer does not answer or does
\* not want to, or the connection breaks.
Fault ==
  /\ Complete("error")
  /\ broken' \in {broken, TRUE}
  /\ clean' = FALSE
  /\ UNCHANGED <<database, result>>

\* The connection breaks after the operation was executed.
LoseReply ==
  /\ Executable
  /\ Complete("error")
  /\ Execute(Script[step])
  /\ broken' = TRUE
  /\ clean' = FALSE
-----------------------------------------------------------------------------
(* The awaiters.                                                           *)

\* m_ec = std::move(ec), done before handle.resume().
StoredEc == outcome

M_Resumed == IF outcome = "ok" THEN "resumed" ELSE "lost"
\* handle.resume(), whatever the error code.
Resumed == "resumed"

\* The pool thread runs the callback of the operation.
Callback ==
  /\ Alive
  /\ Pool!RunHandler(ctx)
  /\ ec' = [ec EXCEPT ![Script[step]] = StoredEc]
  /\ op' = Resumed
  /\ UNCHANGED <<database, broken, step, outcome, result, printed,
                 main, run, clean>>

\* The callback returns to run(); by now the coroutine may be far ahead.
CallbackReturns ==
  /\ Alive
  /\ Pool!HandlerReturns(ctx)
  /\ queue' = queue
  /\ UNCHANGED <<database, session, run, clean>>
-----------------------------------------------------------------------------
(* The coroutine on the main thread.                                       *)

M_GoesOnUnprepared(o) == ec[o] = "ok" \/ o \in {"drop", "create", "prepareInsert"}
M_GoesOnUninserted(o) == ec[o] = "ok" \/ o \in {"drop", "create", "insert"}
\* The result of drop is ignored and an error of create is only logged; after
\* any other error the coroutine returns.
GoesOn(o) == ec[o] = "ok" \/ o \in {"drop", "create"}

\* The coroutine goes on to its next operation.
NextOperation ==
  /\ main = "coroutine"
  /\ op = "resumed"
  /\ GoesOn(Script[step])
  /\ step < Len(Script)
  /\ step' = step + 1
  /\ op' = "pending"
  /\ UNCHANGED <<pool, database, broken, outcome, ec, result, printed,
                 main, run, clean>>

\* The coroutine returns, and with it blockingWait(): after an error, or after
\* printing the first row if there is one.  A result that was read without an
\* error is complete, so that exit(1) is not reached.
CoReturn ==
  /\ main = "coroutine"
  /\ op = "resumed"
  /\ ~GoesOn(Script[step]) \/ step = Len(Script)
  /\ printed' = IF GoesOn(Script[step]) THEN result ELSE printed
  /\ op' = "none"
  /\ main' = "stop"
  /\ UNCHANGED <<pool, database, broken, step, outcome, ec, result, run,
                 clean>>

\* ctx_pool.stop().
StopPool ==
  /\ main = "stop"
  /\ Pool!CallStop \/ Pool!StopContext \/ Pool!JoinThread
  /\ UNCHANGED <<database, session, run, clean>>

ThreadExits ==
  /\ Alive
  /\ \E i \in Pool!Ctx : Pool!RunReturns(i)
  /\ UNCHANGED <<database, session, run, clean>>

Exit ==
  /\ main = "stop"
  /\ owner = "stopped"
  /\ main' = "exited"
  /\ UNCHANGED <<pool, database, broken, step, op, outcome, ec, result,
                 printed, run, clean>>
-----------------------------------------------------------------------------
\* The process dies; a statement in flight may still be executed.
Crash ==
  /\ Alive
  /\ main' = "crashed"
  /\ \/ UNCHANGED <<database, result>>
     \/ op = "pending" /\ Executable /\ Execute(Script[step])
  /\ UNCHANGED <<pool, broken, step, op, outcome, ec, printed,
                 run, clean>>

\* The program is started again: all but the database begins anew.
Rerun ==
  /\ ~Alive
  /\ run < MaxRuns
  /\ run' = run + 1
  /\ clean' = TRUE
  /\ m_next_io_context' = 0
  /\ m_work' = Pool!TrackedContexts
  /\ m_threads' = 0
  /\ thread' = [i \in Pool!Ctx |-> "none"]
  /\ stopped' = [i \in Pool!Ctx |-> FALSE]
  /\ queue' = [i \in Pool!Ctx |-> 0]
  /\ owner' = "using"
  /\ cursor' = 0
  /\ handed' = [i \in Pool!Ctx |-> 0]
  /\ broken' = FALSE
  /\ step' = 1
  /\ op' = "none"
  /\ outcome' = "ok"
  /\ ec' = [o \in Operation |-> "unset"]
  /\ result' = 0
  /\ printed' = 0
  /\ main' = "start"
  /\ UNCHANGED database

Next ==
  \/ StartPool
  \/ Launch
  \/ Succeed
  \/ Refuse
  \/ Fault
  \/ LoseReply
  \/ Callback
  \/ CallbackReturns
  \/ NextOperation
  \/ CoReturn
  \/ StopPool
  \/ ThreadExits
  \/ Exit
  \/ Crash
  \/ Rerun

\* The threads are scheduled, and an operation completes: the database answers
\* or the connection to it breaks.  The program has no timeout of its own.
Fairness ==
  /\ WF_vars(StartPool)
  /\ WF_vars(Launch)
  /\ WF_vars(Succeed \/ Refuse)
  /\ WF_vars(Callback)
  /\ WF_vars(CallbackReturns)
  /\ WF_vars(NextOperation)
  /\ WF_vars(CoReturn)
  /\ WF_vars(StopPool)
  /\ WF_vars(ThreadExits)
  /\ WF_vars(Exit)

Spec == Init /\ [][Next]_vars /\ Fairness
-----------------------------------------------------------------------------
\* What an operation works with: the endpoints, the connection, a prepared
\* statement, a result set.
Needs(o) ==
  CASE o = "resolve" -> {}
    [] o = "connect" -> {"resolve"}
    [] o \in {"drop", "create", "prepareInsert", "prepareSelect"} -> {"connect"}
    [] o = "insert" -> {"prepareInsert"}
    [] o = "select" -> {"prepareSelect"}
    [] o = "read" -> {"select"}

\* No operation is started on an endpoint, connection, statement or result set
\* that an earlier operation of the coroutine failed to produce.
HandlesValid ==
  op = "pending" => \A o \in Needs(Script[step]) : ec[o] = "ok"

\* The row the program prints is the one it inserted itself, although the table
\* of an earlier run may still be there and the coroutine goes on when it could
\* neither drop nor create it.
PrintedOwnRow == printed # 0 => printed = run

\* A row goes only when a later run drops the table.  No run replaces a row it
\* finds, and none loses its own, also when the reply to its insert is lost or
\* the process dies.
RowStays ==
  [][row # 0 /\ row' # row => row' = 0 /\ row # run /\ Script[step] = "drop"]_vars

\* Whatever earlier runs left behind, crashed or not, a run in which nothing
\* fails around it reaches its end and prints its row.
RerunConverges == main = "exited" /\ clean => printed = run

\* When the coroutine's frame is gone no completion is on its way to it, and
\* no pool thread is left when main() returns.
NothingDangles ==
  /\ main \in {"stop", "exited"} => op = "none" /\ \A i \in Pool!Ctx : queue[i] = 0
  /\ main = "exited" => \A i \in Pool!Ctx : thread[i] = "exited"

\* Every path through the coroutine, the ones that return on an error included,
\* leads main() through stop() to its end.
EveryRunEnds == main = "coroutine" ~> ~Alive
=============================================================================
