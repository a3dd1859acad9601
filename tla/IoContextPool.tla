--------------------------- MODULE IoContextPool ---------------------------
(***************************************************************************)
(* include/io_context_pool.h: a fixed pool of boost::asio::io_context, one *)
(* thread per context, contexts handed out round robin.                    *)
(*                                                                         *)
(* Three parties interleave: the caller of start() (the main thread in     *)
(* test_boost_mysql.cpp, the thread thd in test_tcp_server.cpp), the owner *)
(* that calls getIoContext() and finally stop(), and the pool threads.     *)
(* Both programs order start() before stop(); start() and getIoContext()   *)
(* overlap in test_tcp_server.cpp.                                         *)
(*                                                                         *)
(* A definition named M_... is a faulty variant of the definition that     *)
(* follows it, kept to show that a property notices the fault.             *)
(***************************************************************************)
EXTENDS Naturals

CONSTANTS
  PoolSize,     \* pool_size, the constructor's argument
  MaxQueue,     \* bound: handlers waiting on one context
  MaxHandouts   \* bound: times one context is handed out

\* The constructor throws when pool_size is 0.
ASSUME PoolSizeAssumption == PoolSize \in Nat \ {0}
ASSUME BoundsAssumption == MaxQueue \in Nat /\ MaxHandouts \in Nat

Ctx == 0 .. PoolSize - 1     \* indices into m_io_contexts

VARIABLES
  m_next_io_context,  \* index of the next context to hand out
  m_work,             \* contexts on which m_work tracks outstanding work
  m_threads,          \* number of threads start() has created so far
  thread,             \* "none", "run", "busy" in a handler or "exited",
                      \* per context
  stopped,            \* io_context::stopped(), per context
  queue,              \* number of handlers ready to run, per context
  owner,              \* "using", "stopping", "joining" or "stopped"
  cursor,             \* index of stop()'s current loop
  handed              \* history: times each context was handed out

vars == <<m_next_io_context, m_work, m_threads, thread, stopped, queue,
          owner, cursor, handed>>

ThreadState == {"none", "run", "busy", "exited"}

TypeOK ==
  /\ m_next_io_context \in Ctx
  /\ m_work \subseteq Ctx
  /\ m_threads \in 0 .. PoolSize
  /\ thread \in [Ctx -> ThreadState]
  /\ stopped \in [Ctx -> BOOLEAN]
  /\ queue \in [Ctx -> Nat]
  /\ owner \in {"using", "stopping", "joining", "stopped"}
  /\ cursor \in 0 .. PoolSize
  /\ handed \in [Ctx -> Nat]
-----------------------------------------------------------------------------
M_TrackedContexts == {}
\* The contexts the constructor's loop requires outstanding_work.tracked of.
TrackedContexts == Ctx

\* The constructor.
Init ==
  /\ m_next_io_context = 0
  /\ m_work = TrackedContexts
  /\ m_threads = 0
  /\ thread = [i \in Ctx |-> "none"]
  /\ stopped = [i \in Ctx |-> FALSE]
  /\ queue = [i \in Ctx |-> 0]
  /\ owner = "using"
  /\ cursor = 0
  /\ handed = [i \in Ctx |-> 0]

\* One iteration of start(): the next context gets its thread.
StartThread ==
  /\ m_threads < PoolSize
  /\ thread' = [thread EXCEPT ![m_threads] = "run"]
  /\ m_threads' = m_threads + 1
  /\ UNCHANGED <<m_next_io_context, m_work, stopped, queue, owner, cursor,
                 handed>>

M_NextIndexNoWrap(i) == i + 1
M_NextIndex(i) == IF i + 2 >= PoolSize THEN 0 ELSE i + 1
\* ++m_next_io_context with its wrap-around.
NextIndex(i) == IF i + 1 = PoolSize THEN 0 ELSE i + 1

\* getIoContext() returns context m_next_io_context and steps the index.
GetIoContext ==
  /\ owner = "using"
  /\ handed[m_next_io_context] < MaxHandouts
  /\ handed' = [handed EXCEPT ![m_next_io_context] = @ + 1]
  /\ m_next_io_context' = NextIndex(m_next_io_context)
  /\ UNCHANGED <<m_work, m_threads, thread, stopped, queue, owner, cursor>>

\* Some code posts a handler to context i, or an operation on it completes.
Post(i) ==
  /\ queue[i] < MaxQueue
  /\ queue' = [queue EXCEPT ![i] = @ + 1]
  /\ UNCHANGED <<m_next_io_context, m_work, m_threads, thread, stopped,
                 owner, cursor, handed>>

\* context->run() in thread i takes one ready handler and begins to execute it.
RunHandler(i) ==
  /\ thread[i] = "run"
  /\ ~stopped[i]
  /\ queue[i] > 0
  /\ queue' = [queue EXCEPT ![i] = @ - 1]
  /\ thread' = [thread EXCEPT ![i] = "busy"]
  /\ UNCHANGED <<m_next_io_context, m_work, m_threads, stopped, owner, cursor,
                 handed>>

\* The handler returns, and may have posted another one last.
HandlerReturns(i) ==
  /\ thread[i] = "busy"
  /\ thread' = [thread EXCEPT ![i] = "run"]
  /\ \/ queue' = queue
     \/ \E j \in Ctx : /\ queue[j] < MaxQueue
                       /\ queue' = [queue EXCEPT ![j] = @ + 1]
  /\ UNCHANGED <<m_next_io_context, m_work, m_threads, stopped, owner, cursor,
                 handed>>

\* context->run() returns: the context is stopped or has no work left.
RunReturns(i) ==
  /\ thread[i] = "run"
  /\ stopped[i] \/ (queue[i] = 0 /\ i \notin m_work)
  /\ thread' = [thread EXCEPT ![i] = "exited"]
  /\ UNCHANGED <<m_next_io_context, m_work, m_threads, stopped, queue,
                 owner, cursor, handed>>

M_FirstStopped == 1
\* The index at which stop()'s first loop begins.
FirstStopped == 0

\* stop() is called, after start() has returned.
CallStop ==
  /\ owner = "using"
  /\ m_threads = PoolSize
  /\ owner' = "stopping"
  /\ cursor' = FirstStopped
  /\ UNCHANGED <<m_next_io_context, m_work, m_threads, thread, stopped,
                 queue, handed>>

\* One iteration of stop()'s first loop, or its end.
StopContext ==
  /\ owner = "stopping"
  /\ \/ /\ cursor < PoolSize
        /\ stopped' = [stopped EXCEPT ![cursor] = TRUE]
        /\ cursor' = cursor + 1
        /\ owner' = owner
     \/ /\ cursor = PoolSize
        /\ owner' = "joining"
        /\ cursor' = 0
        /\ stopped' = stopped
  /\ UNCHANGED <<m_next_io_context, m_work, m_threads, thread, queue, handed>>

M_JoinReturns(i) == thread[i] # "none"
\* th.join() returns once the thread's function has.
JoinReturns(i) == thread[i] = "exited"

\* One iteration of stop()'s second loop, or stop()'s return.
JoinThread ==
  /\ owner = "joining"
  /\ \/ /\ cursor < PoolSize
        /\ JoinReturns(cursor)
        /\ cursor' = cursor + 1
        /\ owner' = owner
     \/ /\ cursor = PoolSize
        /\ owner' = "stopped"
        /\ cursor' = cursor
  /\ UNCHANGED <<m_next_io_context, m_work, m_threads, thread, stopped, queue,
                 handed>>

Next ==
  \/ StartThread
  \/ GetIoContext
  \/ \E i \in Ctx : Post(i)
  \/ \E i \in Ctx : RunHandler(i)
  \/ \E i \in Ctx : HandlerReturns(i)
  \/ \E i \in Ctx : RunReturns(i)
  \/ CallStop
  \/ StopContext
  \/ JoinThread

SafeSpec == Init /\ [][Next]_vars

\* Every thread that can run is eventually scheduled, and handlers return: the
\* ones posted here run a coroutine to its next co_await.  Whether the owner
\* ever calls stop(), and who posts what, is up to the program.
Fairness ==
  /\ WF_vars(StartThread)
  /\ \A i \in Ctx : /\ WF_vars(RunHandler(i))
                  /\ WF_vars(HandlerReturns(i))
                  /\ WF_vars(RunReturns(i))
  /\ WF_vars(StopContext)
  /\ WF_vars(JoinThread)

Spec == SafeSpec /\ Fairness
-----------------------------------------------------------------------------
\* getIoContext() spreads its callers evenly: after any number of calls no
\* context was handed out more than once more often than another.
Balanced ==
  \A i, j \in Ctx : handed[i] <= handed[j] + 1

\* A pool thread leaves run() only because stop() stopped its context: the
\* tracked work keeps an idle context alive for the handlers still to come.
ThreadsOutliveWork ==
  \A i \in Ctx : thread[i] = "exited" => stopped[i]

\* Once stop() has returned no thread is in a handler or will ever be, so what
\* the handlers refer to may be destroyed after it.
QuietAfterStop ==
  owner = "stopped" => \A i \in Ctx : thread[i] = "exited"

\* A context that is not stopped and always has a handler ready keeps running
\* handlers: every context gets its thread, and keeps it.
HandlersRun ==
  \A i \in Ctx :
    <>[](queue[i] > 0 /\ ~stopped[i]) => []<><<RunHandler(i)>>_vars

\* stop() returns: every join finds a thread whose run() ends.
StopReturns == owner = "stopping" ~> owner = "stopped"
=============================================================================
