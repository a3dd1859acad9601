----------------------------- MODULE TcpServer -----------------------------
(***************************************************************************)
(* src/test_tcp_server.cpp over include/io_context_pool.h and the awaiters *)
(* of include/asio_util.hpp: the accept loop on the main thread, the       *)
(* sessions on the pool's contexts.                                        *)
(*                                                                         *)
(* A co_await of an awaiter takes three steps, each of which may be on     *)
(* another thread: await_suspend starts the operation; the operation       *)
(* completes and its callback, run by the thread of the context the I/O    *)
(* object belongs to, stores m_ec and calls handle.resume(); folly then    *)
(* adds the continuation to the coroutine's own executor, the context of   *)
(* its Executor for a session and the main thread (blockingWait) for       *)
(* TcpServer::start().                                                     *)
(*                                                                         *)
(* Payloads are left to module TcpEcho: here a peer has some input unread  *)
(* or not, and an operation ends "ok" or "error".                          *)
(***************************************************************************)
EXTENDS Naturals, Sequences, FiniteSets

CONSTANTS
  PoolSize,         \* number of io_contexts in m_pool
  Conns,            \* the connections clients make, each at most once
  Acceptor,         \* the accept loop's name among the queue entries
  None,             \* no value yet
  MaxAcceptErrors,  \* bound: accepts that fail
  MaxInbox          \* bound: unread input of one connection

Ctx == 0 .. PoolSize - 1
Entry == [who : Conns \cup {Acceptor}, kind : {"callback", "resume"},
          ec : {"ok", "error"} \cup Conns]

ASSUME ServerAssumption ==
  /\ PoolSize \in Nat \ {0}
  /\ IsFiniteSet(Conns)
  /\ Acceptor \notin Conns /\ "error" \notin Conns
  /\ None \notin Conns \cup {"error"} /\ None \notin Entry
  /\ MaxAcceptErrors \in Nat /\ MaxInbox \in Nat \ {0}

VARIABLES
  m_next_io_context, m_threads, thread, handed,  \* the pool, see IoContextPool
  ready,            \* per context: its queue of ready handlers
  running,          \* per context: the handler its thread is in, or None
  main,             \* where the main thread is in start()
  socketCtx,        \* context of start()'s local socket, then of the session's
  m_executor_map,   \* context -> context its Executor posts to
  accept,           \* the accept operation: "idle" or "pending"
  accepted,         \* AcceptorAwaiter: the outcome stored by its callback
  at,               \* per connection: what its session awaits
  pending,          \* connections whose session's operation is outstanding
  m_ec,             \* per connection: the awaiter's m_ec
  backlog,          \* connections the kernel holds for the acceptor
  peer,             \* per connection: "none", "open" or "closed"
  inbox,            \* per connection: input not yet read by the session
  errors            \* accepts that failed so far

poolVars == <<m_next_io_context, m_threads, thread, handed>>
acceptVars == <<main, m_executor_map, accept, accepted>>
sessionVars == <<at, pending, m_ec>>
peerVars == <<backlog, peer, inbox, errors>>
vars == <<poolVars, ready, running, acceptVars, socketCtx, sessionVars, peerVars>>

\* The pool, as this program uses it: never stopped, its work always tracked.
Pool == INSTANCE IoContextPool WITH
  MaxQueue <- Cardinality(Conns) + 1,
  MaxHandouts <- Cardinality(Conns) + MaxAcceptErrors + 2,
  m_work <- Ctx,
  stopped <- [c \in Ctx |-> FALSE],
  queue <- [c \in Ctx |-> Len(ready[c])],
  owner <- "using",
  cursor <- 0

TypeOK ==
  /\ m_next_io_context \in Ctx
  /\ m_threads \in 0 .. PoolSize
  /\ handed \in [Ctx -> Nat]
  /\ thread \in [Ctx -> {"none", "run", "busy"}]
  /\ ready \in [Ctx -> Seq(Entry)]
  /\ running \in [Ctx -> Entry \cup {None}]
  /\ main \in {"setup", "loop", "accepting", "resumed", "unwinding",
               "terminated"}
  /\ socketCtx \in [Conns \cup {Acceptor} -> Ctx \cup {None}]
  /\ DOMAIN m_executor_map \subseteq Ctx
  /\ accept \in {"idle", "pending"}
  /\ accepted \in {None, "error"} \cup Conns
  /\ at \in [Conns -> {"none", "schedule", "timer", "read", "write",
                       "closed"}]
  /\ pending \subseteq Conns
  /\ m_ec \in [Conns -> {None, "ok", "error"}]
  /\ backlog \in Seq(Conns)
  /\ peer \in [Conns -> {"none", "open", "closed"}]
  /\ inbox \in [Conns -> 0 .. MaxInbox]
  /\ errors \in 0 .. MaxAcceptErrors

Init ==
  /\ m_next_io_context = 0 /\ m_threads = 0
  /\ thread = [c \in Ctx |-> "none"]
  /\ handed = [c \in Ctx |-> 0]
  /\ ready = [c \in Ctx |-> << >>]
  /\ running = [c \in Ctx |-> None]
  /\ main = "setup"
  /\ socketCtx = [k \in Conns \cup {Acceptor} |-> None]
  /\ m_executor_map = << >>
  /\ accept = "idle" /\ accepted = None
  /\ at = [k \in Conns |-> "none"]
  /\ pending = {}
  /\ m_ec = [k \in Conns |-> None]
  /\ backlog = << >>
  /\ peer = [k \in Conns |-> "none"]
  /\ inbox = [k \in Conns |-> 0]
  /\ errors = 0

Post(c, who, kind, ec) ==
  ready' = [ready EXCEPT ![c] =
              Append(@, [who |-> who, kind |-> kind, ec |-> ec])]
-----------------------------------------------------------------------------
(* The main thread. *)

M_GetIoContextNoWrap ==
  /\ handed' = [handed EXCEPT ![m_next_io_context] = @ + 1]
  /\ m_next_io_context' = m_next_io_context + 1
  /\ UNCHANGED <<m_threads, thread>>
M_GetIoContextStuck ==
  /\ handed' = [handed EXCEPT ![m_next_io_context] = @ + 1]
  /\ UNCHANGED <<m_next_io_context, m_threads, thread>>
\* getIoContext(): the context it returns is m_next_io_context.
GetIoContext ==
  /\ handed' = [handed EXCEPT ![m_next_io_context] = @ + 1]
  /\ m_next_io_context' = Pool!NextIndex(m_next_io_context)
  /\ UNCHANGED <<m_threads, thread>>

\* thd runs pool.start(), concurrently with the main thread.
StartThread ==
  /\ main # "terminated"
  /\ m_threads < PoolSize
  /\ thread' = [thread EXCEPT ![m_threads] = "run"]
  /\ m_threads' = m_threads + 1
  /\ UNCHANGED <<m_next_io_context, handed, ready, running, acceptVars, socketCtx,
                 sessionVars, peerVars>>

\* start() up to its loop: the acceptor lives on the first context, and is
\* opened, bound and listening, unless one of these throws.
Listen ==
  /\ main = "setup"
  /\ GetIoContext
  /\ main' \in {"loop", "unwinding"}
  /\ UNCHANGED <<ready, running, m_executor_map, accept, accepted, socketCtx,
                 sessionVars, peerVars>>

\* The exception leaves blockingWait() while thd is joinable: its destructor
\* calls std::terminate before the catch clause is reached.
Unwind ==
  /\ main = "unwinding"
  /\ main' = "terminated"
  /\ UNCHANGED <<poolVars, ready, running, m_executor_map, accept, accepted, socketCtx,
                 sessionVars, peerVars>>

M_ExecutorOf(c) == 0
\* Executor{context}: add() posts to that context.
ExecutorOf(c) == c

\* The top of the loop: a context for the next session, its Executor unless
\* the map has one, a socket on it, and async_accept into that socket.
AwaitAccept ==
  /\ main = "loop"
  /\ GetIoContext
  /\ m_executor_map' = [c \in DOMAIN m_executor_map \cup {m_next_io_context} |->
                          IF c \in DOMAIN m_executor_map THEN m_executor_map[c]
                          ELSE ExecutorOf(c)]
  /\ socketCtx' = [socketCtx EXCEPT ![Acceptor] = m_next_io_context]
  /\ accept' = "pending"
  /\ main' = "accepting"
  /\ UNCHANGED <<ready, running, accepted, sessionVars, peerVars>>

M_AcceptFailedGoesOn == main' = "accepting"
\* if (error) { ...; continue; }
AcceptFailedGoesOn == main' = "loop"

\* The continuation of async_accept, run by blockingWait() on the main thread:
\* an error goes on with the loop, a connection gets its timer on the socket's
\* context and is scheduled on that context's Executor.
ResumeAccept ==
  /\ main = "resumed"
  /\ \/ /\ accepted = "error"
        /\ AcceptFailedGoesOn
        /\ UNCHANGED <<ready, socketCtx, at>>
     \/ /\ accepted \in Conns
        /\ main' = "loop"
        /\ socketCtx' = [socketCtx EXCEPT ![accepted] = socketCtx[Acceptor]]
        /\ at' = [at EXCEPT ![accepted] = "schedule"]
        /\ Post(m_executor_map[socketCtx[Acceptor]], accepted, "resume", "ok")
  /\ accepted' = None
  /\ UNCHANGED <<poolVars, running, m_executor_map, accept, pending, m_ec, peerVars>>
-----------------------------------------------------------------------------
(* The kernel and the peers. *)

\* A client connects once the acceptor listens.
Connect(k) ==
  /\ main \notin {"setup", "unwinding", "terminated"}
  /\ peer[k] = "none"
  /\ peer' = [peer EXCEPT ![k] = "open"]
  /\ backlog' = Append(backlog, k)
  /\ UNCHANGED <<poolVars, ready, running, acceptVars, socketCtx, sessionVars, inbox,
                 errors>>

Send(k) ==
  /\ peer[k] = "open"
  /\ inbox[k] < MaxInbox
  /\ inbox' = [inbox EXCEPT ![k] = @ + 1]
  /\ UNCHANGED <<poolVars, ready, running, acceptVars, socketCtx, sessionVars, backlog,
                 peer, errors>>

Close(k) ==
  /\ peer[k] = "open"
  /\ peer' = [peer EXCEPT ![k] = "closed"]
  /\ UNCHANGED <<poolVars, ready, running, acceptVars, socketCtx, sessionVars, backlog,
                 inbox, errors>>

\* async_accept completes with the oldest connection of the backlog.  The
\* acceptor belongs to context 0, whose thread runs the callback.
AcceptCompletes ==
  /\ accept = "pending"
  /\ backlog # << >>
  /\ accept' = "idle"
  /\ backlog' = Tail(backlog)
  /\ Post(0, Acceptor, "callback", Head(backlog))
  /\ UNCHANGED <<poolVars, running, main, m_executor_map, accepted, socketCtx,
                 sessionVars, peer, inbox, errors>>

\* async_accept fails (no descriptor left, connection aborted).
AcceptFails ==
  /\ accept = "pending"
  /\ errors < MaxAcceptErrors
  /\ accept' = "idle"
  /\ errors' = errors + 1
  /\ Post(0, Acceptor, "callback", "error")
  /\ UNCHANGED <<poolVars, running, main, m_executor_map, accepted, socketCtx,
                 sessionVars, backlog, peer, inbox>>

\* Session k's operation ends with ec; its socket's (timer's) context gets the
\* callback.
Completes(k, ec) ==
  /\ k \in pending
  /\ pending' = pending \ {k}
  /\ Post(socketCtx[k], k, "callback", ec)
  /\ UNCHANGED <<poolVars, running, acceptVars, socketCtx, at, m_ec, backlog, peer,
                 errors>>

\* The two-second timer expires; nothing cancels it.
TimerFires(k) ==
  /\ at[k] = "timer"
  /\ Completes(k, "ok")
  /\ UNCHANGED inbox

\* async_read_some returns some of the input, or the end of the stream.  (Resets
\* of a connection both ends have open are in TcpEcho.)
ReadCompletes(k) ==
  /\ at[k] = "read"
  /\ \/ /\ inbox[k] > 0
        /\ \E n \in 1 .. inbox[k] : inbox' = [inbox EXCEPT ![k] = @ - n]
        /\ Completes(k, "ok")
     \/ /\ inbox[k] = 0 /\ peer[k] = "closed"
        /\ Completes(k, "error")
        /\ UNCHANGED inbox

\* async_write completes when the peer has taken the bytes, which an open peer
\* may never do; towards a closed one it fails, or ends in the kernel's buffer.
WriteCompletes(k) ==
  /\ at[k] = "write"
  /\ \/ Completes(k, "ok")
     \/ peer[k] = "closed" /\ Completes(k, "error")
  /\ UNCHANGED inbox
-----------------------------------------------------------------------------
(* The pool threads. *)

M_StoredEc(k, ec) == m_ec[k]
\* The callback's  m_ec = ec,  before its handle.resume().
StoredEc(k, ec) == ec

M_Proceed(k) ==
  CASE at[k] = "schedule" -> "timer"
    [] at[k] = "timer" -> "read"
    [] at[k] = "read" -> IF m_ec[k] = "error" THEN "closed" ELSE "write"
    [] at[k] = "write" -> IF m_ec[k] = "error" THEN "closed" ELSE "read"
\* What session() does when resumed at its co_await: the next operation it
\* awaits.  The results of timeout() and async_write() are not looked at; an
\* error of async_read_some() breaks the loop.
Proceed(k) ==
  CASE at[k] = "schedule" -> "timer"
    [] at[k] = "timer" -> "read"
    [] at[k] = "read" -> IF m_ec[k] = "error" THEN "closed" ELSE "write"
    [] at[k] = "write" -> "read"

M_Outstanding(k) == pending \cup {k}
\* The sessions with an operation outstanding once k has gone on: a session
\* that broke out of its loop starts none.
Outstanding(k) == IF Proceed(k) = "closed" THEN pending ELSE pending \cup {k}

\* Thread c takes the head of its queue.
RunHandler(c) ==
  /\ thread[c] = "run"
  /\ ready[c] # << >>
  /\ running' = [running EXCEPT ![c] = Head(ready[c])]
  /\ ready' = [ready EXCEPT ![c] = Tail(@)]
  /\ thread' = [thread EXCEPT ![c] = "busy"]
  /\ UNCHANGED <<m_next_io_context, m_threads, handed, acceptVars, socketCtx,
                 sessionVars, peerVars>>

\* The handler runs to its end: a callback stores its result and resumes the
\* coroutine through its executor; a resumed session goes on to its next
\* co_await, with a fresh awaiter.
HandlerReturns(c) ==
  /\ running[c] # None
  /\ LET e == running[c] IN
     \/ /\ e.who = Acceptor
        /\ accepted' = e.ec
        /\ main' = "resumed"
        /\ UNCHANGED <<ready, sessionVars>>
     \/ /\ e.kind = "callback" /\ e.who \in Conns
        /\ m_ec' = [m_ec EXCEPT ![e.who] = StoredEc(e.who, e.ec)]
        /\ Post(m_executor_map[socketCtx[e.who]], e.who, "resume", "ok")
        /\ UNCHANGED <<main, accepted, at, pending>>
     \/ /\ e.kind = "resume"
        /\ at' = [at EXCEPT ![e.who] = Proceed(e.who)]
        /\ pending' = Outstanding(e.who)
        /\ m_ec' = [m_ec EXCEPT ![e.who] = None]
        /\ UNCHANGED <<ready, main, accepted>>
  /\ running' = [running EXCEPT ![c] = None]
  /\ thread' = [thread EXCEPT ![c] = "run"]
  /\ UNCHANGED <<m_next_io_context, m_threads, handed, m_executor_map, accept,
                 socketCtx, peerVars>>

Main == Listen \/ Unwind \/ AwaitAccept \/ ResumeAccept

Next ==
  \/ StartThread
  \/ Listen
  \/ Unwind
  \/ AwaitAccept
  \/ ResumeAccept
  \/ AcceptCompletes
  \/ AcceptFails
  \/ \E k \in Conns : Connect(k)
  \/ \E k \in Conns : Send(k)
  \/ \E k \in Conns : Close(k)
  \/ \E k \in Conns : TimerFires(k)
  \/ \E k \in Conns : ReadCompletes(k)
  \/ \E k \in Conns : WriteCompletes(k)
  \/ \E c \in Ctx : RunHandler(c)
  \/ \E c \in Ctx : HandlerReturns(c)

SafeSpec == Init /\ [][Next]_vars

\* The threads are scheduled, the kernel completes what it can complete and the
\* timer expires.  A client need not do anything; a write to an open peer need
\* not complete.
Fairness ==
  /\ WF_vars(StartThread)
  /\ WF_vars(Main)
  /\ WF_vars(AcceptCompletes)
  /\ \A c \in Ctx : WF_vars(RunHandler(c)) /\ WF_vars(HandlerReturns(c))
  /\ \A k \in Conns :
       /\ WF_vars(TimerFires(k))
       /\ WF_vars(ReadCompletes(k))
       /\ WF_vars(peer[k] = "closed" /\ WriteCompletes(k))

Spec == SafeSpec /\ Fairness
-----------------------------------------------------------------------------
\* What thread c runs or will run.
Held(c) == ready[c] \o (IF running[c] = None THEN << >> ELSE <<running[c]>>)

\* A session's code and the callbacks of its socket and timer are only ever
\* queued on and run by one context, so one thread runs them: the coroutine
\* frame and the awaiters in it need no lock.
SessionConfined ==
  \A c \in Ctx : \A n \in DOMAIN Held(c) :
    LET who == Held(c)[n].who IN
      IF who = Acceptor THEN c = 0 ELSE c = socketCtx[who]

\* A coroutine that waits for a pool thread: a session under way, and start()
\* between its async_accept and the callback's handle.resume().
Suspended(w) ==
  IF w = Acceptor THEN main = "accepting" ELSE at[w] \notin {"none", "closed"}
Operating(w) == IF w = Acceptor THEN accept = "pending" ELSE w \in pending

\* Every suspended coroutine, the accept loop's included, has exactly one thing
\* that will resume it: its outstanding operation, one queue entry or a running
\* handler.  None is resumed twice, none is forgotten, and one that goes on or
\* is closed is not touched.
ResumedOnce ==
  \A w \in Conns \cup {Acceptor} :
    LET entries == {p \in Ctx \X (1 .. Cardinality(Conns) + 2) :
                      p[2] <= Len(Held(p[1])) /\ Held(p[1])[p[2]].who = w}
    IN  Cardinality(entries) + (IF Operating(w) THEN 1 ELSE 0)
          = (IF Suspended(w) THEN 1 ELSE 0)

\* A session ends only when its peer has closed and all it sent was read: no
\* error but that of its own last read ends it, not one of a write before it
\* nor one of another session's.  A session that has ended is not reopened.
ReadsToTheEnd ==
  [][\A k \in Conns :
       LET over == at[k] = "closed"
       IN  (over => over') /\ (over' => peer'[k] = "closed" /\ inbox'[k] = 0)
    ]_vars

\* The steps of the accept loop and of the sessions use the pool only as
\* IoContextPool allows, with queues never longer than one entry per session
\* and one for the acceptor.
PoolUse == Pool!SafeSpec

\* A connection is accepted however long other sessions stay silent or blocked
\* in a write, and whichever accepts failed before it.
Accepted == \A k \in Conns : peer[k] = "open" ~> at[k] # "none"

\* A session ends once its peer is gone, also when the peer goes while it is in
\* the backlog, during the two-second wait or in the middle of a write.
SessionEnds == \A k \in Conns : peer[k] = "closed" ~> at[k] = "closed"

\* What the catch clause of main() says of an exception thrown by start(): it
\* is logged and main() returns.
StartupErrorCaught == main # "terminated"
=============================================================================
