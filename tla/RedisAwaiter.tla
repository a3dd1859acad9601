---------------------------- MODULE RedisAwaiter ----------------------------
(***************************************************************************)
(* src/test_redis++.cpp: FutureAwaiter<T> and FutureAwaiter<void> turn the *)
(* boost::future of an AsyncRedis command into something a coroutine can   *)
(* await; main() awaits four commands this way.                            *)
(*                                                                         *)
(* Four parties interleave: the coroutine on the main thread, the thread   *)
(* of AsyncRedis that sets futures, the threads of the pool (and, for the  *)
(* command awaited without one, a thread of its own) that run the          *)
(* continuations, and folly, which queues a resumed coroutine on the main  *)
(* thread.  Redis holds two keys, which no other client changes meanwhile. *)
(***************************************************************************)
EXTENDS Naturals, Sequences, FiniteSets

CONSTANT Workers     \* size of the thread pool

ASSUME WorkersAssumption == Workers \in Nat \ {0}

\* The commands in the order of the coroutine's body.
Script == <<"hmset", "set", "get", "hgetall">>
Cmd == {Script[i] : i \in DOMAIN Script}

\* hmset is awaited with FutureAwaiter<void>; hgetall without the pool.
Void == {"hmset"}
Pooled == {"hmset", "set", "get"}

VARIABLES
  step,       \* the coroutine's command, an index into Script
  main,       \* where main() is: one of MainState
  future,     \* per command: "none", "pending", "ok" or "error"
  attached,   \* commands whose future has its continuation
  func,       \* per command: how far its continuation is
  exception,  \* commands whose awaiter has its _exception set
  ready,      \* resumptions of the coroutine queued on the main thread
  hash,       \* state of the key "hash"
  name,       \* state of the key "name"
  shown       \* per reading command: the value it returned to the coroutine

redisVars == <<hash, name>>
vars == <<step, main, future, attached, func, exception, ready, redisVars, shown>>

\* "ours" is what this program writes; "wrongtype" holds another type of value.
Key == {"absent", "ours", "foreign", "wrongtype"}
FuncState == {"none", "queued", "stored", "resumed", "done"}

\* main() may end by returning ("exited") or by an exception ("terminated").
MainState == {"issue", "suspend", "wait", "return", "exited", "terminated"}

TypeOK ==
  /\ step \in DOMAIN Script
  /\ main \in MainState
  /\ future \in [Cmd -> {"none", "pending", "ok", "error"}]
  /\ attached \subseteq Cmd
  /\ func \in [Cmd -> FuncState]
  /\ exception \subseteq Cmd
  /\ ready \in 0 .. 1
  /\ hash \in Key /\ name \in Key
  /\ shown \in [{"get", "hgetall"} -> Key \cup {"unset"}]

Init ==
  /\ step = 1
  /\ main = "issue"
  /\ future = [c \in Cmd |-> "none"]
  /\ attached = {}
  /\ func = [c \in Cmd |-> "none"]
  /\ exception = {}
  /\ ready = 0
  /\ hash \in Key /\ name \in Key
  /\ shown = [c \in {"get", "hgetall"} |-> "unset"]

current == Script[step]
-----------------------------------------------------------------------------
(* The coroutine.                                                          *)

\* async_redis_cli.hmset(...) and its like return a future.
Issue ==
  /\ main = "issue"
  /\ future' = [future EXCEPT ![current] = "pending"]
  /\ main' = "suspend"
  /\ UNCHANGED <<step, attached, func, exception, ready, redisVars, shown>>

\* await_suspend: _future.then(...).  The continuation of a future that is
\* already set is submitted at once; it may finish before then() returns, but
\* the main thread takes up the coroutine only after await_suspend.
AwaitSuspend ==
  /\ main = "suspend"
  /\ attached' = attached \cup {current}
  /\ func' = IF future[current] = "pending" THEN func
             ELSE [func EXCEPT ![current] = "queued"]
  /\ main' = "wait"
  /\ UNCHANGED <<step, future, exception, ready, redisVars, shown>>

\* The main thread takes up the coroutine that was resumed.
TakeUp ==
  /\ main = "wait"
  /\ ready > 0
  /\ ready' = ready - 1

M_NeverRethrows(c) == FALSE
\* if (_exception) std::rethrow_exception(_exception)
Rethrows(c) == c \in exception

\* _result, the reply that fut.get() returned.
Result(c) == IF c = "get" THEN name ELSE hash

\* await_resume returns _result, and the coroutine goes on.
AwaitResume ==
  /\ TakeUp
  /\ ~Rethrows(current)
  /\ shown' = [c \in DOMAIN shown |-> IF c = current THEN Result(c) ELSE shown[c]]
  /\ IF step < Len(Script) THEN step' = step + 1 /\ main' = "issue"
                           ELSE step' = step /\ main' = "return"
  /\ UNCHANGED <<future, attached, func, exception, redisVars>>

\* await_resume rethrows.  The exception ends the coroutine and comes out of
\* blockingWait(); main() does not catch it, and the process is terminated.
AwaitRethrow ==
  /\ TakeUp
  /\ Rethrows(current)
  /\ main' = "terminated"
  /\ UNCHANGED <<step, future, attached, func, exception, redisVars, shown>>

\* main() returns, and the pool's destructor joins its threads.
Exit ==
  /\ main = "return"
  /\ \A c \in Pooled : func[c] \in {"none", "done"}
  /\ main' = "exited"
  /\ UNCHANGED <<step, future, attached, func, exception, ready, redisVars, shown>>
-----------------------------------------------------------------------------
(* Redis and the thread of AsyncRedis.                                     *)

Refused(c) ==
  \/ c \in {"hmset", "hgetall"} /\ hash = "wrongtype"
  \/ c = "get" /\ name = "wrongtype"

Execute(c) ==
  /\ hash' = IF c = "hmset" THEN "ours" ELSE hash
  /\ name' = IF c = "set" THEN "ours" ELSE name

\* The future of c is set; its continuation is submitted if it has one.
SetFuture(c, outcome) ==
  /\ future[c] = "pending"
  /\ future' = [future EXCEPT ![c] = outcome]
  /\ func' = IF c \in attached THEN [func EXCEPT ![c] = "queued"] ELSE func
  /\ UNCHANGED <<step, main, attached, exception, ready, shown>>

Succeed(c) == ~Refused(c) /\ SetFuture(c, "ok") /\ Execute(c)

\* Redis refuses the command, or cannot be reached, or the reply is lost.
Fail(c) ==
  /\ SetFuture(c, "error")
  /\ UNCHANGED redisVars \/ (~Refused(c) /\ Execute(c))
-----------------------------------------------------------------------------
(* The continuations.                                                      *)

Busy == {c \in Pooled : func[c] \in {"stored", "resumed"}}

\* The continuation finds an exception.  fut.get() throws it; AsyncRedis gave
\* its promise a std::exception_ptr, and that object is what Boost rethrows: the
\* inner catch clause matches and keeps it.  fut.wait() does not throw.
Catches(c) == c \notin Void /\ future[c] = "error"

\* A thread takes the continuation and executes it up to handle.resume().
RunContinuation(c) ==
  /\ func[c] = "queued"
  /\ c \in Pooled => Cardinality(Busy) < Workers
  /\ func' = [func EXCEPT ![c] = "stored"]
  /\ exception' = IF Catches(c) THEN exception \cup {c} ELSE exception
  /\ UNCHANGED <<step, main, future, attached, ready, redisVars, shown>>

M_ResumesTwice(c) == IF future[c] = "error" THEN 2 ELSE 1
M_ResumesOnSuccess(c) == IF c \in exception THEN 0 ELSE 1
\* How often the continuation calls handle.resume(), after either outcome.
Resumes(c) == 1

\* handle.resume(): folly queues the coroutine on the main thread.
ResumeHandle(c) ==
  /\ func[c] = "stored"
  /\ ready' = ready + Resumes(c)
  /\ func' = [func EXCEPT ![c] = "resumed"]
  /\ UNCHANGED <<step, main, future, attached, exception, redisVars, shown>>

\* The continuation returns, unless the process ends before; by now the
\* coroutine may be far ahead.
ContinuationReturns(c) ==
  /\ main \notin {"exited", "terminated"}
  /\ func[c] = "resumed"
  /\ func' = [func EXCEPT ![c] = "done"]
  /\ UNCHANGED <<step, main, future, attached, exception, ready, redisVars, shown>>

Next ==
  \/ Issue
  \/ AwaitSuspend
  \/ AwaitResume
  \/ AwaitRethrow
  \/ Exit
  \/ \E c \in Cmd : Succeed(c)
  \/ \E c \in Cmd : Fail(c)
  \/ \E c \in Cmd : RunContinuation(c)
  \/ \E c \in Cmd : ResumeHandle(c)
  \/ \E c \in Cmd : ContinuationReturns(c)

\* The threads are scheduled, and AsyncRedis sets every future: to a value, or
\* to an exception if the connection or the command fails.
Fairness ==
  /\ WF_vars(Issue \/ AwaitSuspend \/ AwaitResume \/ AwaitRethrow \/ Exit)
  /\ \A c \in Cmd : /\ WF_vars(Succeed(c) \/ Fail(c))
                    /\ WF_vars(RunContinuation(c))
                    /\ WF_vars(ResumeHandle(c))
                    /\ WF_vars(ContinuationReturns(c))

Spec == Init /\ [][Next]_vars /\ Fairness
-----------------------------------------------------------------------------
\* The coroutine is resumed once for every suspension: whether the future was
\* set before or after then(), and however late earlier continuations return,
\* at most one resumption is due, and it is the current command's.
ResumedOnce ==
  /\ ready + Cardinality({c \in Cmd : func[c] \in {"queued", "stored"}}) <= 1
  /\ ready > 0 => main = "wait" /\ func[current] \in {"resumed", "done"}

\* The name the program prints is the one it has set: whether SET failed with
\* or without effect, await_resume does not let the coroutine go on to print
\* what the key held before.
NameIsOurs == shown["get"] # "unset" => shown["get"] = "ours"

\* main() never waits for ever: it returns, or it is left by the exception of
\* the very command it awaits.  A failed command must reach handle.resume()
\* like a successful one, and a run in which no command fails returns.
RunEnds ==
  <>(main = "exited" \/ (main = "terminated" /\ future[current] = "error"))

\* await_resume rethrows the failure of the command: the coroutine does not go
\* on from a command that failed.
FailureReported ==
  \A i \in DOMAIN Script :
    (i < step \/ main \in {"return", "exited"}) => future[Script[i]] = "ok"
=============================================================================
