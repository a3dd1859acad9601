------------------------- MODULE RedisAwaiterProofs -------------------------
(***************************************************************************)
(* Proofs about RedisAwaiter, for a thread pool of every size: the         *)
(* coroutine is resumed at most once for each command it awaits, it goes   *)
(* on from a failed command only if that is HMSET, and what it prints for  *)
(* "name" is what it has set.                                              *)
(***************************************************************************)
EXTENDS RedisAwaiter, FiniteSetTheorems, TLAPS

\* A continuation that has called handle.resume().
Delivered(c) == func[c] \in {"resumed", "done"}

\* A command the coroutine has not issued yet has left no trace.
AheadUntouched ==
  \A i \in DOMAIN Script : (i > step \/ (i = step /\ main = "issue")) =>
    /\ future[Script[i]] = "none"
    /\ func[Script[i]] = "none"
    /\ Script[i] \notin attached

\* The coroutine goes past a command, or throws what the command left, only
\* when its continuation resumed it.
BehindDelivered ==
  \A i \in DOMAIN Script :
    (i < step \/ (i = step /\ main \in {"return", "exited", "terminated"})) =>
      Delivered(Script[i])

\* Between the call and then() the future may be set, but nothing is submitted.
SuspendFresh ==
  main = "suspend" =>
    future[current] # "none" /\ func[current] = "none" /\ current \notin attached

\* Once then() has returned, the continuation is submitted if the future is set.
WaitAttached ==
  main = "wait" =>
    /\ current \in attached
    /\ func[current] = "none" => future[current] = "pending"

\* Continuations are submitted for futures that are set, and only for those.
SubmittedIsSet ==
  \A c \in Cmd : func[c] # "none" => future[c] \in {"ok", "error"}

\* The one resumption that is due is the current command's.
ReadyIsCurrent ==
  ready = (IF main = "wait" /\ Delivered(current) THEN 1 ELSE 0)

\* Outside FutureAwaiter<void> a continuation that reaches handle.resume()
\* with _exception null has found a value in the future.
FailureKept ==
  \A c \in Cmd \ Void :
    func[c] \in {"stored", "resumed", "done"} /\ c \notin exception => future[c] = "ok"

\* The coroutine has gone on only from commands that succeeded, those awaited
\* with FutureAwaiter<void> excepted.
PassedOk ==
  \A i \in DOMAIN Script :
    (i < step \/ main \in {"return", "exited"}) /\ Script[i] \notin Void =>
      future[Script[i]] = "ok"

\* A SET that succeeded stays in force: no other command writes the key.
SetHolds == future["set"] = "ok" => name = "ours"

Inv ==
  /\ TypeOK
  /\ AheadUntouched
  /\ BehindDelivered
  /\ SuspendFresh
  /\ WaitAttached
  /\ SubmittedIsSet
  /\ ReadyIsCurrent
  /\ FailureKept
  /\ PassedOk
  /\ SetHolds
  /\ NameIsOurs
-----------------------------------------------------------------------------
\* The four commands, spelt out.
LEMMA ScriptFacts ==
  /\ DOMAIN Script = 1 .. 4
  /\ Len(Script) = 4
  /\ Cmd = {"hmset", "set", "get", "hgetall"}
  /\ Script[1] = "hmset" /\ Script[2] = "set"
  /\ Script[3] = "get" /\ Script[4] = "hgetall"
  /\ \A i \in 1 .. 4 : Script[i] \in Cmd
  /\ \A i, j \in 1 .. 4 : Script[i] = Script[j] => i = j
<1>1. /\ DOMAIN Script = 1 .. 4
      /\ Len(Script) = 4
      /\ Script[1] = "hmset" /\ Script[2] = "set"
      /\ Script[3] = "get" /\ Script[4] = "hgetall"
  BY DEF Script
<1>2. \A i \in 1 .. 4 : i = 1 \/ i = 2 \/ i = 3 \/ i = 4
  OBVIOUS
<1>3. Cmd = {"hmset", "set", "get", "hgetall"}
  <2>1. Cmd = {Script[i] : i \in 1 .. 4}
    BY <1>1 DEF Cmd
  <2>2. QED
    BY <1>1, <1>2, <2>1
<1>4. QED
  BY <1>1, <1>2, <1>3

\* A continuation that is under way is the one the coroutine waits for.
LEMMA UnderWayIsCurrent ==
  ASSUME Inv, NEW c \in Cmd, func[c] \in {"queued", "stored"}
  PROVE  c = current /\ main = "wait"
<1>1. PICK i \in 1 .. 4 : c = Script[i]
  BY ScriptFacts DEF Cmd
<1>2. step \in 1 .. 4 /\ main \in MainState
  BY ScriptFacts DEF Inv, TypeOK
<1>3. ~(i > step)
  BY <1>1, ScriptFacts DEF Inv, AheadUntouched
<1>4. ~(i < step) /\ ~(i = step /\ main \in {"return", "exited", "terminated"})
  BY <1>1, ScriptFacts DEF Inv, BehindDelivered, Delivered
<1>5. i = step
  BY <1>2, <1>3, <1>4
<1>6. main # "issue"
  BY <1>1, <1>5, ScriptFacts DEF Inv, AheadUntouched
<1>7. main # "suspend"
  BY <1>1, <1>5 DEF Inv, SuspendFresh, current
<1>8. QED
  BY <1>1, <1>2, <1>4, <1>5, <1>6, <1>7 DEF current, MainState

\* main() starts with the invariant.
LEMMA InitInv == Init => Inv
BY ScriptFacts
DEF Init, Inv, TypeOK, FuncState, MainState, AheadUntouched, BehindDelivered, SuspendFresh,
    WaitAttached, SubmittedIsSet, ReadyIsCurrent, FailureKept, PassedOk, SetHolds, NameIsOurs, Delivered,
    current

\* Issuing the command keeps the invariant.
LEMMA IssueInv ==
  ASSUME Inv, Issue PROVE Inv'
<1>1. step \in 1 .. 4 /\ current \in Cmd /\ current' = current
  BY ScriptFacts DEF Inv, TypeOK, current, Issue
<1>2. future[current] = "none" /\ func[current] = "none" /\ current \notin attached
  BY <1>1, ScriptFacts DEF Inv, AheadUntouched, Issue, current
<1>3. TypeOK'
  BY <1>1 DEF Inv, TypeOK, Issue, MainState, redisVars
<1>4. AheadUntouched'
  BY <1>1, ScriptFacts DEF Inv, TypeOK, AheadUntouched, Issue, current
<1>5. BehindDelivered'
  BY <1>1, ScriptFacts DEF Inv, TypeOK, BehindDelivered, Delivered, Issue
<1>6. SuspendFresh' /\ WaitAttached' /\ SubmittedIsSet' /\ ReadyIsCurrent'
  BY <1>1, <1>2
  DEF Inv, TypeOK, SuspendFresh, WaitAttached, SubmittedIsSet, ReadyIsCurrent, Issue
<1>7. FailureKept' /\ PassedOk'
  BY <1>1, <1>2, ScriptFacts DEF Inv, TypeOK, FailureKept, PassedOk, Issue, current
<1>8. SetHolds' /\ NameIsOurs'
  BY <1>1, ScriptFacts DEF Inv, TypeOK, SetHolds, NameIsOurs, Issue, redisVars
<1>9. QED
  BY <1>3, <1>4, <1>5, <1>6, <1>7, <1>8 DEF Inv

\* then(), whether the future is set or not, keeps the invariant.
LEMMA AwaitSuspendInv ==
  ASSUME Inv, AwaitSuspend PROVE Inv'
<1>1. step \in 1 .. 4 /\ current \in Cmd /\ current' = current
  BY ScriptFacts DEF Inv, TypeOK, current, AwaitSuspend
<1>2. future[current] # "none" /\ func[current] = "none"
  BY DEF Inv, SuspendFresh, AwaitSuspend
<1>3. TypeOK'
  BY <1>1 DEF Inv, TypeOK, AwaitSuspend, FuncState, MainState, redisVars
<1>4. AheadUntouched'
  BY <1>1, ScriptFacts DEF Inv, TypeOK, AheadUntouched, AwaitSuspend, current
<1>5. BehindDelivered'
  BY <1>1, ScriptFacts
  DEF Inv, TypeOK, BehindDelivered, Delivered, AwaitSuspend, current
<1>6. SuspendFresh' /\ WaitAttached' /\ SubmittedIsSet' /\ ReadyIsCurrent'
  BY <1>1, <1>2
  DEF Inv, TypeOK, SuspendFresh, WaitAttached, SubmittedIsSet, ReadyIsCurrent, Delivered, AwaitSuspend
<1>7. FailureKept' /\ PassedOk'
  BY <1>1, <1>2, ScriptFacts DEF Inv, TypeOK, FailureKept, PassedOk, AwaitSuspend, current
<1>8. SetHolds' /\ NameIsOurs'
  BY DEF Inv, SetHolds, NameIsOurs, AwaitSuspend, redisVars
<1>9. QED
  BY <1>3, <1>4, <1>5, <1>6, <1>7, <1>8 DEF Inv

\* await_resume() that returns keeps the invariant: with _exception null the
\* command succeeded.  What get returns is the key's value, and the coroutine
\* had gone on from set.
LEMMA AwaitResumeInv ==
  ASSUME Inv, AwaitResume PROVE Inv'
<1>1. step \in 1 .. 4 /\ current \in Cmd
  BY ScriptFacts DEF Inv, TypeOK, current
<1>2. Delivered(current) /\ ready = 1
  BY DEF Inv, ReadyIsCurrent, AwaitResume, TakeUp
<1>3. TypeOK'
  BY <1>1, <1>2, ScriptFacts
  DEF Inv, TypeOK, AwaitResume, TakeUp, Result, redisVars, Key, MainState
<1>4. AheadUntouched'
  BY <1>1, ScriptFacts DEF Inv, TypeOK, AheadUntouched, AwaitResume, TakeUp
<1>5. BehindDelivered'
  BY <1>1, <1>2, ScriptFacts
  DEF Inv, TypeOK, BehindDelivered, Delivered, AwaitResume, TakeUp, current
<1>6. SuspendFresh' /\ WaitAttached' /\ SubmittedIsSet' /\ ReadyIsCurrent'
  BY <1>2 DEF Inv, SuspendFresh, WaitAttached, SubmittedIsSet, ReadyIsCurrent,
              AwaitResume, TakeUp
<1>7. FailureKept' /\ SetHolds'
  BY DEF Inv, FailureKept, SetHolds, AwaitResume, redisVars
<1>8. PassedOk'
  <2>1. current \notin Void => future[current] = "ok"
    BY <1>1, <1>2 DEF Inv, FailureKept, Delivered, AwaitResume, Rethrows
  <2>2. QED
    BY <1>1, <2>1, ScriptFacts
    DEF Inv, TypeOK, PassedOk, AwaitResume, TakeUp, current
<1>9. NameIsOurs'
  <2>1. CASE current = "get"
    <3>1. step = 3
      BY <1>1, <2>1, ScriptFacts DEF current
    <3>2. future["set"] = "ok"
      BY <3>1, ScriptFacts DEF Inv, PassedOk, Void
    <3>3. shown'["get"] = name /\ name = "ours"
      BY <2>1, <3>2 DEF Inv, TypeOK, SetHolds, AwaitResume, Result
    <3>4. QED
      BY <3>3 DEF NameIsOurs
  <2>2. CASE current # "get"
    BY <2>2 DEF Inv, TypeOK, NameIsOurs, AwaitResume
  <2>3. QED
    BY <2>1, <2>2
<1>10. QED
  BY <1>3, <1>4, <1>5, <1>6, <1>7, <1>8, <1>9 DEF Inv

\* await_resume() that throws keeps the invariant: the coroutine stays where it
\* is, and the command it threw for was delivered.
LEMMA AwaitRethrowInv ==
  ASSUME Inv, AwaitRethrow PROVE Inv'
<1>1. step \in 1 .. 4 /\ current \in Cmd /\ current' = current
  BY ScriptFacts DEF Inv, TypeOK, current, AwaitRethrow
<1>2. Delivered(current) /\ ready = 1
  BY DEF Inv, ReadyIsCurrent, AwaitRethrow, TakeUp
<1>3. TypeOK'
  BY <1>2 DEF Inv, TypeOK, AwaitRethrow, TakeUp, MainState, redisVars
<1>4. AheadUntouched' /\ BehindDelivered'
  BY <1>1, <1>2, ScriptFacts
  DEF Inv, TypeOK, AheadUntouched, BehindDelivered, Delivered, AwaitRethrow, current
<1>5. SuspendFresh' /\ WaitAttached' /\ SubmittedIsSet' /\ ReadyIsCurrent'
  BY <1>2 DEF Inv, SuspendFresh, WaitAttached, SubmittedIsSet, ReadyIsCurrent,
              AwaitRethrow, TakeUp
<1>6. FailureKept' /\ PassedOk' /\ SetHolds' /\ NameIsOurs'
  BY DEF Inv, FailureKept, PassedOk, SetHolds, NameIsOurs, AwaitRethrow, redisVars
<1>7. QED
  BY <1>3, <1>4, <1>5, <1>6 DEF Inv

\* The end of main() keeps the invariant.
LEMMA ExitInv ==
  ASSUME Inv, Exit PROVE Inv'
BY DEF Exit, Inv, TypeOK, MainState, AheadUntouched, BehindDelivered, SuspendFresh,
       WaitAttached, SubmittedIsSet, ReadyIsCurrent, FailureKept, PassedOk, SetHolds, NameIsOurs,
       Delivered, current, redisVars

\* Setting a future, before or after then(), keeps the invariant if the reply
\* leaves the keys in a state their writers allow.
LEMMA SetFutureInv ==
  ASSUME Inv, NEW c \in Cmd, NEW outcome \in {"ok", "error"},
         SetFuture(c, outcome), hash' \in Key, name' \in Key, SetHolds'
  PROVE  Inv'
<1>1. step \in 1 .. 4 /\ current \in Cmd /\ current' = current
  BY ScriptFacts DEF Inv, TypeOK, current, SetFuture
<1>2. PICK i \in 1 .. 4 : c = Script[i]
  BY ScriptFacts DEF Cmd
<1>3. func[c] = "none"
  BY DEF Inv, SubmittedIsSet, SetFuture
<1>4. i = step /\ main \in {"suspend", "wait"} /\ c = current
  <2>1. ~(i > step) /\ ~(i = step /\ main = "issue")
    BY <1>2, ScriptFacts DEF Inv, AheadUntouched, SetFuture
  <2>2. ~(i < step) /\ ~(i = step /\ main \in {"return", "exited", "terminated"})
    BY <1>2, <1>3, ScriptFacts DEF Inv, BehindDelivered, Delivered
  <2>3. QED
    BY <1>1, <1>2, <2>1, <2>2 DEF Inv, TypeOK, MainState, current
<1>5. TypeOK'
  BY DEF Inv, TypeOK, SetFuture, FuncState
<1>6. AheadUntouched' /\ BehindDelivered'
  BY <1>1, <1>2, <1>4, ScriptFacts
  DEF Inv, TypeOK, AheadUntouched, BehindDelivered, Delivered, SetFuture
<1>7. SuspendFresh' /\ WaitAttached' /\ SubmittedIsSet' /\ ReadyIsCurrent'
  BY <1>1, <1>3, <1>4
  DEF Inv, TypeOK, SuspendFresh, WaitAttached, SubmittedIsSet, ReadyIsCurrent,
      Delivered, SetFuture
<1>8. FailureKept' /\ PassedOk'
  BY <1>1, <1>2, <1>3, <1>4, ScriptFacts
  DEF Inv, TypeOK, FailureKept, PassedOk, SetFuture
<1>9. NameIsOurs'
  BY DEF Inv, NameIsOurs, SetFuture
<1>10. QED
  BY <1>5, <1>6, <1>7, <1>8, <1>9 DEF Inv

\* A reply, a refusal and a lost connection keep the invariant: only SET
\* writes the key "name", and it writes our value.
LEMMA ReplyInv ==
  ASSUME Inv, NEW c \in Cmd, Succeed(c) \/ Fail(c) PROVE Inv'
<1>1. hash' \in Key /\ name' \in Key
  BY DEF Succeed, Fail, Execute, redisVars, Inv, TypeOK, Key
<1>2. CASE Succeed(c)
  <2>1. SetHolds'
    BY <1>2, ScriptFacts DEF Inv, TypeOK, SetHolds, Succeed, SetFuture, Execute
  <2>2. QED
    BY <1>1, <1>2, <2>1, SetFutureInv DEF Succeed
<1>3. CASE Fail(c)
  <2>1. SetHolds'
    BY <1>3, ScriptFacts
    DEF Inv, TypeOK, SetHolds, Fail, SetFuture, Execute, redisVars
  <2>2. QED
    BY <1>1, <1>3, <2>1, SetFutureInv DEF Fail
<1>4. QED
  BY <1>2, <1>3

\* A continuation that starts keeps the invariant: it goes on to handle.resume()
\* with a value, with the exception, or as FutureAwaiter<void>'s.
LEMMA RunContinuationInv ==
  ASSUME Inv, NEW c \in Cmd, RunContinuation(c) PROVE Inv'
<1>1. c = current /\ main = "wait" /\ current' = current
  BY UnderWayIsCurrent DEF RunContinuation, current
<1>2. step \in 1 .. 4 /\ c = Script[step]
  BY <1>1, ScriptFacts DEF Inv, TypeOK, current
<1>3. TypeOK'
  BY DEF Inv, TypeOK, RunContinuation, FuncState, redisVars
<1>4. AheadUntouched' /\ BehindDelivered'
  BY <1>1, <1>2, ScriptFacts
  DEF Inv, TypeOK, AheadUntouched, BehindDelivered, Delivered, RunContinuation
<1>5. SuspendFresh' /\ WaitAttached' /\ SubmittedIsSet' /\ ReadyIsCurrent'
  BY <1>1 DEF Inv, TypeOK, SuspendFresh, WaitAttached, SubmittedIsSet,
              ReadyIsCurrent, Delivered, RunContinuation
<1>6. FailureKept'
  <2>1. future[c] \in {"ok", "error"}
    BY DEF Inv, SubmittedIsSet, RunContinuation
  <2>2. QED
    BY <2>1 DEF Inv, TypeOK, FailureKept, RunContinuation, Catches
<1>7. PassedOk' /\ SetHolds' /\ NameIsOurs'
  BY DEF Inv, PassedOk, SetHolds, NameIsOurs, RunContinuation, redisVars
<1>8. QED
  BY <1>3, <1>4, <1>5, <1>6, <1>7 DEF Inv

\* handle.resume() keeps the invariant: nothing was due before it.
LEMMA ResumeHandleInv ==
  ASSUME Inv, NEW c \in Cmd, ResumeHandle(c) PROVE Inv'
<1>1. c = current /\ main = "wait" /\ current' = current
  BY UnderWayIsCurrent DEF ResumeHandle, current
<1>2. step \in 1 .. 4 /\ c = Script[step]
  BY <1>1, ScriptFacts DEF Inv, TypeOK, current
<1>3. ready = 0 /\ ready' = 1
  BY <1>1 DEF Inv, ReadyIsCurrent, Delivered, ResumeHandle, Resumes
<1>4. TypeOK'
  BY <1>3 DEF Inv, TypeOK, ResumeHandle, FuncState, redisVars
<1>5. AheadUntouched' /\ BehindDelivered'
  BY <1>1, <1>2, ScriptFacts
  DEF Inv, TypeOK, AheadUntouched, BehindDelivered, Delivered, ResumeHandle
<1>6. SuspendFresh' /\ WaitAttached' /\ SubmittedIsSet' /\ ReadyIsCurrent'
  BY <1>1, <1>3 DEF Inv, TypeOK, SuspendFresh, WaitAttached, SubmittedIsSet,
                    ReadyIsCurrent, Delivered, ResumeHandle
<1>7. FailureKept' /\ PassedOk' /\ SetHolds' /\ NameIsOurs'
  BY DEF Inv, TypeOK, FailureKept, PassedOk, SetHolds, NameIsOurs, ResumeHandle, redisVars
<1>8. QED
  BY <1>4, <1>5, <1>6, <1>7 DEF Inv

\* The end of a continuation, however late, keeps the invariant.
LEMMA ContinuationReturnsInv ==
  ASSUME Inv, NEW c \in Cmd, ContinuationReturns(c) PROVE Inv'
<1>1. current' = current
  BY DEF ContinuationReturns, current
<1>2. TypeOK'
  BY DEF Inv, TypeOK, ContinuationReturns, FuncState, redisVars
<1>3. \A d \in Cmd : /\ Delivered(d)' <=> Delivered(d)
                     /\ func'[d] = "none" <=> func[d] = "none"
                     /\ func'[d] = "stored" <=> func[d] = "stored"
  BY DEF Inv, TypeOK, ContinuationReturns, Delivered
<1>4. current \in Cmd
  BY ScriptFacts DEF Inv, TypeOK, current
<1>5. AheadUntouched' /\ BehindDelivered'
  BY <1>3, ScriptFacts DEF Inv, AheadUntouched, BehindDelivered, ContinuationReturns
<1>6. SuspendFresh' /\ WaitAttached' /\ SubmittedIsSet' /\ ReadyIsCurrent'
  BY <1>1, <1>3, <1>4 DEF Inv, SuspendFresh, WaitAttached, SubmittedIsSet,
                          ReadyIsCurrent, ContinuationReturns
<1>7. FailureKept' /\ PassedOk' /\ SetHolds' /\ NameIsOurs'
  BY DEF Inv, TypeOK, FailureKept, PassedOk, SetHolds, NameIsOurs, ContinuationReturns, redisVars
<1>8. QED
  BY <1>2, <1>5, <1>6, <1>7 DEF Inv

\* Every step keeps the invariant.
LEMMA NextInv == Inv /\ [Next]_vars => Inv'
<1> SUFFICES ASSUME Inv, [Next]_vars PROVE Inv'
  OBVIOUS
<1>1. CASE UNCHANGED vars
  BY <1>1 DEF vars, redisVars, Inv, TypeOK, AheadUntouched, BehindDelivered,
       SuspendFresh, WaitAttached, SubmittedIsSet, ReadyIsCurrent, FailureKept, PassedOk,
       SetHolds, NameIsOurs, Delivered, current
<1>2. QED
  BY <1>1, IssueInv, AwaitSuspendInv, AwaitResumeInv, AwaitRethrowInv, ExitInv, ReplyInv,
     RunContinuationInv, ResumeHandleInv, ContinuationReturnsInv DEF Next

\* The invariant holds in every state of the program.
LEMMA Invariance == Spec => []Inv
BY InitInv, NextInv, PTL DEF Spec

\* Every variable keeps its type; ready in particular never exceeds one.
THEOREM TypeCorrect == Spec => []TypeOK
<1>1. Inv => TypeOK
  BY DEF Inv
<1>2. QED
  BY <1>1, Invariance, PTL

\* For a thread pool of every size at most one resumption of the coroutine is
\* queued or on its way, and a queued one is that of the awaited command.
THEOREM ResumedAtMostOnce == Spec => []ResumedOnce
<1>1. ASSUME Inv PROVE ResumedOnce
  <2> DEFINE S == {c \in Cmd : func[c] \in {"queued", "stored"}}
  <2>1. S \subseteq {current}
    BY <1>1, UnderWayIsCurrent
  <2>2. IsFiniteSet({current}) /\ Cardinality({current}) = 1
    BY FS_Singleton
  <2>3. Cardinality(S) \in Nat /\ Cardinality(S) <= 1
    BY <2>1, <2>2, FS_Subset, FS_CardinalityType
  <2>4. ready \in 0 .. 1
    BY <1>1 DEF Inv, TypeOK
  <2>5. ready > 0 => main = "wait" /\ func[current] \in {"resumed", "done"}
    BY <1>1 DEF Inv, ReadyIsCurrent, Delivered
  <2>6. ready = 1 => Cardinality(S) = 0
    BY <2>1, <2>5, FS_EmptySet
  <2>7. ready + Cardinality(S) <= 1
    BY <2>3, <2>4, <2>6
  <2>8. QED
    BY <2>5, <2>7 DEF ResumedOnce
<1>2. QED
  BY <1>1, Invariance, PTL

\* From a failed SET, GET or HGETALL the coroutine never goes on: the exception
\* is kept until await_resume() rethrows it.  Only HMSET's failure can be lost.
THEOREM FailureRethrown == Spec => []PassedOk
<1>1. Inv => PassedOk
  BY DEF Inv
<1>2. QED
  BY <1>1, Invariance, PTL

\* What get returns to the coroutine is the value that set has written,
\* whichever commands fail and whichever replies are lost.
THEOREM NamePrintedIsOurs == Spec => []NameIsOurs
<1>1. Inv => NameIsOurs
  BY DEF Inv
<1>2. QED
  BY <1>1, Invariance, PTL
=============================================================================
