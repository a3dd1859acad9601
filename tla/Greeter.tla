------------------------------ MODULE Greeter ------------------------------
(***************************************************************************)
(* include/greeter_async_server.h and include/greeter_async_client.h, the  *)
(* asynchronous gRPC greeter that src/test.cpp starts: CallData objects    *)
(* driven by completion-queue events, handled by one or more threads in    *)
(* HandleRpcs() ("This can be run in multiple threads if needed"), and     *)
(* clients blocked in SayHello().                                          *)
(*                                                                         *)
(* A CallData object is an address; delete frees it and new may hand it    *)
(* out again.  Each statement of Proceed() that touches the object or the  *)
(* gRPC runtime is a step of its own.  The runtime (completion queue,      *)
(* matching of calls to requests, delivery of replies) is external.        *)
(***************************************************************************)
EXTENDS Naturals, FiniteSets

CONSTANTS
  Threads,    \* threads that run HandleRpcs()
  Calls,      \* SayHello() calls, each named by its user
  CallData,   \* addresses
  MaxDrops,   \* bound: calls whose client goes away before the reply
  None

\* Enough addresses for one waiting CallData per thread and one per call.
ASSUME GreeterAssumption ==
  /\ IsFiniteSet(Threads) /\ IsFiniteSet(Calls) /\ IsFiniteSet(CallData)
  /\ Cardinality(CallData) >= Cardinality(Threads) + Cardinality(Calls)
  /\ None \notin Calls /\ None \notin CallData
  /\ MaxDrops \in Nat

VARIABLES
  server,     \* Run(): "starting", "listening" or, when the port is taken,
              \* "unbuilt"; the process has ended: "aborted" by GPR_ASSERT(ok),
              \* "crashed" by the use of a server that is not there
  status_,    \* per address: CREATE, PROCESS, FINISH or "free"
  request_,   \* per address: the call whose name request_ holds
  reply_,     \* per address: the message in reply_
  pc,         \* per thread: its next statement
  tag,        \* per thread: the CallData it runs Proceed() of
  fresh,      \* per thread: the CallData it is constructing
  requested,  \* runtime: CallData waiting for a call
  finishing,  \* runtime: CallData whose Finish() is under way
  cq,         \* runtime: events <<tag, ok>> not yet taken by Next()
  wire,       \* calls sent and not yet matched
  calling,    \* calls whose SayHello() has not returned
  dropped,    \* calls whose client went away
  result      \* per call: what SayHello() returned

objVars == <<status_, request_, reply_>>
threadVars == <<pc, tag, fresh>>
rtVars == <<requested, finishing, cq>>
callVars == <<wire, calling, dropped, result>>
vars == <<server, objVars, threadVars, rtVars, callVars>>

Hello(n) == <<"Hello", n>>
Failed == <<"RPC failed">>

Message == {Hello(c) : c \in Calls}
Label == {"start", "new", "Proceed", "toPROCESS", "RequestSayHello",
          "set_message", "toFINISH", "Finish", "delete", "Next", "aborted"}

TypeOK ==
  /\ server \in {"starting", "listening", "unbuilt", "aborted", "crashed"}
  /\ status_ \in [CallData -> {"free", "CREATE", "PROCESS", "FINISH"}]
  /\ request_ \in [CallData -> Calls \cup {None}]
  /\ reply_ \in [CallData -> Message \cup {None}]
  /\ pc \in [Threads -> Label]
  /\ tag \in [Threads -> CallData \cup {None}]
  /\ fresh \in [Threads -> CallData \cup {None}]
  /\ requested \subseteq CallData /\ finishing \subseteq CallData
  /\ cq \subseteq CallData \X BOOLEAN
  /\ wire \subseteq Calls /\ calling \subseteq Calls /\ dropped \subseteq Calls
  /\ result \in [Calls -> Message \cup {Failed, None}]

Init ==
  /\ server = "starting"
  /\ status_ = [d \in CallData |-> "free"]
  /\ request_ = [d \in CallData |-> None]
  /\ reply_ = [d \in CallData |-> None]
  /\ pc = [t \in Threads |-> "start"]
  /\ tag = [t \in Threads |-> None]
  /\ fresh = [t \in Threads |-> None]
  /\ requested = {} /\ finishing = {} /\ cq = {}
  /\ wire = {} /\ calling = {} /\ dropped = {}
  /\ result = [c \in Calls |-> None]
-----------------------------------------------------------------------------
(* The server's threads. *)

\* Run() up to BuildAndStart(), whose result is not looked at.
BuildAndStart ==
  /\ server = "starting"
  /\ server' \in {"listening", "unbuilt"}
  /\ UNCHANGED <<objVars, threadVars, rtVars, callVars>>

\* The CallData the thread's current Proceed() is called on.
This(t) == IF fresh[t] # None THEN fresh[t] ELSE tag[t]

M_After(l) ==
  CASE l = "toPROCESS" -> "RequestSayHello"
    [] l = "set_message" -> "Finish"
    [] l = "Finish" -> "toFINISH"
    [] l \in {"toFINISH", "delete"} -> "Next"
M_AfterNoFinish(l) ==
  CASE l = "toPROCESS" -> "RequestSayHello"
    [] l = "set_message" -> "toFINISH"
    [] l \in {"toFINISH", "delete"} -> "Next"
\* The order of the statements in Proceed(), and back to the loop.
After(l) ==
  CASE l = "toPROCESS" -> "RequestSayHello"
    [] l = "set_message" -> "toFINISH"
    [] l = "toFINISH" -> "Finish"
    [] l \in {"Finish", "delete"} -> "Next"

\* Thread t goes on at l; back in the loop it holds no CallData.
Goto(t, l) ==
  /\ pc' = [pc EXCEPT ![t] = l]
  /\ tag' = IF l = "Next" THEN [tag EXCEPT ![t] = None] ELSE tag

\* HandleRpcs() is entered.
HandleRpcs(t) ==
  /\ server \in {"listening", "unbuilt"}
  /\ pc[t] = "start"
  /\ Goto(t, "new")
  /\ UNCHANGED <<server, objVars, fresh, rtVars, callVars>>

\* new CallData(...), whose constructor calls Proceed().
New(t) ==
  /\ pc[t] = "new"
  /\ \E d \in CallData :
       /\ status_[d] = "free"
       /\ status_' = [status_ EXCEPT ![d] = "CREATE"]
       /\ request_' = [request_ EXCEPT ![d] = None]
       /\ reply_' = [reply_ EXCEPT ![d] = None]
       /\ fresh' = [fresh EXCEPT ![t] = d]
  /\ Goto(t, "Proceed")
  /\ UNCHANGED <<server, rtVars, callVars>>

M_Branch(s) ==
  CASE s = "CREATE" -> "toPROCESS"
    [] s = "PROCESS" -> "set_message"
    [] OTHER -> "delete"
\* The branch Proceed() takes for a status.
Branch(s) ==
  CASE s = "CREATE" -> "toPROCESS"
    [] s = "PROCESS" -> "new"
    [] OTHER -> "delete"

\* Proceed() reads status_.
Proceed(t) ==
  /\ pc[t] = "Proceed"
  /\ Goto(t, Branch(status_[This(t)]))
  /\ UNCHANGED <<server, objVars, fresh, rtVars, callVars>>

\* status_ = PROCESS and status_ = FINISH.
SetStatus(t, l, s) ==
  /\ pc[t] = l
  /\ status_' = [status_ EXCEPT ![This(t)] = s]
  /\ Goto(t, After(l))
  /\ UNCHANGED <<server, request_, reply_, fresh, rtVars, callVars>>

\* RequestSayHello(..., this), after which the constructor returns: to
\* HandleRpcs() for its first CallData, else to the Proceed() that spawned it.
RequestSayHello(t) ==
  /\ pc[t] = "RequestSayHello"
  /\ requested' = requested \cup {This(t)}
  /\ fresh' = [fresh EXCEPT ![t] = None]
  /\ Goto(t, IF tag[t] = None THEN "Next" ELSE "set_message")
  /\ UNCHANGED <<server, objVars, finishing, cq, callVars>>

\* The process ends, with every thread in it.
Abort(how) ==
  /\ server' = how
  /\ pc' = [u \in Threads |-> "aborted"]

\* Without a server, service_ has a pointer to one that is gone: the process
\* ends, or RequestSayHello() asks for calls that nobody accepts.
RequestCrash(t) ==
  /\ pc[t] = "RequestSayHello" /\ server = "unbuilt"
  /\ Abort("crashed")
  /\ UNCHANGED <<objVars, tag, fresh, rtVars, callVars>>

\* prefix + request_.name()
Greeting(d) == Hello(request_[d])

\* reply_.set_message(...)
SetMessage(t) ==
  /\ pc[t] = "set_message"
  /\ reply_' = [reply_ EXCEPT ![This(t)] = Greeting(This(t))]
  /\ Goto(t, After(pc[t]))
  /\ UNCHANGED <<server, status_, request_, fresh, rtVars, callVars>>

\* responder_.Finish(reply_, Status::OK, this)
Finish(t) ==
  /\ pc[t] = "Finish"
  /\ finishing' = finishing \cup {This(t)}
  /\ Goto(t, After(pc[t]))
  /\ UNCHANGED <<server, objVars, fresh, requested, cq, callVars>>

\* delete this
Delete(t) ==
  /\ pc[t] = "delete"
  /\ status_' = [status_ EXCEPT ![This(t)] = "free"]
  /\ Goto(t, After(pc[t]))
  /\ UNCHANGED <<server, request_, reply_, fresh, rtVars, callVars>>

\* cq_->Next(&tag, &ok), GPR_ASSERT(ok), which ends the process if it fails,
\* and the call of Proceed().
NextEvent(t) ==
  /\ pc[t] = "Next"
  /\ \E e \in cq :
       /\ cq' = cq \ {e}
       /\ tag' = [tag EXCEPT ![t] = e[1]]
       /\ \/ e[2] /\ server' = server /\ pc' = [pc EXCEPT ![t] = "Proceed"]
          \/ ~e[2] /\ Abort("aborted")
  /\ UNCHANGED <<objVars, fresh, requested, finishing, callVars>>

Thread(t) ==
  \/ HandleRpcs(t)
  \/ New(t)
  \/ Proceed(t)
  \/ SetStatus(t, "toPROCESS", "PROCESS")
  \/ SetStatus(t, "toFINISH", "FINISH")
  \/ RequestSayHello(t)
  \/ RequestCrash(t)
  \/ SetMessage(t)
  \/ Finish(t)
  \/ Delete(t)
  \/ NextEvent(t)
-----------------------------------------------------------------------------
(* The gRPC runtime. *)

\* A call that arrived is given to a CallData that waits for one.
Match(c, d) ==
  /\ server = "listening"
  /\ c \in wire /\ d \in requested
  /\ wire' = wire \ {c}
  /\ requested' = requested \ {d}
  /\ request_' = [request_ EXCEPT ![d] = c]
  /\ cq' = cq \cup {<<d, TRUE>>}
  /\ UNCHANGED <<server, status_, reply_, threadVars, finishing, calling,
                 dropped, result>>

M_Delivered(d) == [result EXCEPT ![request_[d]] = Hello(reply_[d])]
\* SayHello() returns reply.message().
Delivered(d) == [result EXCEPT ![request_[d]] = reply_[d]]

\* The reply goes out: the client's cq.Next() returns tag 1, ok and an OK
\* status.  If the client is gone it learns nothing, and ok is false unless the
\* transport had taken the reply before.
FinishDone(d) ==
  /\ server = "listening"
  /\ d \in finishing
  /\ finishing' = finishing \ {d}
  /\ \/ /\ request_[d] \notin dropped
        /\ cq' = cq \cup {<<d, TRUE>>}
        /\ calling' = calling \ {request_[d]}
        /\ result' = Delivered(d)
     \/ /\ request_[d] \in dropped
        /\ \E ok \in BOOLEAN : cq' = cq \cup {<<d, ok>>}
        /\ UNCHANGED <<calling, result>>
  /\ UNCHANGED <<server, objVars, threadVars, requested, wire, dropped>>
-----------------------------------------------------------------------------
(* The clients. *)

\* SayHello(): PrepareAsyncSayHello, StartCall, Finish, and blocks in Next().
SayHello(c) ==
  /\ c \notin calling /\ c \notin dropped /\ result[c] = None
  /\ calling' = calling \cup {c}
  /\ wire' = wire \cup {c}
  /\ UNCHANGED <<server, objVars, threadVars, rtVars, dropped, result>>

\* No server listens on the port, not yet or no longer: the status is not ok.
Unavailable(c) ==
  /\ server # "listening"
  /\ c \in calling
  /\ wire' = wire \ {c}
  /\ calling' = calling \ {c}
  /\ result' = [result EXCEPT ![c] = Failed]
  /\ UNCHANGED <<server, objVars, threadVars, rtVars, dropped>>

\* The client's process ends while it waits.
Drop(c) ==
  /\ c \in calling /\ Cardinality(dropped) < MaxDrops
  /\ calling' = calling \ {c}
  /\ wire' = wire \ {c}
  /\ dropped' = dropped \cup {c}
  /\ UNCHANGED <<server, objVars, threadVars, rtVars, result>>

Next ==
  \/ BuildAndStart
  \/ \E t \in Threads : Thread(t)
  \/ \E c \in Calls, d \in CallData : Match(c, d)
  \/ \E d \in CallData : FinishDone(d)
  \/ \E c \in Calls : SayHello(c)
  \/ \E c \in Calls : Unavailable(c)
  \/ \E c \in Calls : Drop(c)

SafeSpec == Init /\ [][Next]_vars

\* Threads run and the runtime makes progress, also in telling a client that
\* nobody listens; nobody has to call.
Fairness ==
  /\ WF_vars(BuildAndStart)
  /\ \A t \in Threads : WF_vars(Thread(t))
  /\ WF_vars(\E c \in Calls, d \in CallData : Match(c, d))
  /\ WF_vars(\E d \in CallData : FinishDone(d))
  /\ \A c \in Calls : WF_vars(Unavailable(c))

Spec == SafeSpec /\ Fairness
-----------------------------------------------------------------------------
Holders(d) ==
  {<<"this", t>> : t \in {u \in Threads : tag[u] = d}}
    \cup {<<"fresh", t>> : t \in {u \in Threads : fresh[u] = d}}
    \cup {<<"requested", d>> : x \in {y \in requested : y = d}}
    \cup {<<"finishing", d>> : x \in {y \in finishing : y = d}}
    \cup {<<"cq", e>> : e \in {f \in cq : f[1] = d}}

\* Every live CallData is in exactly one place: one thread, one operation of
\* the runtime or one event.  No thread touches an object another thread has or
\* has deleted, none is deleted twice, and none is lost without being deleted.
SoleHolder ==
  \A d \in CallData :
    Cardinality(Holders(d)) = (IF status_[d] = "free" THEN 0 ELSE 1)

Idle(t) == pc[t] = "Next"

\* When all threads are back in Next() with no event to take and no reply under
\* way, exactly one CallData per thread is left, and waits for the next client:
\* serving a call neither uses up nor multiplies the listeners.
ListenersConserved ==
  (\A t \in Threads : Idle(t)) /\ cq = {} /\ finishing = {} =>
    /\ Cardinality(requested) = Cardinality(Threads)
    /\ \A d \in CallData : status_[d] # "free" => d \in requested

Service == INSTANCE GreeterService WITH left <- dropped

\* With any number of handler threads and any reuse of addresses, each call
\* gets one answer, to its own request, and each that is not left gets one: also
\* when other clients go away, GPR_ASSERT(ok) ends the server, or the server
\* never got its port.
Greets == Service!Spec

\* GPR_ASSERT(ok) in HandleRpcs(): no event the loop takes has failed.
AssertOk == server # "aborted"
=============================================================================
