--------------------------- MODULE GreeterProofs ---------------------------
(***************************************************************************)
(* Proofs about Greeter for every number of handler threads, of calls and  *)
(* of addresses: no CallData is shared, used after its deletion or lost;   *)
(* the listeners are conserved; and the steps of the server are steps of   *)
(* GreeterService.                                                         *)
(***************************************************************************)
EXTENDS Greeter, FiniteSetTheorems, TLAPS

\* CallData d has an event in the completion queue.
Queued(d) == \E e \in cq : e[1] = d

\* The CallData that spawns another, if there is one, is being processed.
SpawnerProcessing(t) == tag[t] = None \/ status_[tag[t]] = "PROCESS"

\* What a thread holds, and the status of it, at each of its statements.
ThreadAt(t) ==
  /\ pc[t] \in {"start", "Next"} => tag[t] = None /\ fresh[t] = None
  /\ pc[t] = "new" => fresh[t] = None /\ SpawnerProcessing(t)
  /\ pc[t] = "Proceed" =>
       \/ /\ fresh[t] # None /\ status_[fresh[t]] = "CREATE"
          /\ SpawnerProcessing(t)
       \/ /\ fresh[t] = None /\ tag[t] # None
          /\ status_[tag[t]] \in {"PROCESS", "FINISH"}
  /\ pc[t] = "toPROCESS" =>
       fresh[t] # None /\ status_[fresh[t]] = "CREATE" /\ SpawnerProcessing(t)
  /\ pc[t] = "RequestSayHello" =>
       fresh[t] # None /\ status_[fresh[t]] = "PROCESS" /\ SpawnerProcessing(t)
  /\ pc[t] \in {"set_message", "toFINISH"} =>
       fresh[t] = None /\ tag[t] # None /\ status_[tag[t]] = "PROCESS"
  /\ pc[t] \in {"Finish", "delete"} =>
       fresh[t] = None /\ tag[t] # None /\ status_[tag[t]] = "FINISH"

ThreadsAt == \A t \in Threads : ThreadAt(t)

\* No two threads hold the same CallData.
ThreadsApart ==
  \A t, u \in Threads :
    /\ tag[t] # None /\ tag[t] = tag[u] => t = u
    /\ fresh[t] # None /\ fresh[t] = fresh[u] => t = u
    /\ tag[t] # None => tag[t] # fresh[u]

\* What a thread holds the runtime does not.
RuntimeApart ==
  \A t \in Threads, d \in CallData :
    tag[t] = d \/ fresh[t] = d =>
      d \notin requested /\ d \notin finishing /\ ~Queued(d)

\* The runtime holds a CallData once, with the status its operation implies.
RuntimeOnce ==
  /\ \A d \in requested : d \notin finishing /\ ~Queued(d) /\ status_[d] = "PROCESS"
  /\ \A d \in finishing : ~Queued(d) /\ status_[d] = "FINISH"
  /\ \A e \in cq : status_[e[1]] \in {"PROCESS", "FINISH"}
  /\ \A e, f \in cq : e[1] = f[1] => e = f

Held(d) ==
  \/ \E t \in Threads : tag[t] = d \/ fresh[t] = d
  \/ d \in requested
  \/ d \in finishing
  \/ Queued(d)

\* An address is in use as long as somebody holds it.
LiveIffHeld == \A d \in CallData : status_[d] # "free" <=> Held(d)

\* CallData d serves a call that has not been answered.
Carrying(d) ==
  \/ Queued(d) /\ status_[d] = "PROCESS"
  \/ \E t \in Threads : tag[t] = d /\ (status_[d] = "PROCESS" \/ pc[t] = "Finish")
  \/ d \in finishing

CarriesCall == \A d \in CallData : Carrying(d) => request_[d] \in Calls

Ownership ==
  /\ TypeOK
  /\ ThreadsAt
  /\ ThreadsApart
  /\ RuntimeApart
  /\ RuntimeOnce
  /\ LiveIffHeld
  /\ CarriesCall
-----------------------------------------------------------------------------
\* The reply that is handed to Finish() greets the caller of the same CallData.
RepliesGreet ==
  /\ \A t \in Threads : pc[t] \in {"toFINISH", "Finish"} =>
       reply_[tag[t]] = Hello(request_[tag[t]])
  /\ \A d \in finishing : reply_[d] = Hello(request_[d])

\* Before BuildAndStart() nothing has happened in the server.
Unstarted ==
  server = "starting" =>
    /\ \A t \in Threads : pc[t] = "start"
    /\ requested = {} /\ finishing = {} /\ cq = {}

\* While the server listens, a call is on the wire or with one CallData, until
\* it is answered.
CallsTracked ==
  /\ wire \subseteq calling
  /\ server = "listening" =>
       \A d \in CallData : Carrying(d) =>
         /\ request_[d] \notin wire
         /\ request_[d] \in calling \cup dropped
         /\ \A e \in CallData : Carrying(e) /\ request_[d] = request_[e] => d = e

Serving == RepliesGreet /\ Unstarted /\ CallsTracked
-----------------------------------------------------------------------------
\* The CallData that wait for a call, or have one that no thread has taken up.
Listening == requested \cup {d \in CallData : Queued(d) /\ status_[d] = "PROCESS"}

\* The threads that do not owe the server a new listener.
Settled ==
  {t \in Threads :
    \/ pc[t] \in {"Next", "set_message", "toFINISH", "Finish", "delete"}
    \/ pc[t] = "Proceed" /\ fresh[t] = None /\ status_[tag[t]] = "FINISH"}

ListenersCounted ==
  (\A t \in Threads : pc[t] # "aborted") => Cardinality(Listening) = Cardinality(Settled)
-----------------------------------------------------------------------------
(* Ownership.                                                              *)

\* The server starts with the ownership invariant.
LEMMA OwnershipInit == Init => Ownership
BY GreeterAssumption
DEF Init, Ownership, TypeOK, Label, ThreadsAt, ThreadAt, ThreadsApart, RuntimeApart,
    RuntimeOnce, LiveIffHeld, Held, Queued, CarriesCall, Carrying

\* HandleRpcs() starts with no CallData.
LEMMA HandleRpcsOwnership ==
  ASSUME Ownership, NEW t \in Threads, HandleRpcs(t) PROVE Ownership'
<1>1. /\ pc[t] = "start" /\ pc' = [pc EXCEPT ![t] = "new"]
      /\ UNCHANGED <<server, status_, request_, reply_, tag, fresh, requested,
                     finishing, cq, wire, calling, dropped, result>>
  BY DEF HandleRpcs, Goto, objVars, rtVars, callVars
<1>2. TypeOK'
  BY <1>1 DEF Ownership, TypeOK, Label
<1>3. ThreadsAt'
  BY <1>1 DEF Ownership, TypeOK, ThreadsAt, ThreadAt, SpawnerProcessing
<1>4. ThreadsApart' /\ RuntimeApart' /\ RuntimeOnce' /\ LiveIffHeld'
  BY <1>1 DEF Ownership, ThreadsApart, RuntimeApart, RuntimeOnce, LiveIffHeld,
              Held, Queued
<1>5. CarriesCall'
  BY <1>1 DEF Ownership, TypeOK, CarriesCall, Carrying, Queued
<1>6. QED
  BY <1>2, <1>3, <1>4, <1>5 DEF Ownership

\* The address new returns is nobody's.
LEMMA NewOwnership ==
  ASSUME Ownership, NEW t \in Threads, New(t) PROVE Ownership'
<1>1. PICK d \in CallData :
        /\ pc[t] = "new" /\ pc' = [pc EXCEPT ![t] = "Proceed"]
        /\ status_[d] = "free"
        /\ status_' = [status_ EXCEPT ![d] = "CREATE"]
        /\ request_' = [request_ EXCEPT ![d] = None]
        /\ reply_' = [reply_ EXCEPT ![d] = None]
        /\ fresh' = [fresh EXCEPT ![t] = d]
        /\ UNCHANGED <<server, tag, requested, finishing, cq, wire, calling,
                       dropped, result>>
  BY DEF New, Goto, rtVars, callVars
<1>2. ~Held(d) /\ fresh[t] = None /\ SpawnerProcessing(t)
  BY <1>1 DEF Ownership, LiveIffHeld, ThreadsAt, ThreadAt
<1>3. TypeOK'
  BY <1>1 DEF Ownership, TypeOK, Label
<1>4. ThreadsAt'
  BY <1>1, <1>2, GreeterAssumption
  DEF Ownership, TypeOK, ThreadsAt, ThreadAt, SpawnerProcessing, Held
<1>5. ThreadsApart'
  BY <1>1, <1>2 DEF Ownership, TypeOK, ThreadsApart, Held
<1>6. RuntimeApart'
  BY <1>1, <1>2 DEF Ownership, TypeOK, RuntimeApart, Held, Queued
<1>7. RuntimeOnce'
  BY <1>1, <1>2 DEF Ownership, TypeOK, RuntimeOnce, Held, Queued
<1>8. LiveIffHeld'
  BY <1>1, <1>2, GreeterAssumption DEF Ownership, TypeOK, LiveIffHeld, Held, Queued
<1>9. CarriesCall'
  BY <1>1, <1>2 DEF Ownership, TypeOK, CarriesCall, Carrying, Held, Queued
<1>10. QED
  BY <1>3, <1>4, <1>5, <1>6, <1>7, <1>8, <1>9 DEF Ownership

\* The branch of Proceed() agrees with what the thread holds.
LEMMA ProceedOwnership ==
  ASSUME Ownership, NEW t \in Threads, Proceed(t) PROVE Ownership'
<1>1. /\ pc[t] = "Proceed"
      /\ pc' = [pc EXCEPT ![t] = Branch(status_[This(t)])]
      /\ Branch(status_[This(t)]) # "Next"
      /\ UNCHANGED <<server, status_, request_, reply_, tag, fresh, requested,
                     finishing, cq, wire, calling, dropped, result>>
  BY DEF Proceed, Goto, Branch, objVars, rtVars, callVars
<1>2. \/ /\ fresh[t] # None /\ pc'[t] = "toPROCESS"
         /\ status_[fresh[t]] = "CREATE" /\ SpawnerProcessing(t)
      \/ /\ fresh[t] = None /\ tag[t] # None /\ pc'[t] = "new"
         /\ status_[tag[t]] = "PROCESS"
      \/ /\ fresh[t] = None /\ tag[t] # None /\ pc'[t] = "delete"
         /\ status_[tag[t]] = "FINISH"
  BY <1>1 DEF Ownership, TypeOK, ThreadsAt, ThreadAt, This, Branch
<1>3. \A u \in Threads : u # t => pc'[u] = pc[u]
  BY <1>1 DEF Ownership, TypeOK
<1>4. TypeOK'
  BY <1>1 DEF Ownership, TypeOK, Branch, Label
<1>5. ThreadsAt'
  BY <1>1, <1>2, <1>3 DEF Ownership, ThreadsAt, ThreadAt, SpawnerProcessing
<1>6. ThreadsApart' /\ RuntimeApart' /\ RuntimeOnce' /\ LiveIffHeld'
  BY <1>1 DEF Ownership, ThreadsApart, RuntimeApart, RuntimeOnce, LiveIffHeld,
              Held, Queued
<1>7. CarriesCall'
  BY <1>1, <1>2, <1>3 DEF Ownership, CarriesCall, Carrying, Queued
<1>8. QED
  BY <1>4, <1>5, <1>6, <1>7 DEF Ownership

\* status_ = PROCESS is written to the CallData under construction.
LEMMA ToProcessOwnership ==
  ASSUME Ownership, NEW t \in Threads, SetStatus(t, "toPROCESS", "PROCESS")
  PROVE  Ownership'
<1>1. /\ pc[t] = "toPROCESS" /\ fresh[t] # None /\ fresh[t] \in CallData
      /\ status_[fresh[t]] = "CREATE" /\ SpawnerProcessing(t)
  BY DEF Ownership, TypeOK, ThreadsAt, ThreadAt, SetStatus
<1>2. /\ pc' = [pc EXCEPT ![t] = "RequestSayHello"]
      /\ status_' = [status_ EXCEPT ![fresh[t]] = "PROCESS"]
      /\ UNCHANGED <<server, request_, reply_, tag, fresh, requested,
                     finishing, cq, wire, calling, dropped, result>>
  BY <1>1 DEF SetStatus, Goto, After, This, rtVars, callVars
<1>3. /\ \A u \in Threads : tag[u] # fresh[t]
      /\ \A u \in Threads : u # t => fresh[u] # fresh[t]
      /\ fresh[t] \notin requested /\ fresh[t] \notin finishing /\ ~Queued(fresh[t])
  BY <1>1 DEF Ownership, ThreadsApart, RuntimeApart
<1>4. TypeOK'
  BY <1>1, <1>2 DEF Ownership, TypeOK, Label
<1>5. ThreadsAt'
  BY <1>1, <1>2, <1>3 DEF Ownership, TypeOK, ThreadsAt, ThreadAt, SpawnerProcessing
<1>6. ThreadsApart' /\ RuntimeApart'
  BY <1>2 DEF Ownership, ThreadsApart, RuntimeApart, Queued
<1>7. RuntimeOnce'
  BY <1>1, <1>2, <1>3 DEF Ownership, TypeOK, RuntimeOnce, Queued
<1>8. LiveIffHeld'
  BY <1>1, <1>2 DEF Ownership, TypeOK, LiveIffHeld, Held, Queued
<1>9. CarriesCall'
  BY <1>1, <1>2, <1>3 DEF Ownership, TypeOK, CarriesCall, Carrying, Queued
<1>10. QED
  BY <1>4, <1>5, <1>6, <1>7, <1>8, <1>9 DEF Ownership

\* status_ = FINISH is written to the CallData that served the call.
LEMMA ToFinishOwnership ==
  ASSUME Ownership, NEW t \in Threads, SetStatus(t, "toFINISH", "FINISH")
  PROVE  Ownership'
<1>1. /\ pc[t] = "toFINISH" /\ fresh[t] = None /\ tag[t] # None
      /\ tag[t] \in CallData /\ status_[tag[t]] = "PROCESS"
  BY DEF Ownership, TypeOK, ThreadsAt, ThreadAt, SetStatus
<1>2. /\ pc' = [pc EXCEPT ![t] = "Finish"]
      /\ status_' = [status_ EXCEPT ![tag[t]] = "FINISH"]
      /\ UNCHANGED <<server, request_, reply_, tag, fresh, requested,
                     finishing, cq, wire, calling, dropped, result>>
  BY <1>1 DEF SetStatus, Goto, After, This, rtVars, callVars
<1>3. /\ \A u \in Threads : fresh[u] # tag[t]
      /\ \A u \in Threads : u # t => tag[u] # tag[t]
      /\ tag[t] \notin requested /\ tag[t] \notin finishing /\ ~Queued(tag[t])
  BY <1>1 DEF Ownership, ThreadsApart, RuntimeApart
<1>4. TypeOK'
  BY <1>1, <1>2 DEF Ownership, TypeOK, Label
<1>5. ThreadsAt'
  BY <1>1, <1>2, <1>3 DEF Ownership, TypeOK, ThreadsAt, ThreadAt, SpawnerProcessing
<1>6. ThreadsApart' /\ RuntimeApart'
  BY <1>2 DEF Ownership, ThreadsApart, RuntimeApart, Queued
<1>7. RuntimeOnce'
  BY <1>1, <1>2, <1>3 DEF Ownership, TypeOK, RuntimeOnce, Queued
<1>8. LiveIffHeld'
  BY <1>1, <1>2 DEF Ownership, TypeOK, LiveIffHeld, Held, Queued
<1>9. CarriesCall'
  BY <1>1, <1>2, <1>3 DEF Ownership, TypeOK, CarriesCall, Carrying, Queued
<1>10. QED
  BY <1>4, <1>5, <1>6, <1>7, <1>8, <1>9 DEF Ownership

\* RequestSayHello() passes the new CallData from the thread to the runtime.
LEMMA RequestOwnership ==
  ASSUME Ownership, NEW t \in Threads, RequestSayHello(t) PROVE Ownership'
<1>1. /\ pc[t] = "RequestSayHello" /\ fresh[t] # None /\ fresh[t] \in CallData
      /\ status_[fresh[t]] = "PROCESS" /\ SpawnerProcessing(t)
  BY DEF Ownership, TypeOK, ThreadsAt, ThreadAt, RequestSayHello
<1>2. /\ pc' = [pc EXCEPT ![t] = IF tag[t] = None THEN "Next" ELSE "set_message"]
      /\ requested' = requested \cup {fresh[t]}
      /\ fresh' = [fresh EXCEPT ![t] = None]
      /\ UNCHANGED <<server, status_, request_, reply_, finishing, cq, wire,
                     calling, dropped, result>>
  BY <1>1 DEF RequestSayHello, Goto, This, objVars, callVars
<1>3. tag' = tag
  BY <1>1 DEF RequestSayHello, Goto, Ownership, TypeOK
<1>4. /\ \A u \in Threads : tag[u] # fresh[t]
      /\ \A u \in Threads : u # t => fresh[u] # fresh[t]
      /\ fresh[t] \notin requested /\ fresh[t] \notin finishing /\ ~Queued(fresh[t])
  BY <1>1 DEF Ownership, ThreadsApart, RuntimeApart
<1>5. TypeOK'
  BY <1>1, <1>2, <1>3 DEF Ownership, TypeOK, Label
<1>6. ThreadsAt'
  BY <1>1, <1>2, <1>3 DEF Ownership, TypeOK, ThreadsAt, ThreadAt, SpawnerProcessing
<1>7. ThreadsApart'
  BY <1>2, <1>3 DEF Ownership, TypeOK, ThreadsApart
<1>8. RuntimeApart'
  BY <1>1, <1>2, <1>3, <1>4, GreeterAssumption
  DEF Ownership, TypeOK, RuntimeApart, Queued
<1>9. RuntimeOnce'
  BY <1>1, <1>2, <1>4 DEF Ownership, TypeOK, RuntimeOnce, Queued
<1>10. LiveIffHeld'
  BY <1>1, <1>2, <1>3, GreeterAssumption
  DEF Ownership, TypeOK, LiveIffHeld, Held, Queued
<1>11. CarriesCall'
  BY <1>1, <1>2, <1>3 DEF Ownership, TypeOK, CarriesCall, Carrying, Queued
<1>12. QED
  BY <1>5, <1>6, <1>7, <1>8, <1>9, <1>10, <1>11 DEF Ownership

\* The end of the process changes no ownership.
LEMMA CrashOwnership ==
  ASSUME Ownership, NEW t \in Threads, RequestCrash(t) PROVE Ownership'
<1>1. /\ server' = "crashed" /\ pc' = [u \in Threads |-> "aborted"]
      /\ UNCHANGED <<status_, request_, reply_, tag, fresh, requested,
                     finishing, cq, wire, calling, dropped, result>>
  BY DEF RequestCrash, Abort, objVars, rtVars, callVars
<1>2. TypeOK' /\ ThreadsAt'
  BY <1>1 DEF Ownership, TypeOK, ThreadsAt, ThreadAt, Label
<1>3. ThreadsApart' /\ RuntimeApart' /\ RuntimeOnce' /\ LiveIffHeld'
  BY <1>1 DEF Ownership, ThreadsApart, RuntimeApart, RuntimeOnce, LiveIffHeld,
              Held, Queued
<1>4. CarriesCall'
  BY <1>1 DEF Ownership, CarriesCall, Carrying, Queued
<1>5. QED
  BY <1>2, <1>3, <1>4 DEF Ownership

\* Composing the reply changes no ownership.
LEMMA SetMessageOwnership ==
  ASSUME Ownership, NEW t \in Threads, SetMessage(t) PROVE Ownership'
<1>1. /\ pc[t] = "set_message" /\ fresh[t] = None /\ tag[t] # None
      /\ tag[t] \in CallData /\ status_[tag[t]] = "PROCESS"
  BY DEF Ownership, TypeOK, ThreadsAt, ThreadAt, SetMessage
<1>2. /\ pc' = [pc EXCEPT ![t] = "toFINISH"]
      /\ reply_' = [reply_ EXCEPT ![tag[t]] = Hello(request_[tag[t]])]
      /\ UNCHANGED <<server, status_, request_, tag, fresh, requested,
                     finishing, cq, wire, calling, dropped, result>>
  BY <1>1 DEF SetMessage, Goto, After, This, Greeting, rtVars, callVars
<1>3. request_[tag[t]] \in Calls
  BY <1>1 DEF Ownership, CarriesCall, Carrying
<1>4. TypeOK'
  BY <1>1, <1>2, <1>3 DEF Ownership, TypeOK, Label, Message
<1>5. ThreadsAt'
  BY <1>1, <1>2 DEF Ownership, TypeOK, ThreadsAt, ThreadAt, SpawnerProcessing
<1>6. ThreadsApart' /\ RuntimeApart' /\ RuntimeOnce' /\ LiveIffHeld'
  BY <1>2 DEF Ownership, ThreadsApart, RuntimeApart, RuntimeOnce, LiveIffHeld,
              Held, Queued
<1>7. CarriesCall'
  BY <1>1, <1>2 DEF Ownership, TypeOK, CarriesCall, Carrying, Queued
<1>8. QED
  BY <1>4, <1>5, <1>6, <1>7 DEF Ownership

\* Finish() passes the CallData from the thread to the runtime.
LEMMA FinishOwnership ==
  ASSUME Ownership, NEW t \in Threads, Finish(t) PROVE Ownership'
<1>1. /\ pc[t] = "Finish" /\ fresh[t] = None /\ tag[t] # None
      /\ tag[t] \in CallData /\ status_[tag[t]] = "FINISH"
  BY DEF Ownership, TypeOK, ThreadsAt, ThreadAt, Finish
<1>2. /\ pc' = [pc EXCEPT ![t] = "Next"]
      /\ tag' = [tag EXCEPT ![t] = None]
      /\ finishing' = finishing \cup {tag[t]}
      /\ UNCHANGED <<server, status_, request_, reply_, fresh, requested,
                     cq, wire, calling, dropped, result>>
  BY <1>1 DEF Finish, Goto, After, This, objVars, callVars
<1>3. /\ \A u \in Threads : fresh[u] # tag[t]
      /\ \A u \in Threads : u # t => tag[u] # tag[t]
      /\ tag[t] \notin requested /\ tag[t] \notin finishing /\ ~Queued(tag[t])
  BY <1>1 DEF Ownership, ThreadsApart, RuntimeApart
<1>4. TypeOK'
  BY <1>1, <1>2 DEF Ownership, TypeOK, Label
<1>5. ThreadsAt'
  BY <1>1, <1>2 DEF Ownership, TypeOK, ThreadsAt, ThreadAt, SpawnerProcessing
<1>6. ThreadsApart'
  BY <1>2 DEF Ownership, TypeOK, ThreadsApart
<1>7. RuntimeApart'
  BY <1>1, <1>2, <1>3, GreeterAssumption
  DEF Ownership, TypeOK, RuntimeApart, Queued
<1>8. RuntimeOnce'
  BY <1>1, <1>2, <1>3 DEF Ownership, TypeOK, RuntimeOnce, Queued
<1>9. LiveIffHeld'
  BY <1>1, <1>2, GreeterAssumption
  DEF Ownership, TypeOK, LiveIffHeld, Held, Queued
<1>10. CarriesCall'
  <2>1. request_[tag[t]] \in Calls
    BY <1>1 DEF Ownership, CarriesCall, Carrying
  <2>2. QED
    BY <1>1, <1>2, <2>1, GreeterAssumption
    DEF Ownership, TypeOK, CarriesCall, Carrying, Queued
<1>11. QED
  BY <1>4, <1>5, <1>6, <1>7, <1>8, <1>9, <1>10 DEF Ownership

\* delete this frees an address that only the deleting thread held.
LEMMA DeleteOwnership ==
  ASSUME Ownership, NEW t \in Threads, Delete(t) PROVE Ownership'
<1>1. /\ pc[t] = "delete" /\ fresh[t] = None /\ tag[t] # None
      /\ tag[t] \in CallData /\ status_[tag[t]] = "FINISH"
  BY DEF Ownership, TypeOK, ThreadsAt, ThreadAt, Delete
<1>2. /\ pc' = [pc EXCEPT ![t] = "Next"]
      /\ tag' = [tag EXCEPT ![t] = None]
      /\ status_' = [status_ EXCEPT ![tag[t]] = "free"]
      /\ UNCHANGED <<server, request_, reply_, fresh, requested, finishing,
                     cq, wire, calling, dropped, result>>
  BY <1>1 DEF Delete, Goto, After, This, rtVars, callVars
<1>3. /\ \A u \in Threads : fresh[u] # tag[t]
      /\ \A u \in Threads : u # t => tag[u] # tag[t]
      /\ tag[t] \notin requested /\ tag[t] \notin finishing /\ ~Queued(tag[t])
  BY <1>1 DEF Ownership, ThreadsApart, RuntimeApart
<1>4. TypeOK'
  BY <1>1, <1>2 DEF Ownership, TypeOK, Label
<1>5. ThreadsAt'
  BY <1>1, <1>2, <1>3 DEF Ownership, TypeOK, ThreadsAt, ThreadAt, SpawnerProcessing
<1>6. ThreadsApart'
  BY <1>2 DEF Ownership, TypeOK, ThreadsApart
<1>7. RuntimeApart'
  BY <1>1, <1>2, GreeterAssumption DEF Ownership, TypeOK, RuntimeApart, Queued
<1>8. RuntimeOnce'
  BY <1>1, <1>2, <1>3 DEF Ownership, TypeOK, RuntimeOnce, Queued
<1>9. LiveIffHeld'
  BY <1>1, <1>2, <1>3, GreeterAssumption
  DEF Ownership, TypeOK, LiveIffHeld, Held, Queued
<1>10. CarriesCall'
  BY <1>1, <1>2, <1>3, GreeterAssumption
  DEF Ownership, TypeOK, CarriesCall, Carrying, Queued
<1>11. QED
  BY <1>4, <1>5, <1>6, <1>7, <1>8, <1>9, <1>10 DEF Ownership

\* An event passes its CallData from the runtime to the thread that takes it.
LEMMA NextEventOwnership ==
  ASSUME Ownership, NEW t \in Threads, NextEvent(t) PROVE Ownership'
<1>1. PICK e \in cq :
        /\ pc[t] = "Next"
        /\ cq' = cq \ {e}
        /\ tag' = [tag EXCEPT ![t] = e[1]]
        /\ \/ server' = server /\ pc' = [pc EXCEPT ![t] = "Proceed"]
           \/ server' = "aborted" /\ pc' = [u \in Threads |-> "aborted"]
        /\ UNCHANGED <<status_, request_, reply_, fresh, requested, finishing,
                       wire, calling, dropped, result>>
  BY DEF NextEvent, Abort, objVars, callVars
<1>2. e[1] \in CallData /\ Queued(e[1]) /\ tag[t] = None /\ fresh[t] = None
  BY <1>1 DEF Ownership, TypeOK, ThreadsAt, ThreadAt, Queued
<1>3. /\ \A u \in Threads : tag[u] # e[1] /\ fresh[u] # e[1]
      /\ e[1] \notin requested /\ e[1] \notin finishing
      /\ status_[e[1]] \in {"PROCESS", "FINISH"}
  BY <1>2 DEF Ownership, RuntimeApart, RuntimeOnce
<1>4. \A d \in CallData : Queued(d)' <=> Queued(d) /\ d # e[1]
  BY <1>1 DEF Ownership, RuntimeOnce, Queued
<1>5. TypeOK'
  BY <1>1, <1>2 DEF Ownership, TypeOK, Label
<1>6. ThreadsAt'
  BY <1>1, <1>2, <1>3, GreeterAssumption
  DEF Ownership, TypeOK, ThreadsAt, ThreadAt, SpawnerProcessing
<1>7. ThreadsApart'
  BY <1>1, <1>2, <1>3 DEF Ownership, TypeOK, ThreadsApart
<1>8. RuntimeApart'
  BY <1>1, <1>2, <1>3, <1>4 DEF Ownership, TypeOK, RuntimeApart
<1>9. RuntimeOnce'
  BY <1>1, <1>4 DEF Ownership, TypeOK, RuntimeOnce
<1>10. LiveIffHeld'
  BY <1>1, <1>2, <1>3, <1>4, GreeterAssumption
  DEF Ownership, TypeOK, LiveIffHeld, Held
<1>11. CarriesCall'
  BY <1>1, <1>2, <1>4 DEF Ownership, TypeOK, CarriesCall, Carrying
<1>12. QED
  BY <1>5, <1>6, <1>7, <1>8, <1>9, <1>10, <1>11 DEF Ownership

\* Matching a call moves its CallData from the requests to the events.
LEMMA MatchOwnership ==
  ASSUME Ownership, NEW c \in Calls, NEW d \in CallData, Match(c, d)
  PROVE  Ownership'
<1>1. /\ d \in requested /\ requested' = requested \ {d}
      /\ cq' = cq \cup {<<d, TRUE>>}
      /\ request_' = [request_ EXCEPT ![d] = c]
      /\ wire' = wire \ {c}
      /\ UNCHANGED <<server, status_, reply_, pc, tag, fresh, finishing,
                     calling, dropped, result>>
  BY DEF Match, threadVars
<1>2. /\ \A u \in Threads : tag[u] # d /\ fresh[u] # d
      /\ d \notin finishing /\ ~Queued(d) /\ status_[d] = "PROCESS"
  BY <1>1 DEF Ownership, RuntimeApart, RuntimeOnce
<1>3. <<d, TRUE>>[1] = d
  OBVIOUS
<1>4. \A x \in CallData : Queued(x)' <=> Queued(x) \/ x = d
  BY <1>1, <1>3 DEF Queued
<1>5. TypeOK'
  <2>1. requested' \subseteq CallData /\ wire' \subseteq Calls
    BY <1>1 DEF Ownership, TypeOK
  <2>2. cq' \subseteq CallData \X BOOLEAN
    <3>1. <<d, TRUE>> \in CallData \X BOOLEAN
      OBVIOUS
    <3>2. QED
      BY <1>1, <3>1 DEF Ownership, TypeOK
  <2>3. request_' \in [CallData -> Calls \cup {None}]
    BY <1>1 DEF Ownership, TypeOK
  <2>4. QED
    BY <1>1, <2>1, <2>2, <2>3 DEF Ownership, TypeOK
<1>6. ThreadsAt' /\ ThreadsApart'
  BY <1>1 DEF Ownership, ThreadsAt, ThreadAt, SpawnerProcessing, ThreadsApart
<1>7. RuntimeApart'
  BY <1>1, <1>2, <1>4 DEF Ownership, RuntimeApart
<1>8. RuntimeOnce'
  <2>1. /\ \A x \in requested' : x \notin finishing' /\ ~Queued(x)'
                                 /\ status_'[x] = "PROCESS"
        /\ \A x \in finishing' : ~Queued(x)' /\ status_'[x] = "FINISH"
    BY <1>1, <1>2, <1>4 DEF Ownership, TypeOK, RuntimeOnce
  <2>2. \A e \in cq' : status_'[e[1]] \in {"PROCESS", "FINISH"}
    BY <1>1, <1>2, <1>3 DEF Ownership, RuntimeOnce
  <2>3. \A e, f \in cq' : e[1] = f[1] => e = f
    BY <1>1, <1>2, <1>3 DEF Ownership, RuntimeOnce, Queued
  <2>4. QED
    BY <2>1, <2>2, <2>3 DEF RuntimeOnce
<1>9. LiveIffHeld'
  BY <1>1, <1>4 DEF Ownership, LiveIffHeld, Held
<1>10. CarriesCall'
  BY <1>1, <1>4 DEF Ownership, TypeOK, CarriesCall, Carrying
<1>11. QED
  BY <1>5, <1>6, <1>7, <1>8, <1>9, <1>10 DEF Ownership

\* The end of Finish(), successful or not, moves the CallData to the events.
LEMMA FinishDoneOwnership ==
  ASSUME Ownership, NEW d \in CallData, FinishDone(d)
  PROVE  Ownership'
<1>1. PICK b \in BOOLEAN :
      /\ d \in finishing /\ finishing' = finishing \ {d}
      /\ cq' = cq \cup {<<d, b>>}
      /\ UNCHANGED <<server, status_, request_, reply_, pc, tag, fresh,
                     requested, wire, dropped>>
  BY DEF FinishDone, objVars, threadVars
<1>2. /\ \A u \in Threads : tag[u] # d /\ fresh[u] # d
      /\ d \notin requested /\ ~Queued(d) /\ status_[d] = "FINISH"
      /\ request_[d] \in Calls
  BY <1>1 DEF Ownership, RuntimeApart, RuntimeOnce, CarriesCall, Carrying
<1>3. <<d, b>>[1] = d
  OBVIOUS
<1>4. \A x \in CallData : Queued(x)' <=> Queued(x) \/ x = d
  BY <1>1, <1>3 DEF Queued
<1>5. TypeOK'
  <2>1. calling' \subseteq Calls /\ result' \in [Calls -> Message \cup {Failed, None}]
    BY <1>2 DEF Ownership, TypeOK, FinishDone, Delivered
  <2>2. QED
    BY <1>1, <2>1 DEF Ownership, TypeOK
<1>6. ThreadsAt' /\ ThreadsApart'
  BY <1>1 DEF Ownership, ThreadsAt, ThreadAt, SpawnerProcessing, ThreadsApart
<1>7. RuntimeApart'
  BY <1>1, <1>2, <1>4 DEF Ownership, RuntimeApart
<1>8. RuntimeOnce'
  <2>1. /\ \A x \in requested' : x \notin finishing' /\ ~Queued(x)'
                                 /\ status_'[x] = "PROCESS"
        /\ \A x \in finishing' : ~Queued(x)' /\ status_'[x] = "FINISH"
    BY <1>1, <1>2, <1>4 DEF Ownership, TypeOK, RuntimeOnce
  <2>2. \A e \in cq' : status_'[e[1]] \in {"PROCESS", "FINISH"}
    BY <1>1, <1>2, <1>3 DEF Ownership, RuntimeOnce
  <2>3. \A e, f \in cq' : e[1] = f[1] => e = f
    BY <1>1, <1>2, <1>3 DEF Ownership, RuntimeOnce, Queued
  <2>4. QED
    BY <2>1, <2>2, <2>3 DEF RuntimeOnce
<1>9. LiveIffHeld'
  BY <1>1, <1>4 DEF Ownership, LiveIffHeld, Held
<1>10. CarriesCall'
  BY <1>1, <1>2, <1>4 DEF Ownership, TypeOK, CarriesCall, Carrying
<1>11. QED
  BY <1>5, <1>6, <1>7, <1>8, <1>9, <1>10 DEF Ownership

\* The steps of the clients, and the start of the server, touch no CallData.
LEMMA ClientOwnership ==
  ASSUME Ownership,
         \/ BuildAndStart
         \/ \E c \in Calls : SayHello(c) \/ Unavailable(c) \/ Drop(c)
         \/ UNCHANGED vars
  PROVE  Ownership'
<1>1. UNCHANGED <<status_, request_, reply_, pc, tag, fresh, requested,
                  finishing, cq>>
  BY DEF BuildAndStart, SayHello, Unavailable, Drop, vars, objVars, threadVars, rtVars
<1>2. TypeOK'
  <2>1. /\ server' \in {"starting", "listening", "unbuilt", "aborted", "crashed"}
        /\ wire' \subseteq Calls /\ calling' \subseteq Calls /\ dropped' \subseteq Calls
    BY DEF Ownership, TypeOK, BuildAndStart, SayHello, Unavailable, Drop, vars, callVars
  <2>2. result' \in [Calls -> Message \cup {Failed, None}]
    BY DEF Ownership, TypeOK, BuildAndStart, SayHello, Unavailable, Drop, vars, callVars
  <2>3. QED
    BY <1>1, <2>1, <2>2 DEF Ownership, TypeOK
<1>3. ThreadsAt' /\ ThreadsApart' /\ RuntimeApart' /\ RuntimeOnce'
  BY <1>1 DEF Ownership, ThreadsAt, ThreadAt, SpawnerProcessing, ThreadsApart,
              RuntimeApart, RuntimeOnce, Queued
<1>4. LiveIffHeld' /\ CarriesCall'
  BY <1>1 DEF Ownership, LiveIffHeld, Held, CarriesCall, Carrying, Queued
<1>5. QED
  BY <1>2, <1>3, <1>4 DEF Ownership

\* Every step keeps the ownership invariant.
LEMMA OwnershipNext == Ownership /\ [Next]_vars => Ownership'
<1> SUFFICES ASSUME Ownership, [Next]_vars PROVE Ownership'
  OBVIOUS
<1>1. ASSUME NEW t \in Threads, Thread(t) PROVE Ownership'
  BY <1>1, HandleRpcsOwnership, NewOwnership, ProceedOwnership,
     ToProcessOwnership, ToFinishOwnership, RequestOwnership, CrashOwnership,
     SetMessageOwnership, FinishOwnership, DeleteOwnership, NextEventOwnership
  DEF Thread
<1>2. QED
  BY <1>1, MatchOwnership, FinishDoneOwnership, ClientOwnership DEF Next

\* The ownership invariant holds of the server.
LEMMA OwnershipInvariance == Spec => []Ownership
BY OwnershipInit, OwnershipNext, PTL DEF Spec, SafeSpec

\* Every variable keeps its type.
THEOREM TypeCorrect == Spec => []TypeOK
<1>1. Ownership => TypeOK
  BY DEF Ownership
<1>2. QED
  BY <1>1, OwnershipInvariance, PTL

\* For any number of threads, calls and addresses: a CallData in use is held
\* by exactly one thread, operation or event, and a free one by none.
THEOREM ExactlyOneHolder == Spec => []SoleHolder
<1>1. ASSUME Ownership, NEW d \in CallData
      PROVE  Cardinality(Holders(d)) = (IF status_[d] = "free" THEN 0 ELSE 1)
  <2>1. \A x : x \in Holders(d) <=>
               \/ \E t \in Threads : tag[t] = d /\ x = <<"this", t>>
               \/ \E t \in Threads : fresh[t] = d /\ x = <<"fresh", t>>
               \/ d \in requested /\ x = <<"requested", d>>
               \/ d \in finishing /\ x = <<"finishing", d>>
               \/ \E e \in cq : e[1] = d /\ x = <<"cq", e>>
    BY DEF Holders
  <2>2. d # None
    BY GreeterAssumption
  <2>3. CASE status_[d] = "free"
    <3>1. ~Held(d)
      BY <1>1, <2>3 DEF Ownership, LiveIffHeld
    <3>2. Holders(d) = {}
      BY <2>1, <3>1 DEF Held, Queued
    <3>3. QED
      BY <2>3, <3>2, FS_EmptySet
  <2>4. CASE status_[d] # "free"
    <3>1. Held(d)
      BY <1>1, <2>4 DEF Ownership, LiveIffHeld
    <3>2. PICK x : x \in Holders(d)
      BY <2>1, <3>1 DEF Held, Queued
    <3>3. \A y \in Holders(d) : y = x
      <4>1. CASE \E t \in Threads : tag[t] = d
        BY <1>1, <2>1, <2>2, <3>2, <4>1
        DEF Ownership, ThreadsApart, RuntimeApart, Queued
      <4>2. CASE \E t \in Threads : fresh[t] = d
        BY <1>1, <2>1, <2>2, <3>2, <4>2
        DEF Ownership, ThreadsApart, RuntimeApart, Queued
      <4>3. CASE d \in requested
        BY <1>1, <2>1, <3>2, <4>3 DEF Ownership, RuntimeApart, RuntimeOnce, Queued
      <4>4. CASE d \in finishing
        BY <1>1, <2>1, <3>2, <4>4 DEF Ownership, RuntimeApart, RuntimeOnce, Queued
      <4>5. CASE Queued(d)
        BY <1>1, <2>1, <3>2, <4>5 DEF Ownership, RuntimeApart, RuntimeOnce, Queued
      <4>6. QED
        BY <3>1, <4>1, <4>2, <4>3, <4>4, <4>5 DEF Held
    <3>4. Holders(d) = {x}
      BY <3>2, <3>3
    <3>5. QED
      BY <2>4, <3>4, FS_Singleton
  <2>5. QED
    BY <2>3, <2>4
<1>2. Ownership => SoleHolder
  BY <1>1 DEF SoleHolder
<1>3. QED
  BY <1>2, OwnershipInvariance, PTL
-----------------------------------------------------------------------------
(* Serving.                                                                *)

\* A step of a thread adds no call to what the CallData carry, and changes no
\* request that one carries.
LEMMA ThreadCarries ==
  ASSUME Ownership, NEW t \in Threads, Thread(t), NEW d \in CallData, Carrying(d)',
         server' = "listening"
  PROVE  Carrying(d) /\ request_'[d] = request_[d]
<1> USE GreeterAssumption DEF Carrying, Queued
<1>1. CASE HandleRpcs(t) \/ Proceed(t)
  <2>1. /\ \A u \in Threads : pc'[u] = "Finish" => pc[u] = "Finish"
        /\ UNCHANGED <<status_, request_, tag, finishing, cq>>
    BY <1>1 DEF HandleRpcs, Proceed, Goto, Branch, objVars, rtVars, Ownership, TypeOK
  <2>2. QED
    BY <2>1
<1>2. CASE New(t)
  <2>1. PICK x \in CallData :
          /\ status_[x] = "free"
          /\ status_' = [status_ EXCEPT ![x] = "CREATE"]
          /\ request_' = [request_ EXCEPT ![x] = None]
          /\ pc' = [pc EXCEPT ![t] = "Proceed"]
          /\ UNCHANGED <<tag, finishing, cq>>
    BY <1>2 DEF New, Goto, rtVars
  <2>2. ~Held(x)
    BY <2>1 DEF Ownership, LiveIffHeld
  <2>3. d # x
    BY <2>1, <2>2 DEF Ownership, TypeOK, Held
  <2>4. QED
    BY <2>1, <2>3 DEF Ownership, TypeOK
<1>3. CASE SetStatus(t, "toPROCESS", "PROCESS")
  <2>1. pc[t] = "toPROCESS" /\ fresh[t] # None /\ fresh[t] \in CallData
    BY <1>3 DEF Ownership, TypeOK, ThreadsAt, ThreadAt, SetStatus
  <2>2. /\ status_' = [status_ EXCEPT ![fresh[t]] = "PROCESS"]
        /\ pc' = [pc EXCEPT ![t] = "RequestSayHello"]
        /\ UNCHANGED <<request_, tag, finishing, cq>>
    BY <1>3, <2>1 DEF SetStatus, Goto, After, This, rtVars
  <2>3. d # fresh[t]
    BY <2>1, <2>2 DEF Ownership, ThreadsApart, RuntimeApart
  <2>4. QED
    BY <2>2, <2>3 DEF Ownership, TypeOK
<1>4. CASE SetStatus(t, "toFINISH", "FINISH")
  <2>1. /\ pc[t] = "toFINISH" /\ fresh[t] = None /\ tag[t] # None
        /\ tag[t] \in CallData /\ status_[tag[t]] = "PROCESS"
    BY <1>4 DEF Ownership, TypeOK, ThreadsAt, ThreadAt, SetStatus
  <2>2. /\ status_' = [status_ EXCEPT ![tag[t]] = "FINISH"]
        /\ pc' = [pc EXCEPT ![t] = "Finish"]
        /\ UNCHANGED <<request_, tag, finishing, cq>>
    BY <1>4, <2>1 DEF SetStatus, Goto, After, This, rtVars
  <2>3. QED
    BY <2>1, <2>2 DEF Ownership, TypeOK
<1>5. CASE RequestSayHello(t)
  <2>1. /\ \A u \in Threads : pc'[u] = "Finish" => pc[u] = "Finish"
        /\ UNCHANGED <<status_, request_, finishing, cq>>
        /\ \A u \in Threads : tag'[u] = d => tag[u] = d
    BY <1>5 DEF RequestSayHello, Goto, objVars, Ownership, TypeOK
  <2>2. QED
    BY <2>1
<1>6. CASE RequestCrash(t)
  BY <1>6 DEF RequestCrash, Abort
<1>7. CASE SetMessage(t)
  <2>1. /\ pc' = [pc EXCEPT ![t] = "toFINISH"]
        /\ UNCHANGED <<status_, request_, tag, finishing, cq>>
    BY <1>7 DEF SetMessage, Goto, After, rtVars
  <2>2. QED
    BY <2>1 DEF Ownership, TypeOK
<1>8. CASE Finish(t)
  <2>1. pc[t] = "Finish" /\ fresh[t] = None /\ tag[t] # None
    BY <1>8 DEF Ownership, ThreadsAt, ThreadAt, Finish
  <2>2. /\ pc' = [pc EXCEPT ![t] = "Next"]
        /\ tag' = [tag EXCEPT ![t] = None]
        /\ finishing' = finishing \cup {tag[t]}
        /\ UNCHANGED <<status_, request_, cq>>
    BY <1>8, <2>1 DEF Finish, Goto, After, This, objVars
  <2>3. QED
    BY <2>1, <2>2 DEF Ownership, TypeOK
<1>9. CASE Delete(t)
  <2>1. pc[t] = "delete" /\ fresh[t] = None /\ tag[t] # None
    BY <1>9 DEF Ownership, ThreadsAt, ThreadAt, Delete
  <2>2. /\ pc' = [pc EXCEPT ![t] = "Next"]
        /\ tag' = [tag EXCEPT ![t] = None]
        /\ status_' = [status_ EXCEPT ![tag[t]] = "free"]
        /\ UNCHANGED <<request_, finishing, cq>>
    BY <1>9, <2>1 DEF Delete, Goto, After, This, rtVars
  <2>3. QED
    BY <2>1, <2>2 DEF Ownership, TypeOK
<1>10. CASE NextEvent(t)
  <2>1. PICK e \in cq :
          /\ cq' = cq \ {e}
          /\ tag' = [tag EXCEPT ![t] = e[1]]
          /\ pc' = [pc EXCEPT ![t] = "Proceed"]
          /\ UNCHANGED <<status_, request_, finishing>>
    BY <1>10 DEF NextEvent, Abort, objVars
  <2>2. QED
    BY <2>1 DEF Ownership, TypeOK
<1>11. QED
  BY <1>1, <1>2, <1>3, <1>4, <1>5, <1>6, <1>7, <1>8, <1>9, <1>10 DEF Thread

\* A step of a thread composes, keeps or hands on the right reply.
LEMMA ThreadReplies ==
  ASSUME Ownership, RepliesGreet, NEW t \in Threads, Thread(t)
  PROVE  RepliesGreet'
<1> USE GreeterAssumption DEF RepliesGreet
<1>1. CASE HandleRpcs(t) \/ Proceed(t)
  <2>1. /\ \A u \in Threads : pc'[u] \in {"toFINISH", "Finish"} => pc'[u] = pc[u]
        /\ UNCHANGED <<request_, reply_, tag, finishing>>
    BY <1>1 DEF HandleRpcs, Proceed, Goto, Branch, objVars, rtVars, Ownership, TypeOK
  <2>2. QED
    BY <2>1
<1>2. CASE New(t)
  <2>1. PICK x \in CallData :
          /\ status_[x] = "free"
          /\ request_' = [request_ EXCEPT ![x] = None]
          /\ reply_' = [reply_ EXCEPT ![x] = None]
          /\ pc' = [pc EXCEPT ![t] = "Proceed"]
          /\ UNCHANGED <<tag, finishing>>
    BY <1>2 DEF New, Goto, rtVars
  <2>2. ~Held(x)
    BY <2>1 DEF Ownership, LiveIffHeld
  <2>3. QED
    BY <2>1, <2>2 DEF Ownership, TypeOK, Held
<1>3. CASE SetStatus(t, "toPROCESS", "PROCESS")
  <2>1. /\ pc' = [pc EXCEPT ![t] = "RequestSayHello"]
        /\ UNCHANGED <<request_, reply_, tag, finishing>>
    BY <1>3 DEF SetStatus, Goto, After, rtVars
  <2>2. QED
    BY <2>1 DEF Ownership, TypeOK
<1>4. CASE SetStatus(t, "toFINISH", "FINISH")
  <2>1. /\ pc[t] = "toFINISH" /\ pc' = [pc EXCEPT ![t] = "Finish"]
        /\ UNCHANGED <<request_, reply_, tag, finishing>>
    BY <1>4 DEF SetStatus, Goto, After, rtVars
  <2>2. QED
    BY <2>1 DEF Ownership, TypeOK
<1>5. CASE RequestSayHello(t)
  <2>1. /\ \A u \in Threads : pc'[u] \in {"toFINISH", "Finish"} =>
             pc'[u] = pc[u] /\ tag'[u] = tag[u]
        /\ UNCHANGED <<request_, reply_, finishing>>
    BY <1>5 DEF RequestSayHello, Goto, objVars, Ownership, TypeOK
  <2>2. QED
    BY <2>1
<1>6. CASE RequestCrash(t)
  BY <1>6 DEF RequestCrash, Abort, objVars, rtVars
<1>7. CASE SetMessage(t)
  <2>1. /\ pc[t] = "set_message" /\ fresh[t] = None /\ tag[t] # None
        /\ tag[t] \in CallData
    BY <1>7 DEF Ownership, TypeOK, ThreadsAt, ThreadAt, SetMessage
  <2>2. /\ pc' = [pc EXCEPT ![t] = "toFINISH"]
        /\ reply_' = [reply_ EXCEPT ![tag[t]] = Hello(request_[tag[t]])]
        /\ UNCHANGED <<request_, tag, finishing>>
    BY <1>7, <2>1 DEF SetMessage, Goto, After, This, Greeting, rtVars
  <2>3. tag[t] \notin finishing /\ \A u \in Threads : u # t => tag[u] # tag[t]
    BY <2>1 DEF Ownership, ThreadsApart, RuntimeApart
  <2>4. QED
    BY <2>1, <2>2, <2>3 DEF Ownership, TypeOK
<1>8. CASE Finish(t)
  <2>1. pc[t] = "Finish" /\ fresh[t] = None /\ tag[t] # None
    BY <1>8 DEF Ownership, ThreadsAt, ThreadAt, Finish
  <2>2. /\ pc' = [pc EXCEPT ![t] = "Next"]
        /\ tag' = [tag EXCEPT ![t] = None]
        /\ finishing' = finishing \cup {tag[t]}
        /\ UNCHANGED <<request_, reply_>>
    BY <1>8, <2>1 DEF Finish, Goto, After, This, objVars
  <2>3. QED
    BY <2>1, <2>2 DEF Ownership, TypeOK
<1>9. CASE Delete(t)
  <2>1. /\ pc' = [pc EXCEPT ![t] = "Next"]
        /\ tag' = [tag EXCEPT ![t] = None]
        /\ UNCHANGED <<request_, reply_, finishing>>
    BY <1>9 DEF Delete, Goto, After, rtVars
  <2>2. QED
    BY <2>1 DEF Ownership, TypeOK
<1>10. CASE NextEvent(t)
  <2>1. /\ \A u \in Threads : pc'[u] \in {"toFINISH", "Finish"} =>
             pc'[u] = pc[u] /\ tag'[u] = tag[u]
        /\ UNCHANGED <<request_, reply_, finishing>>
    BY <1>10 DEF NextEvent, Abort, objVars, Ownership, TypeOK
  <2>2. QED
    BY <2>1
<1>11. QED
  BY <1>1, <1>2, <1>3, <1>4, <1>5, <1>6, <1>7, <1>8, <1>9, <1>10 DEF Thread

\* What no step of a thread does: start the server or touch a call.
LEMMA ThreadFrame ==
  ASSUME NEW t \in Threads, Thread(t)
  PROVE  /\ server' = server \/ server' \in {"aborted", "crashed"}
         /\ UNCHANGED <<wire, calling, dropped, result>>
         /\ pc[t] = "start" => server \in {"listening", "unbuilt"}
BY DEF Thread, HandleRpcs, New, Proceed, SetStatus, RequestSayHello, RequestCrash,
       SetMessage, Finish, Delete, NextEvent, Abort, callVars

\* A step of a thread keeps the calls tracked.
LEMMA ThreadServing ==
  ASSUME Ownership, Serving, NEW t \in Threads, Thread(t)
  PROVE  Serving'
<1>1. RepliesGreet'
  BY ThreadReplies DEF Serving
<1>2. Unstarted'
  <2>1. server # "starting"
    BY ThreadFrame DEF Serving, Unstarted
  <2>2. QED
    BY <2>1, ThreadFrame DEF Unstarted
<1>3. CallsTracked'
  <2> SUFFICES ASSUME server' = "listening", NEW d \in CallData, Carrying(d)'
               PROVE  /\ request_'[d] \notin wire'
                      /\ request_'[d] \in calling' \cup dropped'
                      /\ \A e \in CallData :
                           Carrying(e)' /\ request_'[d] = request_'[e] => d = e
    BY ThreadFrame DEF Serving, CallsTracked
  <2>1. server = "listening" /\ Carrying(d) /\ request_'[d] = request_[d]
    BY ThreadFrame, ThreadCarries
  <2>2. \A e \in CallData : Carrying(e)' => Carrying(e) /\ request_'[e] = request_[e]
    BY ThreadCarries
  <2>3. QED
    BY <2>1, <2>2, ThreadFrame DEF Serving, CallsTracked
<1>4. QED
  BY <1>1, <1>2, <1>3 DEF Serving

\* Matching takes a call off the wire and gives it to a CallData without one.
LEMMA MatchServing ==
  ASSUME Ownership, Serving, NEW c \in Calls, NEW d \in CallData, Match(c, d)
  PROVE  Serving'
<1>1. /\ d \in requested /\ requested' = requested \ {d}
      /\ c \in wire /\ wire' = wire \ {c}
      /\ cq' = cq \cup {<<d, TRUE>>}
      /\ request_' = [request_ EXCEPT ![d] = c]
      /\ server = "listening"
      /\ UNCHANGED <<server, status_, reply_, pc, tag, fresh, finishing,
                     calling, dropped, result>>
  BY DEF Match, threadVars
<1>2. (\A u \in Threads : tag[u] # d) /\ d \notin finishing
  BY <1>1 DEF Ownership, RuntimeApart, RuntimeOnce
<1>3. \A x \in CallData : Queued(x)' <=> Queued(x) \/ x = d
  <2>1. <<d, TRUE>>[1] = d
    OBVIOUS
  <2>2. QED
    BY <1>1, <2>1 DEF Queued
<1>4. \A x \in CallData : x # d => (Carrying(x)' <=> Carrying(x))
  BY <1>1, <1>3 DEF Carrying
<1>5. \A x \in CallData : request_'[x] = IF x = d THEN c ELSE request_[x]
  BY <1>1 DEF Ownership, TypeOK
<1>6. RepliesGreet'
  <2>1. finishing \subseteq CallData
    BY DEF Ownership, TypeOK
  <2>2. \A u \in Threads : pc[u] \in {"toFINISH", "Finish"} => tag[u] \in CallData
    BY DEF Ownership, TypeOK, ThreadsAt, ThreadAt
  <2>3. QED
    BY <1>1, <1>2, <1>5, <2>1, <2>2 DEF Serving, RepliesGreet
<1>7. Unstarted'
  BY <1>1 DEF Unstarted
<1>8. CallsTracked'
  <2>1. wire' \subseteq calling' /\ c \in calling
    BY <1>1 DEF Serving, CallsTracked
  <2>2. \A x \in CallData : x # d /\ Carrying(x)' =>
          /\ request_'[x] \notin wire'
          /\ request_'[x] \in calling' \cup dropped'
          /\ request_'[x] # c
    BY <1>1, <1>4, <1>5 DEF Serving, CallsTracked
  <2>3. \A x, y \in CallData :
          x # d /\ y # d /\ Carrying(x)' /\ Carrying(y)' /\ request_'[x] = request_'[y]
            => x = y
    BY <1>1, <1>4, <1>5 DEF Serving, CallsTracked
  <2>4. QED
    BY <1>1, <1>5, <2>1, <2>2, <2>3 DEF CallsTracked
<1>9. QED
  BY <1>6, <1>7, <1>8 DEF Serving

\* What an answer carries: the caller's own greeting, while it still waits.
LEMMA AnswerIsOwn ==
  ASSUME Ownership, Serving, NEW d \in CallData, FinishDone(d)
  PROVE  /\ request_[d] \in Calls /\ reply_[d] = Hello(request_[d])
         /\ request_[d] \in calling \cup dropped
<1>1. d \in finishing /\ server = "listening"
  BY DEF FinishDone
<1>2. QED
  BY <1>1 DEF Ownership, CarriesCall, Carrying, Serving, RepliesGreet, CallsTracked

\* An answer leaves the other calls tracked.
LEMMA FinishDoneServing ==
  ASSUME Ownership, Serving, NEW d \in CallData, FinishDone(d)
  PROVE  Serving'
<1>1. PICK b \in BOOLEAN :
      /\ d \in finishing /\ finishing' = finishing \ {d}
      /\ cq' = cq \cup {<<d, b>>}
      /\ server = "listening"
      /\ UNCHANGED <<server, status_, request_, reply_, pc, tag, fresh,
                     requested, wire, dropped>>
  BY DEF FinishDone, objVars, threadVars
<1>2. /\ \A u \in Threads : tag[u] # d
      /\ status_[d] = "FINISH"
  BY <1>1 DEF Ownership, RuntimeApart, RuntimeOnce
<1>3. calling' = calling \/ calling' = calling \ {request_[d]}
  BY DEF FinishDone
<1>4. \A x \in CallData : Queued(x)' <=> Queued(x) \/ x = d
  <2>1. <<d, b>>[1] = d
    OBVIOUS
  <2>2. QED
    BY <1>1, <2>1 DEF Queued
<1>5. Carrying(d) /\ \A x \in CallData : Carrying(x)' => Carrying(x) /\ x # d
  BY <1>1, <1>2, <1>4 DEF Carrying
<1>6. RepliesGreet' /\ Unstarted'
  BY <1>1 DEF Serving, RepliesGreet, Unstarted
<1>7. CallsTracked'
  <2>1. request_[d] \notin wire
    BY <1>1, <1>5 DEF Serving, CallsTracked
  <2>2. wire' \subseteq calling'
    BY <1>1, <1>3, <2>1 DEF Serving, CallsTracked
  <2>3. \A x \in CallData : Carrying(x)' => request_[x] # request_[d]
    BY <1>1, <1>5 DEF Serving, CallsTracked
  <2>4. QED
    BY <1>1, <1>3, <1>5, <2>2, <2>3 DEF Serving, CallsTracked
<1>8. QED
  BY <1>6, <1>7 DEF Serving

\* The start of the server and the steps of the clients keep calls tracked.
LEMMA ClientServing ==
  ASSUME Ownership, Serving,
         \/ BuildAndStart
         \/ \E c \in Calls : SayHello(c) \/ Unavailable(c) \/ Drop(c)
         \/ UNCHANGED vars
  PROVE  Serving'
<1>1. UNCHANGED <<status_, request_, reply_, pc, tag, fresh, requested,
                  finishing, cq>>
  BY DEF BuildAndStart, SayHello, Unavailable, Drop, vars, objVars, threadVars, rtVars
<1>2. RepliesGreet'
  BY <1>1 DEF Serving, RepliesGreet
<1>3. Unstarted'
  BY <1>1 DEF Serving, Unstarted, BuildAndStart, SayHello, Unavailable, Drop, vars
<1>4. \A d \in CallData : Carrying(d)' <=> Carrying(d)
  BY <1>1 DEF Carrying, Queued
<1>5. CallsTracked'
  <2>1. CASE BuildAndStart
    <3>1. server = "starting" /\ UNCHANGED <<wire, calling, dropped>>
      BY <2>1 DEF BuildAndStart, callVars
    <3>2. \A d \in CallData : ~Carrying(d)
      BY <3>1, GreeterAssumption
      DEF Serving, Unstarted, Carrying, Queued, Ownership, ThreadsAt, ThreadAt
    <3>3. QED
      BY <1>4, <3>1, <3>2 DEF Serving, CallsTracked
  <2>2. ASSUME NEW c \in Calls, SayHello(c) PROVE CallsTracked'
    BY <1>1, <1>4, <2>2 DEF SayHello, Serving, CallsTracked
  <2>3. ASSUME NEW c \in Calls, Unavailable(c) PROVE CallsTracked'
    BY <1>1, <1>4, <2>3 DEF Unavailable, Serving, CallsTracked
  <2>4. ASSUME NEW c \in Calls, Drop(c) PROVE CallsTracked'
    BY <1>1, <1>4, <2>4 DEF Drop, Serving, CallsTracked
  <2>5. CASE UNCHANGED vars
    BY <1>1, <1>4, <2>5 DEF vars, callVars, Serving, CallsTracked
  <2>6. QED
    BY <2>1, <2>2, <2>3, <2>4, <2>5
<1>6. QED
  BY <1>2, <1>3, <1>5 DEF Serving

\* Calls are tracked in every state of the greeter.
LEMMA ServingInvariance == Spec => [](Ownership /\ Serving)
<1>1. Init => Serving
  BY GreeterAssumption
  DEF Init, Serving, RepliesGreet, Unstarted, CallsTracked, Carrying, Queued
<1>2. Ownership /\ Serving /\ [Next]_vars => Serving'
  BY ThreadServing, MatchServing, FinishDoneServing, ClientServing DEF Next
<1>3. QED
  BY <1>1, <1>2, OwnershipInit, OwnershipNext, PTL DEF Spec, SafeSpec

\* Every step of the greeter is a step of GreeterService or changes nothing
\* a caller sees: no call is answered twice, with another caller's greeting,
\* or after its caller has left.
THEOREM ImplementsService == Spec => Service!SafeSpec
<1>1. Init => Service!Init
  BY DEF Init, Service!Init
<1>2. ASSUME Ownership, Serving, [Next]_vars
      PROVE  [Service!Next]_(Service!vars)
  <2> USE DEF Service!vars
  <2>1. CASE BuildAndStart \/ UNCHANGED vars
    BY <2>1 DEF BuildAndStart, vars, callVars
  <2>2. ASSUME NEW t \in Threads, Thread(t) PROVE [Service!Next]_(Service!vars)
    BY <2>2, ThreadFrame
  <2>3. ASSUME NEW c \in Calls, NEW d \in CallData, Match(c, d)
        PROVE  [Service!Next]_(Service!vars)
    BY <2>3 DEF Match
  <2>4. ASSUME NEW d \in CallData, FinishDone(d)
        PROVE  [Service!Next]_(Service!vars)
    <3>1. CASE request_[d] \in dropped
      BY <2>4, <3>1 DEF FinishDone
    <3>2. CASE request_[d] \notin dropped
      <4>1. Service!Answer(request_[d])
        BY <1>2, <2>4, <3>2, AnswerIsOwn
        DEF FinishDone, Delivered, Service!Answer, Service!Return
      <4>2. QED
        BY <1>2, <2>4, <4>1, AnswerIsOwn DEF Service!Next
    <3>3. QED
      BY <3>1, <3>2
  <2>5. ASSUME NEW c \in Calls, SayHello(c) \/ Unavailable(c) \/ Drop(c)
        PROVE  Service!Next
    BY <2>5 DEF SayHello, Unavailable, Drop, Service!Next, Service!Call,
                Service!Fail, Service!Return, Service!Leave
  <2>6. QED
    BY <1>2, <2>1, <2>2, <2>3, <2>4, <2>5 DEF Next
<1>3. QED
  BY <1>1, <1>2, ServingInvariance, PTL DEF Spec, SafeSpec, Service!SafeSpec
-----------------------------------------------------------------------------
(* Listeners.                                                              *)

\* The process has not ended.
Running == \A t \in Threads : pc[t] # "aborted"

\* Both sets that ListenersCounted compares are finite.
LEMMA CountedFinite ==
  ASSUME Ownership PROVE IsFiniteSet(Listening) /\ IsFiniteSet(Settled)
<1>1. Listening \subseteq CallData /\ Settled \subseteq Threads
  BY DEF Ownership, TypeOK, Listening, Settled
<1>2. QED
  BY <1>1, FS_Subset, GreeterAssumption

\* Only RequestSayHello() adds a listener, and settles its thread.
LEMMA RequestSettles ==
  ASSUME Ownership, NEW t \in Threads, RequestSayHello(t)
  PROVE  /\ Listening' = Listening \cup {fresh[t]} /\ fresh[t] \notin Listening
         /\ Settled' = Settled \cup {t} /\ t \notin Settled
<1>1. /\ pc[t] = "RequestSayHello" /\ fresh[t] # None /\ fresh[t] \in CallData
  BY DEF Ownership, TypeOK, ThreadsAt, ThreadAt, RequestSayHello
<1>2. /\ pc' = [pc EXCEPT ![t] = IF tag[t] = None THEN "Next" ELSE "set_message"]
      /\ requested' = requested \cup {fresh[t]}
      /\ fresh' = [fresh EXCEPT ![t] = None]
      /\ UNCHANGED <<status_, cq>>
  BY <1>1 DEF RequestSayHello, Goto, This, objVars
<1>3. tag' = tag
  BY DEF RequestSayHello, Goto, Ownership, TypeOK
<1>4. fresh[t] \notin Listening
  BY <1>1 DEF Ownership, RuntimeApart, Listening
<1>5. Listening' = Listening \cup {fresh[t]}
  BY <1>2 DEF Listening, Queued
<1>6. t \notin Settled
  BY <1>1 DEF Settled
<1>7. \A u \in Threads : u \in Settled' <=> u \in Settled \/ u = t
  BY <1>1, <1>2, <1>3 DEF Ownership, TypeOK, Settled
<1>8. Settled' = Settled \cup {t}
  BY <1>7 DEF Settled
<1>9. QED
  BY <1>4, <1>5, <1>6, <1>8

\* A thread that takes a call off the queue owes a new listener; one that
\* takes the end of a Finish() owes none.
LEMMA EventUnsettles ==
  ASSUME Ownership, NEW t \in Threads, NextEvent(t), Running'
  PROVE  \/ \E d \in Listening : /\ Listening' = Listening \ {d}
                                 /\ Settled' = Settled \ {t} /\ t \in Settled
         \/ Listening' = Listening /\ Settled' = Settled
<1>1. PICK e \in cq :
        /\ pc[t] = "Next"
        /\ cq' = cq \ {e}
        /\ tag' = [tag EXCEPT ![t] = e[1]]
        /\ pc' = [pc EXCEPT ![t] = "Proceed"]
        /\ UNCHANGED <<status_, fresh, requested>>
  BY DEF NextEvent, Abort, objVars, Running
<1>2. /\ e[1] \in CallData /\ Queued(e[1]) /\ fresh[t] = None
      /\ status_[e[1]] \in {"PROCESS", "FINISH"} /\ e[1] \notin requested
  BY <1>1 DEF Ownership, TypeOK, ThreadsAt, ThreadAt, RuntimeOnce, Queued
<1>3. \A d \in CallData : Queued(d)' <=> Queued(d) /\ d # e[1]
  BY <1>1 DEF Ownership, RuntimeOnce, Queued
<1>4. requested \subseteq CallData
  BY DEF Ownership, TypeOK
<1>5. \A u \in Threads : u # t => (u \in Settled' <=> u \in Settled)
  BY <1>1 DEF Ownership, TypeOK, Settled
<1>6. t \in Settled /\ (t \in Settled' <=> status_[e[1]] = "FINISH")
  BY <1>1, <1>2 DEF Ownership, TypeOK, Settled
<1>7. Settled \subseteq Threads /\ Settled' \subseteq Threads
  BY DEF Settled
<1>8. CASE status_[e[1]] = "PROCESS"
  <2>1. e[1] \in Listening /\ Listening' = Listening \ {e[1]}
    BY <1>1, <1>2, <1>3, <1>4, <1>8 DEF Listening
  <2>2. Settled' = Settled \ {t}
    BY <1>5, <1>6, <1>7, <1>8
  <2>3. QED
    BY <1>6, <2>1, <2>2
<1>9. CASE status_[e[1]] = "FINISH"
  <2>1. Listening' = Listening
    BY <1>1, <1>2, <1>3, <1>4, <1>9 DEF Listening
  <2>2. Settled' = Settled
    BY <1>5, <1>6, <1>7, <1>9
  <2>3. QED
    BY <2>1, <2>2
<1>10. QED
  BY <1>2, <1>8, <1>9

\* No other step of a thread changes either set.
LEMMA OthersSettled ==
  ASSUME Ownership, NEW t \in Threads, Running',
         \/ HandleRpcs(t) \/ New(t) \/ Proceed(t)
         \/ SetStatus(t, "toPROCESS", "PROCESS") \/ SetStatus(t, "toFINISH", "FINISH")
         \/ RequestCrash(t) \/ SetMessage(t) \/ Finish(t) \/ Delete(t)
  PROVE  Listening' = Listening /\ Settled' = Settled
<1>1. UNCHANGED <<requested, cq>>
  BY DEF HandleRpcs, New, Proceed, SetStatus, RequestCrash, SetMessage, Finish,
         Delete, rtVars
<1>2. Settled \subseteq Threads /\ Settled' \subseteq Threads
  BY DEF Settled
<1>3. ASSUME \A d \in CallData : Queued(d) => status_'[d] = status_[d],
             \A u \in Threads : u \in Settled' <=> u \in Settled
      PROVE  Listening' = Listening /\ Settled' = Settled
  <2>1. \A d : Queued(d)' <=> Queued(d)
    BY <1>1 DEF Queued
  <2>2. QED
    BY <1>1, <1>2, <1>3, <2>1 DEF Listening
<1>4. CASE HandleRpcs(t) \/ SetMessage(t)
  <2>1. UNCHANGED <<status_, tag, fresh>>
    BY <1>4 DEF HandleRpcs, SetMessage, Goto, After, objVars
  <2>2. /\ \A u \in Threads : u # t => pc'[u] = pc[u]
        /\ \/ pc[t] = "start" /\ pc'[t] = "new"
           \/ pc[t] = "set_message" /\ pc'[t] = "toFINISH"
    BY <1>4 DEF HandleRpcs, SetMessage, Goto, After, Ownership, TypeOK
  <2>3. QED
    BY <1>3, <2>1, <2>2 DEF Settled
<1>5. CASE New(t)
  <2>1. PICK d \in CallData :
          /\ pc[t] = "new" /\ pc' = [pc EXCEPT ![t] = "Proceed"]
          /\ status_[d] = "free"
          /\ status_' = [status_ EXCEPT ![d] = "CREATE"]
          /\ fresh' = [fresh EXCEPT ![t] = d]
          /\ tag' = tag
    BY <1>5 DEF New, Goto
  <2>2. ~Held(d) /\ d # None
    BY <2>1, GreeterAssumption DEF Ownership, LiveIffHeld
  <2>3. \A x \in CallData : x # d => status_'[x] = status_[x]
    BY <2>1 DEF Ownership, TypeOK
  <2>4. \A u \in Threads : u # t => (u \in Settled' <=> u \in Settled)
    BY <2>1, <2>2, <2>3 DEF Ownership, TypeOK, ThreadsAt, ThreadAt, Settled, Held
  <2>5. t \notin Settled /\ t \notin Settled'
    BY <2>1, <2>2 DEF Ownership, TypeOK, Settled
  <2>6. QED
    BY <1>3, <2>2, <2>3, <2>4, <2>5 DEF Held
<1>6. CASE Proceed(t)
  <2>1. /\ pc[t] = "Proceed"
        /\ pc' = [pc EXCEPT ![t] = Branch(status_[This(t)])]
        /\ UNCHANGED <<status_, tag, fresh>>
    BY <1>6 DEF Proceed, Goto, Branch, objVars
  <2>2. \/ /\ fresh[t] # None /\ pc'[t] = "toPROCESS"
        \/ /\ fresh[t] = None /\ pc'[t] = "new" /\ status_[tag[t]] = "PROCESS"
        \/ /\ fresh[t] = None /\ pc'[t] = "delete" /\ status_[tag[t]] = "FINISH"
    BY <2>1 DEF Ownership, TypeOK, ThreadsAt, ThreadAt, This, Branch
  <2>3. \A u \in Threads : u # t => pc'[u] = pc[u]
    BY <2>1 DEF Ownership, TypeOK
  <2>4. QED
    BY <1>3, <2>1, <2>2, <2>3 DEF Settled
<1>7. CASE SetStatus(t, "toPROCESS", "PROCESS")
  <2>1. pc[t] = "toPROCESS" /\ fresh[t] # None /\ fresh[t] \in CallData
    BY <1>7 DEF Ownership, TypeOK, ThreadsAt, ThreadAt, SetStatus
  <2>2. /\ pc' = [pc EXCEPT ![t] = "RequestSayHello"]
        /\ status_' = [status_ EXCEPT ![fresh[t]] = "PROCESS"]
        /\ UNCHANGED <<tag, fresh>>
    BY <1>7, <2>1 DEF SetStatus, Goto, After, This
  <2>3. ~Queued(fresh[t]) /\ \A u \in Threads : tag[u] # fresh[t]
    BY <2>1 DEF Ownership, ThreadsApart, RuntimeApart
  <2>4. \A x \in CallData : x # fresh[t] => status_'[x] = status_[x]
    BY <2>2 DEF Ownership, TypeOK
  <2>5. \A u \in Threads : u \in Settled' <=> u \in Settled
    BY <2>1, <2>2, <2>3, <2>4 DEF Ownership, TypeOK, ThreadsAt, ThreadAt, Settled
  <2>6. QED
    BY <1>3, <2>3, <2>4, <2>5
<1>8. CASE SetStatus(t, "toFINISH", "FINISH") \/ Delete(t)
  <2>1. /\ pc[t] \in {"toFINISH", "delete"} /\ fresh[t] = None /\ tag[t] # None
        /\ tag[t] \in CallData
    BY <1>8 DEF Ownership, TypeOK, ThreadsAt, ThreadAt, SetStatus, Delete
  <2>2. /\ \A u \in Threads : u # t => pc'[u] = pc[u] /\ tag'[u] = tag[u]
        /\ pc'[t] \in {"Finish", "Next"}
        /\ \A x \in CallData : x # tag[t] => status_'[x] = status_[x]
        /\ fresh' = fresh
    BY <1>8, <2>1 DEF SetStatus, Delete, Goto, After, This, Ownership, TypeOK
  <2>3. ~Queued(tag[t]) /\ \A u \in Threads : u # t => tag[u] # tag[t]
    BY <2>1 DEF Ownership, ThreadsApart, RuntimeApart
  <2>4. \A u \in Threads : u # t => (u \in Settled' <=> u \in Settled)
    BY <2>2, <2>3 DEF Ownership, TypeOK, ThreadsAt, ThreadAt, Settled
  <2>5. t \in Settled /\ t \in Settled'
    BY <2>1, <2>2 DEF Settled
  <2>6. QED
    BY <1>3, <2>2, <2>3, <2>4, <2>5
<1>9. CASE RequestCrash(t)
  BY <1>9 DEF RequestCrash, Abort, Running
<1>10. CASE Finish(t)
  <2>1. /\ pc[t] = "Finish" /\ pc' = [pc EXCEPT ![t] = "Next"]
        /\ tag' = [tag EXCEPT ![t] = None]
        /\ UNCHANGED <<status_, fresh>>
    BY <1>10 DEF Finish, Goto, After, objVars
  <2>2. QED
    BY <1>3, <2>1 DEF Ownership, TypeOK, Settled
<1>11. QED
  BY <1>4, <1>5, <1>6, <1>7, <1>8, <1>9, <1>10

\* The runtime and the clients change neither set either.
LEMMA RuntimeSettled ==
  ASSUME Ownership,
         \/ \E c \in Calls, d \in CallData : Match(c, d)
         \/ \E d \in CallData : FinishDone(d)
         \/ BuildAndStart
         \/ \E c \in Calls : SayHello(c) \/ Unavailable(c) \/ Drop(c)
         \/ UNCHANGED vars
  PROVE  /\ Listening' = Listening /\ Settled' = Settled
         /\ Running' <=> Running
<1>1. UNCHANGED <<status_, pc, tag, fresh>>
  BY DEF Match, FinishDone, BuildAndStart, SayHello, Unavailable, Drop, vars,
         objVars, threadVars
<1>2. Settled' = Settled /\ (Running' <=> Running)
  BY <1>1 DEF Settled, Running
<1>3. ASSUME NEW c \in Calls, NEW d \in CallData, Match(c, d)
      PROVE  Listening' = Listening
  <2>1. /\ d \in requested /\ requested' = requested \ {d}
        /\ cq' = cq \cup {<<d, TRUE>>}
    BY <1>3 DEF Match
  <2>2. \A x \in CallData : Queued(x)' <=> Queued(x) \/ x = d
    <3>1. <<d, TRUE>>[1] = d
      OBVIOUS
    <3>2. QED
      BY <2>1, <3>1 DEF Queued
  <2>3. status_[d] = "PROCESS"
    BY <2>1 DEF Ownership, RuntimeOnce
  <2>4. QED
    BY <1>1, <2>1, <2>2, <2>3 DEF Listening
<1>4. ASSUME NEW d \in CallData, FinishDone(d)
      PROVE  Listening' = Listening
  <2>1. PICK b \in BOOLEAN : /\ d \in finishing
                             /\ cq' = cq \cup {<<d, b>>}
                             /\ requested' = requested
    BY <1>4 DEF FinishDone
  <2>2. \A x \in CallData : Queued(x)' <=> Queued(x) \/ x = d
    <3>1. <<d, b>>[1] = d
      OBVIOUS
    <3>2. QED
      BY <2>1, <3>1 DEF Queued
  <2>3. status_[d] = "FINISH"
    BY <2>1 DEF Ownership, RuntimeOnce
  <2>4. QED
    BY <1>1, <2>1, <2>2, <2>3 DEF Listening
<1>5. ASSUME \/ BuildAndStart
             \/ \E c \in Calls : SayHello(c) \/ Unavailable(c) \/ Drop(c)
             \/ UNCHANGED vars
      PROVE  Listening' = Listening
  <2>1. UNCHANGED <<requested, cq>>
    BY <1>5 DEF BuildAndStart, SayHello, Unavailable, Drop, vars, rtVars
  <2>2. QED
    BY <1>1, <2>1 DEF Listening, Queued
<1>6. QED
  BY <1>2, <1>3, <1>4, <1>5

\* The listeners stay as many as the threads that owe none.
LEMMA CountedNext ==
  Ownership /\ ListenersCounted /\ [Next]_vars => ListenersCounted'
<1> SUFFICES ASSUME Ownership, ListenersCounted, [Next]_vars, Running'
             PROVE  Cardinality(Listening)' = Cardinality(Settled)'
  BY DEF ListenersCounted, Running
<1>1. IsFiniteSet(Listening) /\ IsFiniteSet(Settled)
  BY CountedFinite
<1>2. ASSUME NEW t \in Threads, Thread(t) PROVE Running
  BY <1>2 DEF Running, Ownership, TypeOK, Thread, HandleRpcs, New, Proceed,
     SetStatus, RequestSayHello, RequestCrash, SetMessage, Finish, Delete,
     NextEvent, Goto, Abort
<1>3. Running => Cardinality(Listening) = Cardinality(Settled)
  BY DEF ListenersCounted, Running
<1>4. ASSUME NEW t \in Threads, RequestSayHello(t)
      PROVE  Cardinality(Listening)' = Cardinality(Settled)'
  <2>1. /\ Listening' = Listening \cup {fresh[t]} /\ fresh[t] \notin Listening
        /\ Settled' = Settled \cup {t} /\ t \notin Settled
    BY <1>4, RequestSettles
  <2>2. /\ Cardinality(Listening') = Cardinality(Listening) + 1
        /\ Cardinality(Settled') = Cardinality(Settled) + 1
    BY <1>1, <2>1, FS_AddElement
  <2>3. QED
    BY <1>2, <1>3, <1>4, <2>2 DEF Thread
<1>5. ASSUME NEW t \in Threads, NextEvent(t)
      PROVE  Cardinality(Listening)' = Cardinality(Settled)'
  <2>1. CASE Listening' = Listening /\ Settled' = Settled
    BY <1>2, <1>3, <1>5, <2>1 DEF Thread
  <2>2. ASSUME NEW d \in Listening, Listening' = Listening \ {d},
               Settled' = Settled \ {t}, t \in Settled
        PROVE  Cardinality(Listening)' = Cardinality(Settled)'
    <3>1. /\ Cardinality(Listening') = Cardinality(Listening) - 1
          /\ Cardinality(Settled') = Cardinality(Settled) - 1
      BY <1>1, <2>2, FS_RemoveElement
    <3>2. QED
      BY <1>2, <1>3, <1>5, <3>1 DEF Thread
  <2>3. QED
    BY <1>5, <2>1, <2>2, EventUnsettles
<1>6. ASSUME NEW t \in Threads, Thread(t)
      PROVE  Cardinality(Listening)' = Cardinality(Settled)'
  BY <1>2, <1>3, <1>4, <1>5, <1>6, OthersSettled DEF Thread
<1>7. CASE \/ \E c \in Calls, d \in CallData : Match(c, d)
           \/ \E d \in CallData : FinishDone(d)
           \/ BuildAndStart
           \/ \E c \in Calls : SayHello(c) \/ Unavailable(c) \/ Drop(c)
           \/ UNCHANGED vars
  BY <1>3, <1>7, RuntimeSettled
<1>8. QED
  BY <1>6, <1>7 DEF Next

\* Serving calls neither uses up nor multiplies the listeners: when the server
\* is at rest it has one per thread, and no other CallData.
THEOREM ListenersStay == Spec => []ListenersConserved
<1>1. Init => ListenersCounted
  <2>1. Init => Listening = {} /\ Settled = {}
    BY DEF Init, Listening, Settled, Queued
  <2>2. QED
    BY <2>1 DEF ListenersCounted
<1>2. ASSUME Ownership, ListenersCounted PROVE ListenersConserved
  <2> SUFFICES ASSUME \A t \in Threads : Idle(t), cq = {}, finishing = {}
               PROVE  /\ Cardinality(requested) = Cardinality(Threads)
                      /\ \A d \in CallData : status_[d] # "free" => d \in requested
    BY DEF ListenersConserved
  <2>1. \A t \in Threads : pc[t] = "Next" /\ tag[t] = None /\ fresh[t] = None
    BY <1>2 DEF Idle, Ownership, ThreadsAt, ThreadAt
  <2>2. Settled = Threads /\ Listening = requested
    BY <2>1 DEF Settled, Listening, Queued
  <2>3. Cardinality(requested) = Cardinality(Threads)
    BY <1>2, <2>1, <2>2 DEF ListenersCounted
  <2>4. \A d \in CallData : status_[d] # "free" => d \in requested
    BY <1>2, <2>1, GreeterAssumption DEF Ownership, LiveIffHeld, Held, Queued
  <2>5. QED
    BY <2>3, <2>4
<1>3. QED
  BY <1>1, <1>2, CountedNext, OwnershipInit, OwnershipNext, PTL DEF Spec, SafeSpec
=============================================================================
