-------------------------- MODULE TcpServerProofs --------------------------
(***************************************************************************)
(* Proofs about TcpServer for every pool size, every finite set of         *)
(* connections and every number of failed accepts.                         *)
(***************************************************************************)
EXTENDS TcpServer, FiniteSetTheorems, TLAPS

\* The handlers context c has ready or runs.
Entries(c) ==
  {ready[c][n] : n \in 1 .. Len(ready[c])}
    \cup (IF running[c] = None THEN {} ELSE {running[c]})

\* A thread is in a handler exactly when its context says so.
Busy ==
  \A c \in Ctx :
    IF c < m_threads THEN thread[c] = IF running[c] = None THEN "run" ELSE "busy"
    ELSE thread[c] = "none" /\ running[c] = None

\* No two handlers of a context are for the same coroutine.
Once ==
  \A c \in Ctx :
    /\ \A m, n \in 1 .. Len(ready[c]) : ready[c][m].who = ready[c][n].who => m = n
    /\ running[c] # None =>
         \A n \in 1 .. Len(ready[c]) : ready[c][n].who # running[c].who

\* The context of a coroutine's callbacks; of a session's code too.
HomeOf(w) == IF w = Acceptor THEN 0 ELSE socketCtx[w]
Confined == \A c \in Ctx : \A e \in Entries(c) : c = HomeOf(e.who)

Underway(k) == at[k] \notin {"none", "closed"}

\* A session under way waits for its operation or for a handler, not for both,
\* and no other session does.
Tokens ==
  \A k \in Conns :
    /\ \A c \in Ctx : \A e \in Entries(c) : e.who = k => Underway(k) /\ k \notin pending
    /\ k \in pending => Underway(k)
    /\ Underway(k) => \/ k \in pending
                      \/ \E c \in Ctx : \E e \in Entries(c) : e.who = k

\* The Executors post to the contexts they were made for, and there is one for
\* every socket.
Executors ==
  /\ \A c \in DOMAIN m_executor_map : m_executor_map[c] = c
  /\ main \in {"accepting", "resumed"} => socketCtx[Acceptor] \in DOMAIN m_executor_map
  /\ \A k \in Conns : at[k] # "none" => socketCtx[k] \in DOMAIN m_executor_map

\* A connection that has come and waits for its session.
Waiting(k) == peer[k] # "none" /\ at[k] = "none"

InBacklog(k) == \E n \in 1 .. Len(backlog) : backlog[n] = k

\* The accept loop waits for the accept operation, for its callback or for the
\* main thread, and each has what the one before it passed on.
Accepting ==
  /\ accept = "pending" => main = "accepting"
  /\ accepted # None => main = "resumed"
  /\ accepted \in Conns => Waiting(accepted) /\ ~InBacklog(accepted)
  /\ \A c \in Ctx : \A e \in Entries(c) :
       IF e.who = Acceptor
         THEN /\ e.kind = "callback" /\ e.ec \in Conns \cup {"error"}
              /\ main = "accepting" /\ accept = "idle"
              /\ e.ec \in Conns => Waiting(e.ec) /\ ~InBacklog(e.ec)
         ELSE e.ec \in {"ok", "error"}

\* A connection is in the backlog once, and only before it is accepted.
Backlogged ==
  /\ \A m, n \in 1 .. Len(backlog) : backlog[m] = backlog[n] => m = n
  /\ \A n \in 1 .. Len(backlog) : Waiting(backlog[n])
  /\ \A k \in Conns : peer[k] = "none" => at[k] = "none"

\* An accept that will not fail any more has got its context, but no session.
InFlight ==
  \/ accept = "pending"
  \/ accepted \in Conns
  \/ \E e \in Entries(0) : e.who = Acceptor /\ e.ec \in Conns

Started == {k \in Conns : at[k] # "none"}

\* getIoContext() was called once by start() and once for every accept.
Handed ==
  \A c \in Ctx :
    handed[c] <= (IF main = "setup" THEN 0 ELSE 1) + Cardinality(Started) + errors
                   + (IF InFlight THEN 1 ELSE 0)

\* The inductive invariant.
Inv ==
  /\ TypeOK
  /\ Busy
  /\ Once
  /\ Confined
  /\ Tokens
  /\ Executors
  /\ Accepting
  /\ Backlogged
  /\ Handed
-----------------------------------------------------------------------------
(* The queues. *)

\* Posting a handler for a coroutine that has none there.
LEMMA PostEntries ==
  ASSUME ready \in [Ctx -> Seq(Entry)], Once, NEW c \in Ctx, NEW e \in Entry,
         \A x \in Entries(c) : x.who # e.who,
         ready' = [ready EXCEPT ![c] = Append(@, e)], running' = running
  PROVE  /\ ready' \in [Ctx -> Seq(Entry)]
         /\ Once'
         /\ \A d \in Ctx : Entries(d)' = IF d = c THEN Entries(c) \cup {e} ELSE Entries(d)
<1>1. ready[c] \in Seq(Entry) /\ Append(ready[c], e) \in Seq(Entry)
  OBVIOUS
<1>2. ready' \in [Ctx -> Seq(Entry)]
  BY <1>1
<1>3. /\ ready'[c] = Append(ready[c], e)
      /\ \A d \in Ctx : d # c => ready'[d] = ready[d]
  OBVIOUS
<1>4. /\ Len(ready[c]) \in Nat /\ Len(ready'[c]) = Len(ready[c]) + 1
      /\ \A n \in 1 .. Len(ready[c]) : ready'[c][n] = ready[c][n]
      /\ ready'[c][Len(ready[c]) + 1] = e
  BY <1>1, <1>3
<1>5. \A n \in 1 .. Len(ready'[c]) : n \in 1 .. Len(ready[c]) \/ n = Len(ready[c]) + 1
  BY <1>4
<1>6. \A n \in 1 .. Len(ready[c]) : ready[c][n] \in Entries(c)
  BY DEF Entries
<1>7. running[c] # None => running[c] \in Entries(c)
  BY DEF Entries
<1>8. Once'
  <2> SUFFICES ASSUME NEW d \in Ctx
               PROVE  /\ \A m, n \in 1 .. Len(ready'[d]) :
                           ready'[d][m].who = ready'[d][n].who => m = n
                      /\ running[d] # None =>
                           \A n \in 1 .. Len(ready'[d]) :
                             ready'[d][n].who # running[d].who
    BY DEF Once
  <2>1. CASE d # c
    BY <1>3, <2>1 DEF Once
  <2>2. CASE d = c
    <3>1. ASSUME NEW m \in 1 .. Len(ready'[c]), NEW n \in 1 .. Len(ready'[c]),
                 ready'[c][m].who = ready'[c][n].who
          PROVE  m = n
      <4>1. CASE m \in 1 .. Len(ready[c]) /\ n \in 1 .. Len(ready[c])
        BY <1>4, <3>1, <4>1 DEF Once
      <4>2. CASE m \in 1 .. Len(ready[c]) /\ n = Len(ready[c]) + 1
        BY <1>4, <1>6, <3>1, <4>2
      <4>3. CASE n \in 1 .. Len(ready[c]) /\ m = Len(ready[c]) + 1
        BY <1>4, <1>6, <3>1, <4>3
      <4>4. QED
        BY <1>5, <4>1, <4>2, <4>3
    <3>2. ASSUME running[c] # None, NEW n \in 1 .. Len(ready'[c])
          PROVE  ready'[c][n].who # running[c].who
      <4>1. CASE n \in 1 .. Len(ready[c])
        BY <1>4, <3>2, <4>1 DEF Once
      <4>2. CASE n = Len(ready[c]) + 1
        BY <1>4, <1>7, <3>2, <4>2
      <4>3. QED
        BY <1>5, <4>1, <4>2
    <3>3. QED
      BY <2>2, <3>1, <3>2
  <2>3. QED
    BY <2>1, <2>2
<1>9. ASSUME NEW d \in Ctx
      PROVE  Entries(d)' = IF d = c THEN Entries(c) \cup {e} ELSE Entries(d)
  <2>1. CASE d # c
    BY <1>3, <2>1 DEF Entries
  <2>2. CASE d = c
    <3>1. {ready'[c][n] : n \in 1 .. Len(ready'[c])}
            = {ready[c][n] : n \in 1 .. Len(ready[c])} \cup {e}
      BY <1>4, <1>5
    <3>2. QED
      BY <2>2, <3>1 DEF Entries
  <2>3. QED
    BY <2>1, <2>2
<1>10. QED
  BY <1>2, <1>8, <1>9

\* A thread taking the next handler.
LEMMA RunEntries ==
  ASSUME TypeOK, Once, NEW c \in Ctx, running[c] = None, RunHandler(c)
  PROVE  /\ ready' \in [Ctx -> Seq(Entry)] /\ running' \in [Ctx -> Entry \cup {None}]
         /\ Once' /\ running'[c] # None
         /\ \A d \in Ctx : Entries(d)' = Entries(d)
<1>1. /\ ready \in [Ctx -> Seq(Entry)] /\ running \in [Ctx -> Entry \cup {None}]
      /\ ready[c] \in Seq(Entry) /\ ready[c] # << >>
  BY DEF TypeOK, RunHandler
<1>2. /\ ready' = [ready EXCEPT ![c] = Tail(@)]
      /\ running' = [running EXCEPT ![c] = Head(ready[c])]
  BY DEF RunHandler
<1>3. /\ ready'[c] = Tail(ready[c]) /\ running'[c] = Head(ready[c])
      /\ \A d \in Ctx : d # c => ready'[d] = ready[d] /\ running'[d] = running[d]
  BY <1>1, <1>2
<1>4. /\ Len(ready[c]) \in Nat /\ Len(ready[c]) >= 1
      /\ Len(ready'[c]) = Len(ready[c]) - 1
      /\ \A n \in 1 .. Len(ready'[c]) : ready'[c][n] = ready[c][n + 1]
      /\ running'[c] = ready[c][1] /\ ready[c][1] \in Entry
      /\ Tail(ready[c]) \in Seq(Entry)
  BY <1>1, <1>3
<1>5. ready' \in [Ctx -> Seq(Entry)] /\ running' \in [Ctx -> Entry \cup {None}]
  BY <1>1, <1>2, <1>3, <1>4
<1>6. running'[c] # None
  BY <1>4, ServerAssumption
<1>7. \A n \in 1 .. Len(ready'[c]) :
        n \in Nat /\ n + 1 \in 1 .. Len(ready[c]) /\ n + 1 # 1
  BY <1>4
<1>8. Once'
  <2>1. ASSUME NEW m \in 1 .. Len(ready'[c]), NEW n \in 1 .. Len(ready'[c]),
               ready'[c][m].who = ready'[c][n].who
        PROVE  m = n
    <3>1. m + 1 = n + 1
      BY <1>4, <1>7, <2>1, SMTT(40) DEF Once
    <3>2. QED
      BY <1>7, <3>1
  <2>2. ASSUME NEW n \in 1 .. Len(ready'[c])
        PROVE  ready'[c][n].who # running'[c].who
    <3>1. 1 \in 1 .. Len(ready[c])
      BY <1>4
    <3>2. QED
      BY <1>4, <1>7, <3>1 DEF Once
  <2>3. QED
    BY <1>3, <2>1, <2>2, ZenonT(60) DEF Once
<1>9. ASSUME NEW d \in Ctx PROVE Entries(d)' = Entries(d)
  <2>1. CASE d # c
    BY <1>3, <2>1 DEF Entries
  <2>2. CASE d = c
    <3> DEFINE A == {ready[c][n] : n \in 1 .. Len(ready[c])}
               B == {ready'[c][n] : n \in 1 .. Len(ready'[c])}
    <3>1. A = B \cup {ready[c][1]}
      <4>1. ASSUME NEW n \in 1 .. Len(ready[c]), n # 1
            PROVE  n - 1 \in 1 .. Len(ready'[c]) /\ ready'[c][n - 1] = ready[c][n]
        <5>1. n - 1 \in 1 .. Len(ready'[c]) /\ (n - 1) + 1 = n
          BY <1>4, <4>1
        <5>2. QED
          BY <1>4, <5>1
      <4>2. 1 \in 1 .. Len(ready[c])
        BY <1>4
      <4>3. A \subseteq B \cup {ready[c][1]}
        <5> SUFFICES ASSUME NEW n \in 1 .. Len(ready[c]), n # 1
                     PROVE  ready[c][n] \in B
          OBVIOUS
        <5>1. QED
          BY <4>1
      <4>4. B \subseteq A
        <5> SUFFICES ASSUME NEW n \in 1 .. Len(ready'[c])
                     PROVE  ready'[c][n] \in A
          OBVIOUS
        <5>1. QED
          BY <1>4, <1>7
      <4>5. ready[c][1] \in A
        BY <4>2
      <4> HIDE DEF A, B
      <4>6. QED
        BY <4>3, <4>4, <4>5
    <3>2. Entries(c) = A
      BY DEF Entries
    <3>3. Entries(c)' = B \cup {ready[c][1]}
      BY <1>4, <1>6 DEF Entries
    <3> HIDE DEF A, B
    <3>4. QED
      BY <2>2, <3>1, <3>2, <3>3
  <2>3. QED
    BY <2>1, <2>2
<1>10. QED
  BY <1>5, <1>6, <1>8, <1>9

\* A handler that returns is gone, and nothing else.
LEMMA DoneEntries ==
  ASSUME TypeOK, Once, NEW c \in Ctx, running[c] # None,
         running' = [running EXCEPT ![c] = None], ready' = ready
  PROVE  /\ running' \in [Ctx -> Entry \cup {None}] /\ running'[c] = None
         /\ Once'
         /\ \A d \in Ctx : Entries(d)' = IF d = c THEN Entries(c) \ {running[c]}
                                         ELSE Entries(d)
         /\ \A x \in Entries(c)' : x.who # running[c].who
<1>1. running \in [Ctx -> Entry \cup {None}]
  BY DEF TypeOK
<1>2. running'[c] = None /\ \A d \in Ctx : d # c => running'[d] = running[d]
  BY <1>1
<1>3. Once'
  BY <1>2 DEF Once
<1>4. \A n \in 1 .. Len(ready[c]) : ready[c][n].who # running[c].who
  BY DEF Once
<1>5. Entries(c)' = {ready[c][n] : n \in 1 .. Len(ready[c])}
  BY <1>2 DEF Entries
<1>6. Entries(c) = {ready[c][n] : n \in 1 .. Len(ready[c])} \cup {running[c]}
  BY DEF Entries
<1>7. running[c] \notin {ready[c][n] : n \in 1 .. Len(ready[c])}
  BY <1>4
<1>8. ASSUME NEW d \in Ctx, d # c PROVE Entries(d)' = Entries(d)
  BY <1>2, <1>8 DEF Entries
<1>9. QED
  BY <1>1, <1>2, <1>3, <1>4, <1>5, <1>6, <1>7, <1>8

\* A queue that has no handler of coroutine w has at most one for each other.
LEMMA QueueBound ==
  ASSUME TypeOK, Once, NEW c \in Ctx, NEW w \in Conns \cup {Acceptor},
         \A n \in 1 .. Len(ready[c]) : ready[c][n].who # w
  PROVE  Len(ready[c]) \in Nat /\ Cardinality(Conns) \in Nat
         /\ Len(ready[c]) <= Cardinality(Conns)
<1> DEFINE S == 1 .. Len(ready[c])
           U == Conns \cup {Acceptor}
           T == U \ {w}
           f == [n \in S |-> ready[c][n].who]
<1>1. ready[c] \in Seq(Entry)
  BY DEF TypeOK
<1>2. Len(ready[c]) \in Nat /\ \A n \in S : ready[c][n] \in Entry
  BY <1>1
<1>3. f \in [S -> T]
  BY <1>2 DEF Entry
<1>4. IsFiniteSet(S) /\ Cardinality(S) = Len(ready[c])
  BY <1>2, FS_Interval, SMTT(40)
<1>5. IsFiniteSet(Conns) /\ Cardinality(Conns) \in Nat
  BY ServerAssumption, FS_CardinalityType
<1>6. IsFiniteSet(U) /\ Cardinality(U) = Cardinality(Conns) + 1 /\ w \in U
  BY <1>5, ServerAssumption, FS_AddElement
<1>7. IsFiniteSet(T) /\ Cardinality(T) = Cardinality(U) - 1
  <2> HIDE DEF U
  <2>1. QED
    BY <1>6, FS_RemoveElement
<1>8. \A x, y \in S : f[x] = f[y] => x = y
  BY DEF Once
<1> HIDE DEF f, S, T, U
<1>9. ~(Cardinality(T) < Cardinality(S))
  BY <1>3, <1>4, <1>7, <1>8, FS_PigeonHole
<1>10. QED
  BY <1>2, <1>4, <1>5, <1>6, <1>7, <1>9

\* A callback that returns and posts the continuation of its own coroutine.
LEMMA ResumeEntries ==
  ASSUME TypeOK, Once, NEW c \in Ctx, running[c] # None, NEW e \in Entry,
         e.who = running[c].who,
         ready' = [ready EXCEPT ![c] = Append(@, e)],
         running' = [running EXCEPT ![c] = None]
  PROVE  /\ ready' \in [Ctx -> Seq(Entry)] /\ running' \in [Ctx -> Entry \cup {None}]
         /\ running'[c] = None
         /\ Once'
         /\ \A d \in Ctx : Entries(d)' = IF d = c THEN (Entries(c) \ {running[c]}) \cup {e}
                                         ELSE Entries(d)
<1>1. /\ ready \in [Ctx -> Seq(Entry)] /\ running \in [Ctx -> Entry \cup {None}]
      /\ ready[c] \in Seq(Entry) /\ Append(ready[c], e) \in Seq(Entry)
  BY DEF TypeOK
<1>2. ready' \in [Ctx -> Seq(Entry)] /\ running' \in [Ctx -> Entry \cup {None}]
  BY <1>1
<1>3. /\ ready'[c] = Append(ready[c], e) /\ running'[c] = None
      /\ \A d \in Ctx : d # c => ready'[d] = ready[d] /\ running'[d] = running[d]
  BY <1>1
<1>4. /\ Len(ready[c]) \in Nat /\ Len(ready'[c]) = Len(ready[c]) + 1
      /\ \A n \in 1 .. Len(ready[c]) : ready'[c][n] = ready[c][n]
      /\ ready'[c][Len(ready[c]) + 1] = e
  BY <1>1, <1>3
<1>5. \A n \in 1 .. Len(ready'[c]) : n \in 1 .. Len(ready[c]) \/ n = Len(ready[c]) + 1
  BY <1>4
<1>6. \A n \in 1 .. Len(ready[c]) : ready[c][n].who # e.who
  BY DEF Once
<1>7. ASSUME NEW m \in 1 .. Len(ready'[c]), NEW n \in 1 .. Len(ready'[c]),
             ready'[c][m].who = ready'[c][n].who
      PROVE  m = n
  <2>1. CASE m \in 1 .. Len(ready[c]) /\ n \in 1 .. Len(ready[c])
    BY <1>4, <1>7, <2>1 DEF Once
  <2>2. CASE m \in 1 .. Len(ready[c]) /\ n = Len(ready[c]) + 1
    BY <1>4, <1>6, <1>7, <2>2
  <2>3. CASE n \in 1 .. Len(ready[c]) /\ m = Len(ready[c]) + 1
    BY <1>4, <1>6, <1>7, <2>3
  <2>4. QED
    BY <1>5, <2>1, <2>2, <2>3
<1>8. Once'
  <2> SUFFICES ASSUME NEW d \in Ctx
               PROVE  /\ \A m, n \in 1 .. Len(ready'[d]) :
                           ready'[d][m].who = ready'[d][n].who => m = n
                      /\ running'[d] # None =>
                           \A n \in 1 .. Len(ready'[d]) :
                             ready'[d][n].who # running'[d].who
    BY DEF Once
  <2>1. CASE d # c
    BY <1>3, <2>1 DEF Once
  <2>2. CASE d = c
    BY <1>3, <1>7, <2>2
  <2>3. QED
    BY <2>1, <2>2
<1>9. ASSUME NEW d \in Ctx
      PROVE  Entries(d)' = IF d = c THEN (Entries(c) \ {running[c]}) \cup {e}
                           ELSE Entries(d)
  <2>1. CASE d # c
    BY <1>3, <2>1 DEF Entries
  <2>2. CASE d = c
    <3> DEFINE A == {ready[c][n] : n \in 1 .. Len(ready[c])}
    <3>1. {ready'[c][n] : n \in 1 .. Len(ready'[c])} = A \cup {e}
      BY <1>4, <1>5
    <3>2. running[c] \notin A
      BY <1>6
    <3>3. Entries(c) = A \cup {running[c]}
      BY DEF Entries
    <3>4. Entries(c)' = A \cup {e}
      BY <1>3, <3>1 DEF Entries
    <3> HIDE DEF A
    <3>5. QED
      BY <2>2, <3>2, <3>3, <3>4
  <2>3. QED
    BY <2>1, <2>2
<1>10. QED
  BY <1>2, <1>3, <1>8, <1>9

\* Nothing posted, nothing run.
LEMMA SameEntries ==
  ASSUME ready' = ready, running' = running
  PROVE  (Once => Once') /\ \A c \in Ctx : Entries(c)' = Entries(c)
<1>1. \A c \in Ctx : Entries(c)' = Entries(c)
  BY DEF Entries
<1>2. Once => Once'
  BY DEF Once
<1>3. QED
  BY <1>1, <1>2

\* The handlers are queue entries.
LEMMA EntriesTyped ==
  ASSUME TypeOK, NEW c \in Ctx
  PROVE  Entries(c) \subseteq Entry
<1>1. ready[c] \in Seq(Entry) /\ running[c] \in Entry \cup {None}
  BY DEF TypeOK
<1>2. \A n \in 1 .. Len(ready[c]) : ready[c][n] \in Entry
  BY <1>1
<1>3. QED
  BY <1>1, <1>2 DEF Entries

\* Context 0 exists, and the sessions can be counted.
LEMMA Counting ==
  ASSUME TypeOK
  PROVE  /\ 0 \in Ctx /\ m_next_io_context \in Ctx
         /\ IsFiniteSet(Started) /\ Cardinality(Started) \in Nat
         /\ Cardinality(Conns) \in Nat
         /\ Cardinality(Started) <= Cardinality(Conns)
<1>1. 0 \in Ctx /\ m_next_io_context \in Ctx
  BY ServerAssumption DEF Ctx, TypeOK
<1>2. IsFiniteSet(Conns) /\ Started \subseteq Conns
  BY ServerAssumption DEF Started
<1> HIDE DEF Started
<1>3. /\ IsFiniteSet(Started) /\ Cardinality(Started) \in Nat
      /\ Cardinality(Conns) \in Nat /\ Cardinality(Started) <= Cardinality(Conns)
  BY <1>2, FS_Subset, FS_CardinalityType
<1>4. QED
  BY <1>1, <1>3

\* A step that hands out no context and finishes no accept but by an error.
LEMMA HandedKept ==
  ASSUME TypeOK, Handed, handed' = handed, Started' = Started, errors' \in Nat,
         main' = "setup" => main = "setup",
         errors' >= errors, InFlight => InFlight' \/ errors' = errors + 1
  PROVE  Handed'
<1> SUFFICES ASSUME NEW c \in Ctx
             PROVE  handed'[c] <= (IF main' = "setup" THEN 0 ELSE 1)
                                    + Cardinality(Started)' + errors'
                                    + (IF InFlight' THEN 1 ELSE 0)
  BY DEF Handed
<1>1. Cardinality(Started)' = Cardinality(Started) /\ Cardinality(Started) \in Nat
  BY Counting
<1>2. errors \in Nat /\ handed[c] \in Nat
  BY DEF TypeOK
<1>3. handed[c] <= (IF main = "setup" THEN 0 ELSE 1) + Cardinality(Started) + errors
                     + (IF InFlight THEN 1 ELSE 0)
  BY DEF Handed
<1>4. QED
  BY <1>1, <1>2, <1>3
-----------------------------------------------------------------------------
(* The main thread. *)

\* Nothing is queued, awaited or accepted at first.
LEMMA InitInv == Init => Inv
<1> SUFFICES ASSUME Init PROVE Inv
  OBVIOUS
<1>1. \A c \in Ctx : ready[c] = << >> /\ running[c] = None /\ Entries(c) = {}
  BY DEF Init, Entries
<1>2. TypeOK
  <2>1. << >> \in Seq(Entry) /\ << >> \in Seq(Conns)
    OBVIOUS
  <2>2. 0 \in Ctx /\ 0 \in 0 .. PoolSize
    BY ServerAssumption DEF Ctx
  <2>3. DOMAIN m_executor_map = {}
    BY DEF Init
  <2>4. QED
    BY <2>1, <2>2, <2>3, ServerAssumption DEF Init, TypeOK
<1>3. Busy
  BY <1>1 DEF Init, Busy, Ctx
<1>4. Once
  BY <1>1 DEF Once
<1>5. Confined
  BY <1>1 DEF Confined
<1>6. Tokens
  BY <1>1 DEF Tokens, Underway, Init
<1>7. Executors
  <2>1. DOMAIN m_executor_map = {}
    BY DEF Init
  <2>2. QED
    BY <2>1 DEF Executors, Init
<1>8. Accepting
  BY <1>1, ServerAssumption DEF Accepting, Init
<1>9. Backlogged
  BY DEF Backlogged, Init
<1>10. Handed
  <2>1. \A c \in Ctx : handed[c] = 0
    BY DEF Init
  <2>2. Cardinality(Started) \in Nat
    BY <1>2, Counting
  <2>3. QED
    BY <2>1, <2>2 DEF Handed, Init
<1>11. QED
  BY <1>2, <1>3, <1>4, <1>5, <1>6, <1>7, <1>8, <1>9, <1>10 DEF Inv

\* A new thread finds its context's queue, whatever is in it already.
LEMMA StartThreadInv == Inv /\ StartThread => Inv'
<1> SUFFICES ASSUME Inv, StartThread PROVE Inv'
  OBVIOUS
<1>1. \A c \in Ctx : Entries(c)' = Entries(c)
  BY SameEntries DEF StartThread
<1>2. m_threads \in Ctx /\ m_threads + 1 \in 0 .. PoolSize /\ m_threads \in Nat
  BY ServerAssumption DEF Inv, TypeOK, StartThread, Ctx
<1>3. TypeOK'
  BY <1>2 DEF Inv, TypeOK, StartThread, acceptVars, sessionVars, peerVars
<1>4. Busy'
  <2> SUFFICES ASSUME NEW c \in Ctx
               PROVE  IF c < m_threads'
                        THEN thread'[c] = IF running'[c] = None THEN "run" ELSE "busy"
                        ELSE thread'[c] = "none" /\ running'[c] = None
    BY DEF Busy
  <2>1. c \in Nat /\ running' = running /\ m_threads' = m_threads + 1
        /\ thread' = [thread EXCEPT ![m_threads] = "run"]
        /\ thread \in [Ctx -> {"none", "run", "busy"}]
    BY ServerAssumption DEF StartThread, Inv, TypeOK, Ctx
  <2>2. CASE c = m_threads
    BY <1>2, <2>1, <2>2 DEF Inv, Busy
  <2>3. CASE c # m_threads
    <3>1. thread'[c] = thread[c] /\ (c < m_threads' <=> c < m_threads)
      BY <1>2, <2>1, <2>3
    <3>2. QED
      BY <2>1, <3>1 DEF Inv, Busy
  <2>4. QED
    BY <2>2, <2>3
<1>5. Once'
  BY SameEntries DEF StartThread, Inv
<1>6. Confined'
  BY <1>1 DEF Inv, Confined, HomeOf, StartThread
<1>7. Tokens'
  BY <1>1 DEF Inv, Tokens, Underway, StartThread, sessionVars
<1>8. Executors'
  BY DEF Inv, Executors, StartThread, acceptVars, sessionVars
<1>9. Accepting'
  BY <1>1 DEF Inv, Accepting, Waiting, InBacklog, StartThread, acceptVars, sessionVars,
              peerVars
<1>10. Backlogged'
  BY DEF Inv, Backlogged, Waiting, StartThread, sessionVars, peerVars
<1>11. Handed'
  <2>1. InFlight' = InFlight /\ Started' = Started /\ handed' = handed /\ main' = main
        /\ errors' = errors /\ errors \in Nat
    <3>1. 0 \in Ctx
      BY Counting DEF Inv
    <3>2. QED
      BY <1>1, <3>1 DEF InFlight, Started, StartThread, acceptVars, sessionVars, peerVars,
                        Inv, TypeOK
  <2>2. QED
    BY <2>1, HandedKept DEF Inv
<1>12. QED
  BY <1>3, <1>4, <1>5, <1>6, <1>7, <1>8, <1>9, <1>10, <1>11 DEF Inv

\* getIoContext() steps the index round the pool and counts one more handout.
LEMMA GetIoContextSteps ==
  ASSUME TypeOK, GetIoContext
  PROVE  /\ m_next_io_context' \in Ctx /\ handed' \in [Ctx -> Nat]
         /\ \A c \in Ctx : handed'[c] <= handed[c] + 1
         /\ m_threads' = m_threads /\ thread' = thread
<1>1. m_next_io_context \in Ctx /\ handed \in [Ctx -> Nat]
  BY DEF TypeOK
<1>2. m_next_io_context' \in Ctx
  BY <1>1, ServerAssumption DEF GetIoContext, Pool!NextIndex, Ctx
<1>3. handed' = [handed EXCEPT ![m_next_io_context] = @ + 1]
  BY DEF GetIoContext
<1>4. handed' \in [Ctx -> Nat] /\ \A c \in Ctx : handed'[c] <= handed[c] + 1
  BY <1>1, <1>3
<1>5. QED
  BY <1>2, <1>4 DEF GetIoContext

\* While the main thread is in start() itself no accept is under way.
LEMMA NoAcceptUnderway ==
  ASSUME Inv, main # "accepting"
  PROVE  /\ accept = "idle"
         /\ \A c \in Ctx : \A e \in Entries(c) : e.who # Acceptor
         /\ main # "resumed" => accepted = None /\ ~InFlight
<1>1. 0 \in Ctx
  BY Counting DEF Inv
<1>2. accept = "idle"
  BY DEF Inv, TypeOK, Accepting
<1>3. \A c \in Ctx : \A e \in Entries(c) : e.who # Acceptor
  BY DEF Inv, Accepting
<1>4. ASSUME main # "resumed" PROVE accepted = None
  BY <1>4 DEF Inv, Accepting
<1>5. QED
  BY <1>1, <1>2, <1>3, <1>4, ServerAssumption DEF InFlight

\* start() takes a context for the acceptor.
LEMMA ListenInv == Inv /\ Listen => Inv'
<1> SUFFICES ASSUME Inv, Listen PROVE Inv'
  OBVIOUS
<1>1. /\ \A c \in Ctx : Entries(c)' = Entries(c)
      /\ main = "setup" /\ main' \in {"loop", "unwinding"}
      /\ GetIoContext /\ TypeOK
  BY SameEntries DEF Listen, Inv
<1>2. /\ m_next_io_context' \in Ctx /\ handed' \in [Ctx -> Nat]
      /\ \A c \in Ctx : handed'[c] <= handed[c] + 1
      /\ m_threads' = m_threads /\ thread' = thread
  BY <1>1, GetIoContextSteps
<1>3. TypeOK'
  BY <1>1, <1>2 DEF TypeOK, Listen, sessionVars, peerVars
<1>4. Busy'
  BY <1>2 DEF Inv, Busy, Listen
<1>5. Once'
  BY SameEntries DEF Listen, Inv
<1>6. Confined'
  BY <1>1 DEF Inv, Confined, HomeOf, Listen
<1>7. Tokens'
  BY <1>1 DEF Inv, Tokens, Underway, Listen, sessionVars
<1>8. Executors'
  BY <1>1 DEF Inv, Executors, Listen, sessionVars
<1>9. /\ accept = "idle" /\ accepted = None /\ ~InFlight
      /\ \A c \in Ctx : \A e \in Entries(c) : e.who # Acceptor
  BY <1>1, NoAcceptUnderway
<1>10. Accepting'
  BY <1>1, <1>9, ServerAssumption DEF Inv, Accepting, Waiting, InBacklog, Listen,
                                      sessionVars, peerVars
<1>11. Backlogged'
  BY DEF Inv, Backlogged, Waiting, Listen, sessionVars, peerVars
<1>12. Handed'
  <2> SUFFICES ASSUME NEW c \in Ctx
               PROVE  handed'[c] <= (IF main' = "setup" THEN 0 ELSE 1)
                                      + Cardinality(Started)' + errors'
                                      + (IF InFlight' THEN 1 ELSE 0)
    BY DEF Handed
  <2>1. Started' = Started /\ errors' = errors
    BY DEF Started, Listen, sessionVars, peerVars
  <2>2. Cardinality(Started)' = Cardinality(Started) /\ Cardinality(Started) \in Nat
    BY <2>1, <1>1, Counting
  <2>3. errors \in Nat /\ handed[c] \in Nat /\ handed'[c] \in Nat
    BY <1>1, <1>2 DEF TypeOK
  <2>4. handed[c] <= Cardinality(Started) + errors
    <3>1. handed[c] <= 0 + Cardinality(Started) + errors + 0
      BY <1>1, <1>9 DEF Inv, Handed
    <3>2. QED
      BY <2>2, <2>3, <3>1
  <2>5. QED
    BY <1>1, <1>2, <2>1, <2>2, <2>3, <2>4
<1>13. QED
  BY <1>3, <1>4, <1>5, <1>6, <1>7, <1>8, <1>10, <1>11, <1>12 DEF Inv

\* The process ends with nothing accepted.
LEMMA UnwindInv == Inv /\ Unwind => Inv'
<1> SUFFICES ASSUME Inv, Unwind PROVE Inv'
  OBVIOUS
<1>1. /\ \A c \in Ctx : Entries(c)' = Entries(c)
      /\ main = "unwinding" /\ main' = "terminated" /\ TypeOK /\ 0 \in Ctx
  BY SameEntries, Counting DEF Unwind, Inv
<1>2. TypeOK'
  BY <1>1 DEF TypeOK, Unwind, poolVars, sessionVars, peerVars
<1>3. Busy'
  BY DEF Inv, Busy, Unwind, poolVars
<1>4. Once'
  BY SameEntries DEF Unwind, Inv
<1>5. Confined'
  BY <1>1 DEF Inv, Confined, HomeOf, Unwind
<1>6. Tokens'
  BY <1>1 DEF Inv, Tokens, Underway, Unwind, sessionVars
<1>7. Executors'
  BY <1>1 DEF Inv, Executors, Unwind, sessionVars
<1>8. /\ accept = "idle" /\ accepted = None /\ ~InFlight
      /\ \A c \in Ctx : \A e \in Entries(c) : e.who # Acceptor
  BY <1>1, NoAcceptUnderway
<1>9. Accepting'
  BY <1>1, <1>8, ServerAssumption DEF Inv, Accepting, Waiting, InBacklog, Unwind,
                                      sessionVars, peerVars
<1>10. Backlogged'
  BY DEF Inv, Backlogged, Waiting, Unwind, sessionVars, peerVars
<1>11. Handed'
  <2>1. Started' = Started /\ handed' = handed /\ errors' = errors /\ errors \in Nat
    BY <1>1 DEF Started, Unwind, poolVars, sessionVars, peerVars, TypeOK
  <2>2. QED
    BY <1>1, <1>8, <2>1, HandedKept DEF Inv
<1>12. QED
  BY <1>2, <1>3, <1>4, <1>5, <1>6, <1>7, <1>9, <1>10, <1>11 DEF Inv

\* The loop takes a context for the next session, makes its Executor and
\* awaits the accept.
LEMMA AwaitAcceptInv == Inv /\ AwaitAccept => Inv'
<1> SUFFICES ASSUME Inv, AwaitAccept PROVE Inv'
  OBVIOUS
<1>1. /\ \A c \in Ctx : Entries(c)' = Entries(c)
      /\ main = "loop" /\ main' = "accepting" /\ accept' = "pending"
      /\ GetIoContext /\ TypeOK /\ 0 \in Ctx /\ m_next_io_context \in Ctx
  BY SameEntries, Counting DEF AwaitAccept, Inv
<1>2. /\ m_next_io_context' \in Ctx /\ handed' \in [Ctx -> Nat]
      /\ \A c \in Ctx : handed'[c] <= handed[c] + 1
      /\ m_threads' = m_threads /\ thread' = thread
  BY <1>1, GetIoContextSteps
<1>3. /\ DOMAIN m_executor_map' = DOMAIN m_executor_map \cup {m_next_io_context}
      /\ \A c \in DOMAIN m_executor_map' :
           m_executor_map'[c] = IF c \in DOMAIN m_executor_map THEN m_executor_map[c]
                                ELSE c
  BY DEF AwaitAccept, ExecutorOf
<1>4. /\ socketCtx' \in [Conns \cup {Acceptor} -> Ctx \cup {None}]
      /\ socketCtx'[Acceptor] = m_next_io_context
      /\ \A k \in Conns : socketCtx'[k] = socketCtx[k]
  BY <1>1, ServerAssumption DEF AwaitAccept, TypeOK
<1>5. TypeOK'
  BY <1>1, <1>2, <1>3, <1>4 DEF TypeOK, AwaitAccept, sessionVars, peerVars
<1>6. Busy'
  BY <1>2 DEF Inv, Busy, AwaitAccept
<1>7. Once'
  BY SameEntries DEF AwaitAccept, Inv
<1>8. Confined'
  <2>1. \A c \in Ctx : \A e \in Entries(c) : e.who \in Conns \cup {Acceptor}
    BY <1>1, EntriesTyped DEF Entry
  <2>2. QED
    BY <1>1, <1>4, <2>1 DEF Inv, Confined, HomeOf
<1>9. Tokens'
  BY <1>1 DEF Inv, Tokens, Underway, AwaitAccept, sessionVars
<1>10. Executors'
  BY <1>1, <1>3, <1>4 DEF Inv, Executors, AwaitAccept, sessionVars
<1>11. /\ accept = "idle" /\ accepted = None /\ ~InFlight
       /\ \A c \in Ctx : \A e \in Entries(c) : e.who # Acceptor
  BY <1>1, NoAcceptUnderway
<1>12. Accepting'
  BY <1>1, <1>11, ServerAssumption DEF Inv, Accepting, Waiting, InBacklog, AwaitAccept,
                                      sessionVars, peerVars
<1>13. Backlogged'
  BY DEF Inv, Backlogged, Waiting, AwaitAccept, sessionVars, peerVars
<1>14. Handed'
  <2> SUFFICES ASSUME NEW c \in Ctx
               PROVE  handed'[c] <= (IF main' = "setup" THEN 0 ELSE 1)
                                      + Cardinality(Started)' + errors'
                                      + (IF InFlight' THEN 1 ELSE 0)
    BY DEF Handed
  <2>1. Started' = Started /\ errors' = errors /\ InFlight'
    BY <1>1 DEF Started, InFlight, AwaitAccept, sessionVars, peerVars
  <2>2. Cardinality(Started)' = Cardinality(Started) /\ Cardinality(Started) \in Nat
    BY <2>1, <1>1, Counting
  <2>3. errors \in Nat /\ handed[c] \in Nat /\ handed'[c] \in Nat
    BY <1>1, <1>2 DEF TypeOK
  <2>4. handed[c] <= 1 + Cardinality(Started) + errors
    <3>1. handed[c] <= 1 + Cardinality(Started) + errors + 0
      BY <1>1, <1>11 DEF Inv, Handed
    <3>2. QED
      BY <2>2, <2>3, <3>1
  <2>5. QED
    BY <1>1, <1>2, <2>1, <2>2, <2>3, <2>4
<1>15. QED
  BY <1>5, <1>6, <1>7, <1>8, <1>9, <1>10, <1>12, <1>13, <1>14 DEF Inv

\* The accept loop goes on after a failed accept.
LEMMA ResumeErrorInv ==
  ASSUME Inv, ResumeAccept, accepted = "error"
  PROVE  Inv'
<1>1. /\ ready' = ready /\ running' = running /\ socketCtx' = socketCtx /\ at' = at
      /\ main = "resumed" /\ main' = "loop" /\ accepted' = None /\ TypeOK /\ 0 \in Ctx
  BY ServerAssumption, Counting DEF ResumeAccept, AcceptFailedGoesOn, Inv
<1>2. \A c \in Ctx : Entries(c)' = Entries(c)
  BY <1>1, SameEntries
<1>3. TypeOK'
  BY <1>1 DEF TypeOK, ResumeAccept, poolVars, peerVars
<1>4. Busy'
  BY <1>1 DEF Inv, Busy, ResumeAccept, poolVars
<1>5. Once'
  BY <1>1, SameEntries DEF Inv
<1>6. Confined'
  BY <1>1, <1>2 DEF Inv, Confined, HomeOf
<1>7. Tokens'
  BY <1>1, <1>2 DEF Inv, Tokens, Underway, ResumeAccept
<1>8. Executors'
  BY <1>1 DEF Inv, Executors, ResumeAccept
<1>9. accept = "idle" /\ \A c \in Ctx : \A e \in Entries(c) : e.who # Acceptor
  BY <1>1, NoAcceptUnderway
<1>10. accept' = accept
  BY DEF ResumeAccept
<1>11. Accepting'
  BY <1>1, <1>2, <1>9, <1>10, ServerAssumption
  DEF Inv, Accepting, Waiting, InBacklog, ResumeAccept, peerVars
<1>12. Backlogged'
  BY <1>1 DEF Inv, Backlogged, Waiting, ResumeAccept, peerVars
<1>13. Handed'
  <2>1. ~InFlight
    BY <1>1, <1>9, ServerAssumption DEF InFlight
  <2>2. Started' = Started /\ handed' = handed /\ errors' = errors /\ errors \in Nat
    BY <1>1 DEF Started, ResumeAccept, poolVars, peerVars, TypeOK
  <2>3. QED
    BY <1>1, <2>1, <2>2, HandedKept DEF Inv
<1>14. QED
  BY <1>3, <1>4, <1>5, <1>6, <1>7, <1>8, <1>11, <1>12, <1>13 DEF Inv

\* A connection gets its session, on the context its socket was made for.
LEMMA ResumeConnectionInv ==
  ASSUME Inv, ResumeAccept, accepted \in Conns
  PROVE  Inv'
<1> DEFINE k == accepted
           s == socketCtx[Acceptor]
           e == [who |-> accepted, kind |-> "resume", ec |-> "ok"]
<1>1. /\ running' = running /\ main = "resumed" /\ main' = "loop" /\ accepted' = None
      /\ socketCtx' = [socketCtx EXCEPT ![k] = s]
      /\ at' = [at EXCEPT ![k] = "schedule"]
      /\ ready' = [ready EXCEPT ![m_executor_map[s]] = Append(@, e)]
      /\ accept' = accept /\ pending' = pending /\ m_ec' = m_ec
      /\ m_executor_map' = m_executor_map
  BY ServerAssumption DEF ResumeAccept, Post
<1>2. TypeOK /\ 0 \in Ctx
  BY Counting DEF Inv
<1>3. s \in DOMAIN m_executor_map /\ m_executor_map[s] = s /\ s \in Ctx
  BY <1>1, <1>2 DEF Inv, Executors, TypeOK
<1>4. Waiting(k) /\ ~InBacklog(k)
  BY DEF Inv, Accepting
<1>5. at[k] = "none" /\ k \notin pending
      /\ \A c \in Ctx : \A x \in Entries(c) : x.who # k
  BY <1>4 DEF Inv, Tokens, Underway, Waiting
<1>6. accept = "idle" /\ \A c \in Ctx : \A x \in Entries(c) : x.who # Acceptor
  BY <1>1, NoAcceptUnderway
<1>7. e \in Entry /\ e.who = k /\ e.ec = "ok" /\ k \in Conns /\ k # Acceptor
  BY ServerAssumption DEF Entry
<1> HIDE DEF e
<1>8. /\ ready' \in [Ctx -> Seq(Entry)] /\ Once'
      /\ \A d \in Ctx : Entries(d)' = IF d = s THEN Entries(s) \cup {e} ELSE Entries(d)
  <2>1. ready \in [Ctx -> Seq(Entry)] /\ Once
    BY DEF Inv, TypeOK
  <2>2. \A x \in Entries(s) : x.who # e.who
    BY <1>3, <1>5, <1>7
  <2>3. ready' = [ready EXCEPT ![s] = Append(@, e)] /\ running' = running
    BY <1>1, <1>3
  <2> HIDE DEF s
  <2>4. QED
    BY <1>3, <1>7, <2>1, <2>2, <2>3, PostEntries
<1>9. /\ socketCtx' \in [Conns \cup {Acceptor} -> Ctx \cup {None}]
      /\ socketCtx'[k] = s /\ \A w \in Conns : w # k => socketCtx'[w] = socketCtx[w]
      /\ at'[k] = "schedule" /\ \A w \in Conns : w # k => at'[w] = at[w]
      /\ at' \in [Conns -> {"none", "schedule", "timer", "read", "write", "closed"}]
  BY <1>1, <1>2, <1>3, <1>7 DEF TypeOK
<1> HIDE DEF k, s
<1>10. TypeOK'
  BY <1>1, <1>2, <1>8, <1>9 DEF TypeOK, ResumeAccept, poolVars, peerVars
<1>11. Busy'
  BY <1>1 DEF Inv, Busy, ResumeAccept, poolVars
<1>12. Confined'
  <2>1. \A c \in Ctx : \A x \in Entries(c) : x.who \in Conns
    BY <1>2, <1>6, EntriesTyped DEF Entry
  <2>2. \A c \in Ctx : \A x \in Entries(c) : c = socketCtx'[x.who]
    BY <1>5, <1>6, <1>9, <2>1 DEF Inv, Confined, HomeOf
  <2>3. QED
    BY <1>3, <1>6, <1>7, <1>8, <1>9, <2>2 DEF Confined, HomeOf
<1>13. Tokens'
  <2> SUFFICES ASSUME NEW w \in Conns
               PROVE  /\ \A c \in Ctx : \A x \in Entries(c)' :
                           x.who = w => Underway(w)' /\ w \notin pending'
                      /\ w \in pending' => Underway(w)'
                      /\ Underway(w)' => \/ w \in pending'
                                         \/ \E c \in Ctx : \E x \in Entries(c)' : x.who = w
    BY DEF Tokens
  <2>1. CASE w = k
    <3>1. Underway(w)'
      BY <1>9, <2>1 DEF Underway
    <3>2. \E c \in Ctx : \E x \in Entries(c)' : x.who = w
      BY <1>3, <1>7, <1>8, <2>1
    <3>3. w \notin pending'
      BY <1>1, <1>5, <2>1
    <3>4. QED
      BY <3>1, <3>2, <3>3
  <2>2. CASE w # k
    <3>1. Underway(w)' <=> Underway(w)
      BY <1>9, <2>2 DEF Underway
    <3>2. e.who # w
      BY <1>7, <2>2
    <3>3. \A c \in Ctx : Entries(c) \subseteq Entries(c)'
      BY <1>8
    <3>4. \A c \in Ctx : \A x \in Entries(c)' : x.who = w => x \in Entries(c)
      BY <1>8, <3>2
    <3>5. QED
      BY <1>1, <3>1, <3>3, <3>4 DEF Inv, Tokens
  <2>3. QED
    BY <2>1, <2>2
<1>14. Executors'
  BY <1>1, <1>3, <1>9 DEF Inv, Executors
<1>15. Accepting'
  <2>1. \A c \in Ctx : \A x \in Entries(c)' : x.who # Acceptor /\ x.ec \in {"ok", "error"}
    BY <1>6, <1>7, <1>8 DEF Inv, Accepting
  <2>2. accept' # "pending" /\ accepted' = None /\ accepted' \notin Conns
    BY <1>1, <1>6, ServerAssumption
  <2>3. QED
    BY <2>1, <2>2 DEF Accepting
<1>16. Backlogged'
  <2>1. backlog' = backlog /\ peer' = peer /\ backlog \in Seq(Conns)
    BY <1>2 DEF ResumeAccept, peerVars, TypeOK
  <2>2. \A n \in 1 .. Len(backlog) : backlog[n] # k /\ backlog[n] \in Conns
    BY <1>4, <2>1 DEF InBacklog
  <2>3. peer[k] # "none"
    BY <1>4 DEF Waiting
  <2>4. QED
    BY <1>9, <2>1, <2>2, <2>3 DEF Inv, Backlogged, Waiting
<1>17. Handed'
  <2> SUFFICES ASSUME NEW c \in Ctx
               PROVE  handed'[c] <= (IF main' = "setup" THEN 0 ELSE 1)
                                      + Cardinality(Started)' + errors'
                                      + (IF InFlight' THEN 1 ELSE 0)
    BY DEF Handed
  <2>1. Started' = Started \cup {k} /\ k \notin Started
    BY <1>5, <1>7, <1>9 DEF Started
  <2>2. IsFiniteSet(Started) /\ Cardinality(Started) \in Nat
    BY <1>2, Counting
  <2>3. Cardinality(Started)' = Cardinality(Started) + 1
    <3> HIDE DEF Started
    <3>1. Cardinality(Started \cup {k}) = Cardinality(Started) + 1
      BY <2>1, <2>2, FS_AddElement
    <3>2. QED
      BY <2>1, <3>1
  <2>4. errors' = errors /\ handed' = handed /\ errors \in Nat /\ handed[c] \in Nat
    BY <1>2 DEF ResumeAccept, poolVars, peerVars, TypeOK
  <2>5. handed[c] <= 1 + Cardinality(Started) + errors + (IF InFlight THEN 1 ELSE 0)
    BY <1>1 DEF Inv, Handed
  <2>6. QED
    BY <1>1, <2>2, <2>3, <2>4, <2>5
<1>18. QED
  BY <1>8, <1>10, <1>11, <1>12, <1>13, <1>14, <1>15, <1>16, <1>17 DEF Inv

\* Both outcomes of an accept.
LEMMA ResumeAcceptInv == Inv /\ ResumeAccept => Inv'
  BY ResumeErrorInv, ResumeConnectionInv DEF ResumeAccept
-----------------------------------------------------------------------------
(* The kernel and the peers. *)

\* A new connection joins the backlog.
LEMMA ConnectInv == ASSUME NEW k \in Conns PROVE Inv /\ Connect(k) => Inv'
<1> SUFFICES ASSUME Inv, Connect(k) PROVE Inv'
  OBVIOUS
<1>1. /\ ready' = ready /\ running' = running /\ at' = at /\ socketCtx' = socketCtx
      /\ main' = main /\ accept' = accept /\ accepted' = accepted /\ pending' = pending
      /\ m_executor_map' = m_executor_map /\ handed' = handed /\ errors' = errors
      /\ m_threads' = m_threads /\ thread' = thread
      /\ peer[k] = "none" /\ peer' = [peer EXCEPT ![k] = "open"]
      /\ backlog' = Append(backlog, k) /\ TypeOK /\ 0 \in Ctx
  BY Counting DEF Connect, poolVars, acceptVars, sessionVars, Inv
<1>2. \A c \in Ctx : Entries(c)' = Entries(c)
  BY <1>1, SameEntries
<1>3. /\ backlog \in Seq(Conns) /\ backlog' \in Seq(Conns)
      /\ Len(backlog) \in Nat /\ Len(backlog') = Len(backlog) + 1
      /\ \A n \in 1 .. Len(backlog) : backlog'[n] = backlog[n] /\ backlog[n] \in Conns
      /\ backlog'[Len(backlog) + 1] = k
  BY <1>1 DEF TypeOK
<1>4. \A n \in 1 .. Len(backlog') : n \in 1 .. Len(backlog) \/ n = Len(backlog) + 1
  BY <1>3
<1>5. peer'[k] = "open" /\ \A w \in Conns : w # k => peer'[w] = peer[w]
  BY <1>1 DEF TypeOK
<1>6. at[k] = "none"
  BY <1>1 DEF Inv, Backlogged
<1>7. \A n \in 1 .. Len(backlog) : backlog[n] # k
  BY <1>1, <1>3 DEF Inv, Backlogged, Waiting
<1>8. TypeOK'
  BY <1>1, <1>3 DEF TypeOK, Connect, poolVars, sessionVars
<1>9. Busy'
  BY <1>1 DEF Inv, Busy
<1>10. Once'
  BY <1>1, SameEntries DEF Inv
<1>11. Confined'
  BY <1>1, <1>2 DEF Inv, Confined, HomeOf
<1>12. Tokens'
  BY <1>1, <1>2 DEF Inv, Tokens, Underway
<1>13. Executors'
  BY <1>1 DEF Inv, Executors
<1>14. ASSUME NEW w \in Conns, Waiting(w), ~InBacklog(w)
       PROVE  Waiting(w)' /\ ~InBacklog(w)'
  BY <1>1, <1>3, <1>4, <1>5, <1>14 DEF Waiting, InBacklog
<1>15. Accepting'
  <2>1. accepted' \in Conns => Waiting(accepted') /\ ~InBacklog(accepted')
    BY <1>1 DEF Inv, Accepting
  <2>2. accepted \in Conns => peer'[accepted] # "none" /\ at'[accepted] = "none"
                              /\ ~(\E n \in 1 .. Len(backlog') : backlog'[n] = accepted)
    BY <1>1, <1>14 DEF Inv, Accepting, Waiting, InBacklog
  <2>3. \A w \in Conns : Waiting(w) /\ ~InBacklog(w) => Waiting(w)' /\ ~InBacklog(w)'
    BY <1>14
  <2>4. \A c \in Ctx : \A e \in Entries(c)' :
          IF e.who = Acceptor
            THEN /\ e.kind = "callback" /\ e.ec \in Conns \cup {"error"}
                 /\ main' = "accepting" /\ accept' = "idle"
                 /\ e.ec \in Conns => Waiting(e.ec)' /\ ~InBacklog(e.ec)'
            ELSE e.ec \in {"ok", "error"}
    BY <1>1, <1>2, <2>3 DEF Inv, Accepting
  <2>5. /\ accept' = "pending" => main' = "accepting"
        /\ accepted' # None => main' = "resumed"
    BY <1>1 DEF Inv, Accepting
  <2>6. accepted' \in Conns => Waiting(accepted)' /\ ~InBacklog(accepted)'
    BY <1>1, <2>2 DEF Waiting, InBacklog
  <2>7. QED
    BY <2>4, <2>5, <2>6 DEF Accepting
<1>16. Backlogged'
  <2>1. \A m, n \in 1 .. Len(backlog') : backlog'[m] = backlog'[n] => m = n
    BY <1>3, <1>4, <1>7 DEF Inv, Backlogged
  <2>2. \A n \in 1 .. Len(backlog') : peer'[backlog'[n]] # "none" /\ at'[backlog'[n]] = "none"
    BY <1>1, <1>3, <1>4, <1>5, <1>6, <1>7 DEF Inv, Backlogged, Waiting
  <2>3. \A w \in Conns : peer'[w] = "none" => at'[w] = "none"
    BY <1>1, <1>5 DEF Inv, Backlogged
  <2>4. QED
    BY <2>1, <2>2, <2>3 DEF Backlogged, Waiting
<1>17. Handed'
  <2>1. InFlight' = InFlight /\ Started' = Started /\ errors \in Nat
    BY <1>1, <1>2 DEF InFlight, Started, TypeOK
  <2>2. QED
    BY <1>1, <2>1, HandedKept DEF Inv
<1>18. QED
  BY <1>8, <1>9, <1>10, <1>11, <1>12, <1>13, <1>15, <1>16, <1>17 DEF Inv

\* A peer that sends or leaves touches no one's turn.
LEMMA PeerInv == ASSUME NEW k \in Conns PROVE Inv /\ (Send(k) \/ Close(k)) => Inv'
<1> SUFFICES ASSUME Inv, Send(k) \/ Close(k) PROVE Inv'
  OBVIOUS
<1>1. /\ ready' = ready /\ running' = running /\ at' = at /\ socketCtx' = socketCtx
      /\ main' = main /\ accept' = accept /\ accepted' = accepted /\ pending' = pending
      /\ m_executor_map' = m_executor_map /\ handed' = handed /\ errors' = errors
      /\ m_threads' = m_threads /\ thread' = thread /\ backlog' = backlog
      /\ m_next_io_context' = m_next_io_context /\ m_ec' = m_ec
  BY DEF Send, Close, poolVars, acceptVars, sessionVars
<1>2. TypeOK /\ 0 \in Ctx
  BY Counting DEF Inv
<1>3. \A c \in Ctx : Entries(c)' = Entries(c)
  BY <1>1, SameEntries
<1>4. /\ peer' \in [Conns -> {"none", "open", "closed"}]
      /\ inbox' \in [Conns -> 0 .. MaxInbox]
      /\ \A w \in Conns : peer'[w] = "none" <=> peer[w] = "none"
  <2>1. CASE Send(k)
    <3>1. inbox[k] + 1 \in 0 .. MaxInbox
      BY <1>2, <2>1, ServerAssumption DEF Send, TypeOK
    <3>2. QED
      BY <1>2, <2>1, <3>1 DEF Send, TypeOK
  <2>2. CASE Close(k)
    BY <1>2, <2>2 DEF Close, TypeOK
  <2>3. QED
    BY <2>1, <2>2
<1>5. TypeOK'
  BY <1>1, <1>2, <1>4 DEF TypeOK
<1>6. Busy'
  BY <1>1 DEF Inv, Busy
<1>7. Once'
  BY <1>1, SameEntries DEF Inv
<1>8. Confined'
  BY <1>1, <1>3 DEF Inv, Confined, HomeOf
<1>9. Tokens'
  BY <1>1, <1>3 DEF Inv, Tokens, Underway
<1>10. Executors'
  BY <1>1 DEF Inv, Executors
<1>11. Accepting'
  BY <1>1, <1>3, <1>4 DEF Inv, Accepting, Waiting, InBacklog
<1>12. Backlogged'
  <2>1. \A n \in 1 .. Len(backlog) : backlog[n] \in Conns
    BY <1>2 DEF TypeOK
  <2>2. QED
    BY <1>1, <1>4, <2>1 DEF Inv, Backlogged, Waiting
<1>13. Handed'
  <2>1. InFlight' = InFlight /\ Started' = Started /\ errors \in Nat
    BY <1>1, <1>2, <1>3 DEF InFlight, Started, TypeOK
  <2>2. QED
    BY <1>1, <1>2, <2>1, HandedKept DEF Inv
<1>14. QED
  BY <1>5, <1>6, <1>7, <1>8, <1>9, <1>10, <1>11, <1>12, <1>13 DEF Inv

\* The tail of a sequence is the sequence moved up by one place.
LEMMA TailShifts ==
  ASSUME NEW S, NEW s \in Seq(S), s # << >>, NEW n \in 1 .. Len(Tail(s))
  PROVE  Tail(s)[n] = s[n + 1]
<1>1. Len(s) \in Nat /\ Len(Tail(s)) = Len(s) - 1
  OBVIOUS
<1>2. n \in 1 .. (Len(s) - 1)
  BY <1>1
<1>3. QED
  BY <1>2

\* The accept operation ends, with the connection r taken from the backlog or
\* with an error.
LEMMA AcceptEndsInv ==
  ASSUME Inv, NEW r \in Conns \cup {"error"}, accept = "pending", accept' = "idle",
         Post(0, Acceptor, "callback", r),
         poolVars' = poolVars, running' = running, main' = main,
         m_executor_map' = m_executor_map, accepted' = accepted,
         socketCtx' = socketCtx, sessionVars' = sessionVars, peer' = peer, inbox' = inbox,
         errors' \in 0 .. MaxAcceptErrors,
         \/ r = "error" /\ backlog' = backlog /\ errors' = errors + 1
         \/ /\ r \in Conns /\ backlog # << >> /\ r = Head(backlog)
            /\ backlog' = Tail(backlog) /\ errors' = errors
  PROVE  Inv'
<1> DEFINE e == [who |-> Acceptor, kind |-> "callback", ec |-> r]
<1>1. TypeOK /\ 0 \in Ctx /\ main = "accepting"
  BY Counting DEF Inv, Accepting
<1>2. \A c \in Ctx : \A x \in Entries(c) : x.who # Acceptor
  BY DEF Inv, Accepting
<1>3. e \in Entry /\ e.who = Acceptor /\ e.kind = "callback" /\ e.ec = r
  BY DEF Entry
<1>4. ready' = [ready EXCEPT ![0] = Append(@, e)]
  BY DEF Post
<1> HIDE DEF e
<1>5. /\ ready' \in [Ctx -> Seq(Entry)] /\ Once'
      /\ \A d \in Ctx : Entries(d)' = IF d = 0 THEN Entries(0) \cup {e} ELSE Entries(d)
  <2>1. ready \in [Ctx -> Seq(Entry)] /\ Once
    BY DEF Inv, TypeOK
  <2>2. \A x \in Entries(0) : x.who # e.who
    BY <1>1, <1>2, <1>3
  <2>3. QED
    BY <1>1, <1>3, <1>4, <2>1, <2>2, PostEntries
<1>6. /\ at' = at /\ pending' = pending /\ m_ec' = m_ec /\ handed' = handed
      /\ m_threads' = m_threads /\ thread' = thread
      /\ m_next_io_context' = m_next_io_context
  BY DEF sessionVars, poolVars
<1>7. /\ backlog' \in Seq(Conns)
      /\ \E i \in {0, 1} : \A n \in 1 .. Len(backlog') :
           /\ n + i \in 1 .. Len(backlog) /\ backlog'[n] = backlog[n + i]
           /\ r \in Conns => i = 1 /\ r = backlog[1] /\ 1 \in 1 .. Len(backlog)
  <2>1. backlog \in Seq(Conns) /\ Len(backlog) \in Nat
    BY <1>1 DEF TypeOK
  <2>2. CASE r = "error" /\ backlog' = backlog
    <3>1. \A n \in 1 .. Len(backlog') :
             /\ n + 0 \in 1 .. Len(backlog) /\ backlog'[n] = backlog[n + 0]
             /\ r \notin Conns
      BY <2>1, <2>2, ServerAssumption
    <3>2. QED
      BY <2>1, <2>2, <3>1
  <2>3. CASE backlog # << >> /\ r = Head(backlog) /\ backlog' = Tail(backlog)
    <3>1. /\ backlog' \in Seq(Conns) /\ Len(backlog') = Len(backlog) - 1
          /\ r = backlog[1] /\ Len(backlog) >= 1
      BY <2>1, <2>3
    <3>2. \A n \in 1 .. Len(backlog') :
             /\ n + 1 \in 1 .. Len(backlog) /\ backlog'[n] = backlog[n + 1]
             /\ r = backlog[1] /\ 1 \in 1 .. Len(backlog)
      <4>1. ASSUME NEW n \in 1 .. Len(backlog')
            PROVE  n + 1 \in 1 .. Len(backlog)
        BY <2>1, <3>1
      <4>2. ASSUME NEW n \in 1 .. Len(backlog')
            PROVE  backlog'[n] = backlog[n + 1]
        BY <2>1, <2>3, TailShifts
      <4>3. 1 \in 1 .. Len(backlog)
        BY <2>1, <3>1
      <4>4. QED
        BY <3>1, <4>1, <4>2, <4>3
    <3>3. QED
      BY <3>1, <3>2
  <2>4. QED
    BY <2>2, <2>3
<1>8. \A k \in Conns : ~InBacklog(k) => ~InBacklog(k)'
  BY <1>7 DEF InBacklog
<1>9. r \in Conns => peer[r] # "none" /\ at[r] = "none" /\ ~InBacklog(r)'
  <2> SUFFICES ASSUME r \in Conns
               PROVE  peer[r] # "none" /\ at[r] = "none" /\ ~InBacklog(r)'
    OBVIOUS
  <2>1. backlog # << >> /\ r = Head(backlog) /\ backlog \in Seq(Conns)
    BY <1>1, ServerAssumption DEF TypeOK
  <2>2. r = backlog[1] /\ 1 \in 1 .. Len(backlog)
    BY <2>1
  <2>3. Waiting(r)
    BY <2>2 DEF Inv, Backlogged
  <2>4. ASSUME NEW n \in 1 .. Len(backlog') PROVE backlog'[n] # r
    <3>1. n + 1 \in 1 .. Len(backlog) /\ backlog'[n] = backlog[n + 1] /\ n + 1 # 1
      BY <1>7, SMTT(40)
    <3>2. QED
      BY <2>2, <3>1 DEF Inv, Backlogged
  <2>5. QED
    BY <2>3, <2>4 DEF Waiting, InBacklog
<1>10. TypeOK'
  BY <1>1, <1>5, <1>6, <1>7 DEF TypeOK
<1>11. Busy'
  BY <1>6 DEF Inv, Busy
<1>12. Confined'
  BY <1>3, <1>5 DEF Inv, Confined, HomeOf
<1>13. Tokens'
  <2>1. \A k \in Conns : \A c \in Ctx : \A x \in Entries(c)' : x.who = k => x \in Entries(c)
    BY <1>3, <1>5, ServerAssumption
  <2>2. \A c \in Ctx : Entries(c) \subseteq Entries(c)'
    BY <1>5
  <2>3. QED
    BY <1>6, <2>1, <2>2 DEF Inv, Tokens, Underway
<1>14. Executors'
  BY <1>6 DEF Inv, Executors
<1>15. Accepting'
  <2>1. accepted = None /\ accepted \notin Conns
    BY <1>1, ServerAssumption DEF Inv, Accepting
  <2>2. \A c \in Ctx : \A x \in Entries(c)' :
          IF x.who = Acceptor
            THEN /\ x.kind = "callback" /\ x.ec \in Conns \cup {"error"}
                 /\ main' = "accepting" /\ accept' = "idle"
                 /\ x.ec \in Conns => Waiting(x.ec)' /\ ~InBacklog(x.ec)'
            ELSE x.ec \in {"ok", "error"}
    <3> SUFFICES ASSUME NEW c \in Ctx, NEW x \in Entries(c)'
                 PROVE  IF x.who = Acceptor
                          THEN /\ x.kind = "callback" /\ x.ec \in Conns \cup {"error"}
                               /\ main' = "accepting" /\ accept' = "idle"
                               /\ x.ec \in Conns => Waiting(x.ec)' /\ ~InBacklog(x.ec)'
                          ELSE x.ec \in {"ok", "error"}
      OBVIOUS
    <3>1. CASE x = e
      BY <1>1, <1>3, <1>6, <1>9, <3>1 DEF Waiting
    <3>2. CASE x \in Entries(c)
      BY <1>2, <3>2 DEF Inv, Accepting
    <3>3. QED
      BY <1>5, <3>1, <3>2
  <2>3. QED
    BY <2>1, <2>2 DEF Accepting
<1>16. Backlogged'
  <2>1. PICK i \in {0, 1} : \A n \in 1 .. Len(backlog') :
          n + i \in 1 .. Len(backlog) /\ backlog'[n] = backlog[n + i]
    BY <1>7
  <2>2. \A m, n \in 1 .. Len(backlog') : backlog'[m] = backlog'[n] => m = n
    <3> SUFFICES ASSUME NEW m \in 1 .. Len(backlog'), NEW n \in 1 .. Len(backlog'),
                        backlog'[m] = backlog'[n]
                 PROVE  m = n
      OBVIOUS
    <3>1. m + i = n + i
      BY <2>1 DEF Inv, Backlogged
    <3>2. QED
      BY <3>1
  <2>3. \A n \in 1 .. Len(backlog') : Waiting(backlog'[n])
    BY <2>1 DEF Inv, Backlogged
  <2>4. QED
    BY <1>6, <2>2, <2>3 DEF Inv, Backlogged, Waiting
<1>17. Handed'
  <2>1. Started' = Started /\ errors \in Nat /\ errors' \in Nat
    BY <1>1, <1>6 DEF Started, TypeOK
  <2>2. InFlight' \/ errors' = errors + 1
    <3>1. e \in Entries(0)' /\ e.who = Acceptor /\ e.ec = r
      BY <1>1, <1>3, <1>5
    <3>2. QED
      BY <3>1 DEF InFlight
  <2>3. QED
    BY <1>1, <1>6, <2>1, <2>2, HandedKept DEF Inv
<1>18. QED
  BY <1>5, <1>10, <1>11, <1>12, <1>13, <1>14, <1>15, <1>16, <1>17 DEF Inv

\* The accept takes the oldest connection of the backlog.
LEMMA AcceptCompletesInv == Inv /\ AcceptCompletes => Inv'
<1> SUFFICES ASSUME Inv, AcceptCompletes PROVE Inv'
  OBVIOUS
<1>1. backlog \in Seq(Conns) /\ backlog # << >> /\ errors \in 0 .. MaxAcceptErrors
  BY DEF Inv, TypeOK, AcceptCompletes
<1>2. PICK r \in Conns : r = Head(backlog)
  BY <1>1
<1>3. QED
  BY <1>1, <1>2, AcceptEndsInv DEF AcceptCompletes

\* The accept fails.
LEMMA AcceptFailsInv == Inv /\ AcceptFails => Inv'
<1> SUFFICES ASSUME Inv, AcceptFails PROVE Inv'
  OBVIOUS
<1>1. errors + 1 \in 0 .. MaxAcceptErrors
  BY ServerAssumption DEF Inv, TypeOK, AcceptFails
<1>2. QED
  BY <1>1, AcceptEndsInv DEF AcceptFails

\* A session's operation ends: its callback takes the operation's place.
LEMMA CompletesInv ==
  ASSUME Inv, NEW k \in Conns, NEW ec \in {"ok", "error"}, Completes(k, ec),
         inbox' \in [Conns -> 0 .. MaxInbox]
  PROVE  Inv'
<1>1. TypeOK /\ 0 \in Ctx
  BY Counting DEF Inv
<1>2. /\ k \in pending /\ Underway(k)
      /\ \A c \in Ctx : \A x \in Entries(c) : x.who # k
  BY DEF Completes, Inv, Tokens
<1>3. PICK s \in Ctx : s = socketCtx[k]
  BY <1>1, <1>2 DEF Inv, Executors, Underway, TypeOK
<1>4. PICK e \in Entry : e = [who |-> k, kind |-> "callback", ec |-> ec]
  BY DEF Entry
<1>5. e.who = k /\ e.ec = ec /\ k # Acceptor
  BY <1>4, ServerAssumption
<1>6. /\ ready' = [ready EXCEPT ![s] = Append(@, e)]
      /\ running' = running /\ pending' = pending \ {k} /\ at' = at /\ m_ec' = m_ec
      /\ socketCtx' = socketCtx /\ backlog' = backlog /\ peer' = peer /\ errors' = errors
      /\ main' = main /\ m_executor_map' = m_executor_map /\ accept' = accept
      /\ accepted' = accepted /\ m_next_io_context' = m_next_io_context
      /\ m_threads' = m_threads /\ thread' = thread /\ handed' = handed
  BY <1>3, <1>4 DEF Completes, Post, acceptVars, poolVars
<1>7. /\ ready' \in [Ctx -> Seq(Entry)] /\ Once'
      /\ \A d \in Ctx : Entries(d)' = IF d = s THEN Entries(s) \cup {e} ELSE Entries(d)
  <2>1. ready \in [Ctx -> Seq(Entry)] /\ Once
    BY DEF Inv, TypeOK
  <2>2. \A x \in Entries(s) : x.who # e.who
    BY <1>2, <1>5
  <2>3. QED
    BY <1>6, <2>1, <2>2, PostEntries
<1>8. TypeOK'
  BY <1>1, <1>6, <1>7 DEF TypeOK
<1>9. Busy'
  BY <1>6 DEF Inv, Busy
<1>10. Confined'
  BY <1>3, <1>5, <1>6, <1>7 DEF Inv, Confined, HomeOf
<1>11. Tokens'
  <2> SUFFICES ASSUME NEW w \in Conns
               PROVE  /\ \A c \in Ctx : \A x \in Entries(c)' :
                           x.who = w => Underway(w)' /\ w \notin pending'
                      /\ w \in pending' => Underway(w)'
                      /\ Underway(w)' => \/ w \in pending'
                                         \/ \E c \in Ctx : \E x \in Entries(c)' : x.who = w
    BY DEF Tokens
  <2>1. Underway(w)' <=> Underway(w)
    BY <1>6 DEF Underway
  <2>2. CASE w = k
    <3>1. \E c \in Ctx : \E x \in Entries(c)' : x.who = w
      BY <1>5, <1>7, <2>2
    <3>2. w \notin pending'
      BY <1>6, <2>2
    <3>3. QED
      BY <1>2, <2>1, <2>2, <3>1, <3>2
  <2>3. CASE w # k
    <3>1. \A c \in Ctx : Entries(c) \subseteq Entries(c)'
      BY <1>7
    <3>2. \A c \in Ctx : \A x \in Entries(c)' : x.who = w => x \in Entries(c)
      BY <1>5, <1>7, <2>3
    <3>3. w \in pending' <=> w \in pending
      BY <1>6, <2>3
    <3>4. QED
      BY <2>1, <3>1, <3>2, <3>3 DEF Inv, Tokens
  <2>4. QED
    BY <2>2, <2>3
<1>12. Executors'
  BY <1>6 DEF Inv, Executors
<1>13. Accepting'
  BY <1>5, <1>6, <1>7 DEF Inv, Accepting, Waiting, InBacklog
<1>14. Backlogged'
  BY <1>6 DEF Inv, Backlogged, Waiting
<1>15. Handed'
  <2>1. Started' = Started /\ errors \in Nat
    BY <1>1, <1>6 DEF Started, TypeOK
  <2>2. InFlight => InFlight'
    BY <1>1, <1>6, <1>7 DEF InFlight
  <2>3. QED
    BY <1>1, <1>6, <2>1, <2>2, HandedKept DEF Inv
<1>16. QED
  BY <1>7, <1>8, <1>9, <1>10, <1>11, <1>12, <1>13, <1>14, <1>15 DEF Inv

\* The operations of a session: the timer, a read, a write.
LEMMA OperationInv ==
  ASSUME NEW k \in Conns, Inv, TimerFires(k) \/ ReadCompletes(k) \/ WriteCompletes(k)
  PROVE  Inv'
<1>1. inbox \in [Conns -> 0 .. MaxInbox] /\ MaxInbox \in Nat
  BY ServerAssumption DEF Inv, TypeOK
<1>2. CASE TimerFires(k)
  BY <1>1, <1>2, CompletesInv DEF TimerFires
<1>3. CASE ReadCompletes(k)
  <2>1. CASE \E n \in 1 .. inbox[k] : inbox' = [inbox EXCEPT ![k] = @ - n]
    <3>1. PICK n \in 1 .. inbox[k] : inbox' = [inbox EXCEPT ![k] = @ - n]
      BY <2>1
    <3>2. inbox[k] - n \in 0 .. MaxInbox
      BY <1>1, <3>1
    <3>3. inbox' \in [Conns -> 0 .. MaxInbox]
      BY <1>1, <3>1, <3>2
    <3>4. QED
      BY <1>3, <3>3, CompletesInv DEF ReadCompletes
  <2>2. CASE UNCHANGED inbox
    BY <1>1, <1>3, <2>2, CompletesInv DEF ReadCompletes
  <2>3. QED
    BY <1>3, <2>1, <2>2 DEF ReadCompletes
<1>4. CASE WriteCompletes(k)
  BY <1>1, <1>4, CompletesInv DEF WriteCompletes
<1>5. QED
  BY <1>2, <1>3, <1>4
-----------------------------------------------------------------------------
(* The pool threads. *)

\* A thread takes a handler from its queue.
LEMMA RunHandlerInv == ASSUME NEW c \in Ctx PROVE Inv /\ RunHandler(c) => Inv'
<1> SUFFICES ASSUME Inv, RunHandler(c) PROVE Inv'
  OBVIOUS
<1>1. /\ at' = at /\ pending' = pending /\ m_ec' = m_ec
      /\ socketCtx' = socketCtx /\ backlog' = backlog /\ peer' = peer /\ errors' = errors
      /\ main' = main /\ m_executor_map' = m_executor_map /\ accept' = accept
      /\ accepted' = accepted /\ m_next_io_context' = m_next_io_context
      /\ m_threads' = m_threads /\ thread' = [thread EXCEPT ![c] = "busy"]
      /\ handed' = handed /\ inbox' = inbox
      /\ thread[c] = "run" /\ running' = [running EXCEPT ![c] = Head(ready[c])]
  BY DEF RunHandler, sessionVars, acceptVars, peerVars
<1>2. TypeOK /\ 0 \in Ctx
  BY Counting DEF Inv
<1>3. c < m_threads /\ running[c] = None
  BY <1>1 DEF Inv, Busy
<1>4. /\ ready' \in [Ctx -> Seq(Entry)] /\ running' \in [Ctx -> Entry \cup {None}]
      /\ Once' /\ running'[c] # None
      /\ \A d \in Ctx : Entries(d)' = Entries(d)
  BY <1>2, <1>3, RunEntries DEF Inv
<1>5. TypeOK'
  BY <1>1, <1>2, <1>4 DEF TypeOK
<1>6. Busy'
  <2>1. thread'[c] = "busy" /\ \A d \in Ctx : d # c => thread'[d] = thread[d]
                                                       /\ running'[d] = running[d]
    BY <1>1, <1>2 DEF TypeOK
  <2>2. QED
    BY <1>1, <1>3, <1>4, <2>1 DEF Inv, Busy
<1>7. Confined'
  BY <1>1, <1>4 DEF Inv, Confined, HomeOf
<1>8. Tokens'
  BY <1>1, <1>4 DEF Inv, Tokens, Underway
<1>9. Executors'
  BY <1>1 DEF Inv, Executors
<1>10. Accepting'
  BY <1>1, <1>4 DEF Inv, Accepting, Waiting, InBacklog
<1>11. Backlogged'
  BY <1>1 DEF Inv, Backlogged, Waiting
<1>12. Handed'
  <2>1. Started' = Started /\ errors \in Nat /\ InFlight' = InFlight
    BY <1>1, <1>2, <1>4, SMTT(40) DEF Started, TypeOK, InFlight
  <2>2. QED
    BY <1>1, <1>2, <2>1, HandedKept DEF Inv
<1>13. QED
  BY <1>4, <1>5, <1>6, <1>7, <1>8, <1>9, <1>10, <1>11, <1>12 DEF Inv

\* What a handler that returns leaves alone, and what it was.
LEMMA ReturnFrame ==
  ASSUME Inv, NEW c \in Ctx, HandlerReturns(c)
  PROVE  /\ TypeOK /\ 0 \in Ctx
         /\ running[c] # None /\ running[c] \in Entry /\ running[c] \in Entries(c)
         /\ c < m_threads /\ thread[c] = "busy"
         /\ running' = [running EXCEPT ![c] = None]
         /\ thread' = [thread EXCEPT ![c] = "run"]
         /\ m_next_io_context' = m_next_io_context /\ m_threads' = m_threads
         /\ handed' = handed /\ m_executor_map' = m_executor_map /\ accept' = accept
         /\ socketCtx' = socketCtx /\ backlog' = backlog /\ peer' = peer
         /\ inbox' = inbox /\ errors' = errors
         /\ Busy'
<1>1. TypeOK /\ 0 \in Ctx
  BY Counting DEF Inv
<1>2. running[c] # None /\ running[c] \in Entry /\ running[c] \in Entries(c)
  <2>1. running[c] # None
    BY DEF HandlerReturns
  <2>2. QED
    BY <1>1, <2>1 DEF TypeOK, Entries
<1>3. c < m_threads /\ thread[c] = "busy"
  BY <1>2 DEF Inv, Busy
<1>4. /\ running' = [running EXCEPT ![c] = None]
      /\ thread' = [thread EXCEPT ![c] = "run"]
      /\ m_next_io_context' = m_next_io_context /\ m_threads' = m_threads
      /\ handed' = handed /\ m_executor_map' = m_executor_map /\ accept' = accept
      /\ socketCtx' = socketCtx /\ backlog' = backlog /\ peer' = peer
      /\ inbox' = inbox /\ errors' = errors
  BY DEF HandlerReturns, peerVars
<1>5. Busy'
  <2>1. /\ thread'[c] = "run" /\ running'[c] = None
        /\ \A d \in Ctx : d # c => thread'[d] = thread[d] /\ running'[d] = running[d]
    BY <1>1, <1>4 DEF TypeOK
  <2>2. QED
    BY <1>3, <1>4, <2>1 DEF Inv, Busy
<1>6. QED
  BY <1>1, <1>2, <1>3, <1>4, <1>5

\* The accept callback hands its outcome to the main thread.
LEMMA AcceptCallbackInv ==
  ASSUME Inv, NEW c \in Ctx, HandlerReturns(c), running[c].who = Acceptor,
         accepted' = running[c].ec, main' = "resumed", ready' = ready,
         sessionVars' = sessionVars
  PROVE  Inv'
<1>1. /\ TypeOK /\ 0 \in Ctx
      /\ running[c] # None /\ running[c] \in Entry /\ running[c] \in Entries(c)
      /\ running' = [running EXCEPT ![c] = None]
      /\ thread' = [thread EXCEPT ![c] = "run"]
      /\ m_next_io_context' = m_next_io_context /\ m_threads' = m_threads
      /\ handed' = handed /\ m_executor_map' = m_executor_map /\ accept' = accept
      /\ socketCtx' = socketCtx /\ backlog' = backlog /\ peer' = peer
      /\ inbox' = inbox /\ errors' = errors
      /\ Busy'
  BY ReturnFrame
<1>2. at' = at /\ pending' = pending /\ m_ec' = m_ec
  BY DEF sessionVars
<1>3. PICK e \in Entry : e = running[c]
  BY <1>1
<1>4. /\ running' \in [Ctx -> Entry \cup {None}]
      /\ Once'
      /\ \A d \in Ctx : Entries(d)' = IF d = c THEN Entries(c) \ {e} ELSE Entries(d)
      /\ \A x \in Entries(c)' : x.who # Acceptor
  BY <1>1, <1>3, DoneEntries DEF Inv
<1>5. /\ c = 0 /\ main = "accepting" /\ accept = "idle" /\ accepted = None
      /\ e.ec \in Conns \cup {"error"}
      /\ e.ec \in Conns => Waiting(e.ec) /\ ~InBacklog(e.ec)
  <2>1. c = 0
    BY <1>1 DEF Inv, Confined, HomeOf
  <2>2. QED
    BY <1>1, <1>3, <2>1 DEF Inv, Accepting
<1>6. \A d \in Ctx : \A x \in Entries(d)' : x \in Entries(d) /\ x.who # Acceptor
  BY <1>4, <1>5 DEF Inv, Confined, HomeOf
<1>7. TypeOK'
  BY <1>1, <1>2, <1>3, <1>4, <1>5 DEF TypeOK
<1>8. Confined'
  BY <1>1, <1>6 DEF Inv, Confined, HomeOf
<1>9. Tokens'
  <2>1. \A k \in Conns : \A d \in Ctx : \A x \in Entries(d) : x.who = k => x \in Entries(d)'
    BY <1>3, <1>4, ServerAssumption
  <2>2. QED
    BY <1>2, <1>6, <2>1 DEF Inv, Tokens, Underway
<1>10. Executors'
  BY <1>1, <1>2, <1>5 DEF Inv, Executors
<1>11. Accepting'
  <2>1. accept' # "pending" /\ accepted' = e.ec
    BY <1>1, <1>3, <1>5
  <2>2. accepted' \in Conns => /\ peer'[accepted'] # "none" /\ at'[accepted'] = "none"
                               /\ ~(\E n \in 1 .. Len(backlog') : backlog'[n] = accepted')
    BY <1>1, <1>2, <1>5, <2>1 DEF Waiting, InBacklog
  <2>3. \A d \in Ctx : \A x \in Entries(d)' : x.who # Acceptor /\ x.ec \in {"ok", "error"}
    BY <1>6 DEF Inv, Accepting
  <2>4. QED
    BY <2>1, <2>2, <2>3 DEF Accepting, Waiting, InBacklog
<1>12. Backlogged'
  BY <1>1, <1>2 DEF Inv, Backlogged, Waiting
<1>13. Handed'
  <2>1. Started' = Started /\ errors \in Nat
    BY <1>1, <1>2 DEF Started, TypeOK
  <2>2. InFlight => InFlight'
    <3>1. SUFFICES ASSUME InFlight PROVE InFlight'
      OBVIOUS
    <3>2. PICK x \in Entries(0) : x.who = Acceptor /\ x.ec \in Conns
      BY <1>5, <3>1, ServerAssumption DEF InFlight
    <3>3. x = e
      BY <1>4, <1>5, <3>2
    <3>4. accepted' \in Conns
      BY <1>3, <3>2, <3>3
    <3>5. QED
      BY <3>4 DEF InFlight
  <2>3. QED
    BY <1>1, <2>1, <2>2, HandedKept DEF Inv
<1>14. QED
  BY <1>1, <1>4, <1>7, <1>8, <1>9, <1>10, <1>11, <1>12, <1>13 DEF Inv

\* A session's handler is the only thing that will resume it, and is run where
\* its Executor posts.
LEMMA SessionHandler ==
  ASSUME Inv, NEW c \in Ctx, HandlerReturns(c), NEW k \in Conns, running[c].who = k
  PROVE  /\ c = socketCtx[k] /\ m_executor_map[c] = c
         /\ Underway(k) /\ k \notin pending /\ k # Acceptor
         /\ running[c].ec \in {"ok", "error"}
         /\ \A d \in Ctx : d # c => \A x \in Entries(d) : x.who # k
<1>1. TypeOK /\ running[c] \in Entries(c) /\ k # Acceptor
  BY ReturnFrame, ServerAssumption
<1>2. c = socketCtx[k]
  BY <1>1 DEF Inv, Confined, HomeOf
<1>3. Underway(k) /\ k \notin pending
  BY <1>1 DEF Inv, Tokens
<1>4. m_executor_map[c] = c
  BY <1>2, <1>3 DEF Inv, Executors, Underway
<1>5. running[c].ec \in {"ok", "error"}
  BY <1>1 DEF Inv, Accepting
<1>6. \A d \in Ctx : d # c => \A x \in Entries(d) : x.who # k
  BY <1>1, <1>2 DEF Inv, Confined, HomeOf
<1>7. QED
  BY <1>1, <1>2, <1>3, <1>4, <1>5, <1>6

\* A session's callback stores its result and posts the continuation.
LEMMA SessionCallbackInv ==
  ASSUME Inv, NEW c \in Ctx, HandlerReturns(c), NEW k \in Conns, running[c].who = k,
         m_ec' = [m_ec EXCEPT ![k] = running[c].ec],
         Post(m_executor_map[socketCtx[k]], k, "resume", "ok"),
         main' = main, accepted' = accepted, at' = at, pending' = pending
  PROVE  Inv'
<1>1. /\ TypeOK /\ 0 \in Ctx
      /\ running[c] # None /\ running[c] \in Entry /\ running[c] \in Entries(c)
      /\ running' = [running EXCEPT ![c] = None]
      /\ thread' = [thread EXCEPT ![c] = "run"]
      /\ m_next_io_context' = m_next_io_context /\ m_threads' = m_threads
      /\ handed' = handed /\ m_executor_map' = m_executor_map /\ accept' = accept
      /\ socketCtx' = socketCtx /\ backlog' = backlog /\ peer' = peer
      /\ inbox' = inbox /\ errors' = errors
      /\ Busy'
  BY ReturnFrame
<1>2. /\ c = socketCtx[k] /\ m_executor_map[c] = c
      /\ Underway(k) /\ k \notin pending /\ k # Acceptor
      /\ running[c].ec \in {"ok", "error"}
      /\ \A d \in Ctx : d # c => \A x \in Entries(d) : x.who # k
  BY SessionHandler
<1>3. PICK f \in Entry : f = running[c]
  BY <1>1
<1>4. PICK e \in Entry : e = [who |-> k, kind |-> "resume", ec |-> "ok"]
  BY DEF Entry
<1>5. e.who = k /\ e.ec = "ok" /\ f.who = k
  BY <1>3, <1>4
<1>6. ready' = [ready EXCEPT ![c] = Append(@, e)]
  BY <1>2, <1>4 DEF Post
<1>7. /\ ready' \in [Ctx -> Seq(Entry)] /\ running' \in [Ctx -> Entry \cup {None}]
      /\ Once'
      /\ \A d \in Ctx : Entries(d)' = IF d = c THEN (Entries(c) \ {f}) \cup {e}
                                      ELSE Entries(d)
  <2>1. e.who = running[c].who /\ Once
    BY <1>5 DEF Inv
  <2>2. QED
    BY <1>1, <1>3, <1>6, <2>1, ResumeEntries
<1>8. \A d \in Ctx : \A x \in Entries(d)' : x \in Entries(d) \/ (x = e /\ d = c)
  BY <1>7
<1>9. \A d \in Ctx : \A x \in Entries(d) : x.who # k => x \in Entries(d)'
  BY <1>5, <1>7
<1>10. m_ec' \in [Conns -> {None, "ok", "error"}]
  BY <1>1, <1>2 DEF TypeOK
<1>11. TypeOK'
  BY <1>1, <1>7, <1>10 DEF TypeOK
<1>12. Confined'
  BY <1>1, <1>2, <1>5, <1>8 DEF Inv, Confined, HomeOf
<1>13. Tokens'
  <2> SUFFICES ASSUME NEW w \in Conns
               PROVE  /\ \A d \in Ctx : \A x \in Entries(d)' :
                           x.who = w => Underway(w)' /\ w \notin pending'
                      /\ w \in pending' => Underway(w)'
                      /\ Underway(w)' => \/ w \in pending'
                                         \/ \E d \in Ctx : \E x \in Entries(d)' : x.who = w
    BY DEF Tokens
  <2>1. Underway(w)' <=> Underway(w)
    BY DEF Underway
  <2>2. CASE w = k
    <3>1. \E d \in Ctx : \E x \in Entries(d)' : x.who = w
      BY <1>5, <1>7, <2>2
    <3>2. QED
      BY <1>2, <2>1, <2>2, <3>1
  <2>3. CASE w # k
    <3>1. \A d \in Ctx : \A x \in Entries(d)' : x.who = w => x \in Entries(d)
      BY <1>5, <1>8, <2>3
    <3>2. \A d \in Ctx : \A x \in Entries(d) : x.who = w => x \in Entries(d)'
      BY <1>9, <2>3
    <3>3. QED
      BY <2>1, <3>1, <3>2 DEF Inv, Tokens
  <2>4. QED
    BY <2>2, <2>3
<1>14. Executors'
  BY <1>1 DEF Inv, Executors
<1>15. Accepting'
  BY <1>1, <1>2, <1>5, <1>8 DEF Inv, Accepting, Waiting, InBacklog
<1>16. Backlogged'
  BY <1>1 DEF Inv, Backlogged, Waiting
<1>17. Handed'
  <2>1. Started' = Started /\ errors \in Nat
    BY <1>1 DEF Started, TypeOK
  <2>2. InFlight => InFlight'
    BY <1>1, <1>2, <1>9 DEF InFlight
  <2>3. QED
    BY <1>1, <2>1, <2>2, HandedKept DEF Inv
<1>18. QED
  BY <1>1, <1>7, <1>11, <1>12, <1>13, <1>14, <1>15, <1>16, <1>17 DEF Inv

\* What session() awaits next.
LEMMA ProceedTypes ==
  ASSUME TypeOK, NEW k \in Conns, Underway(k)
  PROVE  Proceed(k) \in {"timer", "read", "write", "closed"}
<1>1. at[k] \in {"schedule", "timer", "read", "write"}
  BY DEF TypeOK, Underway
<1>2. QED
  BY <1>1 DEF Proceed

\* A resumed session goes on to its next operation, or ends.
LEMMA SessionResumeInv ==
  ASSUME Inv, NEW c \in Ctx, HandlerReturns(c), NEW k \in Conns, running[c].who = k,
         at' = [at EXCEPT ![k] = Proceed(k)], pending' = Outstanding(k),
         m_ec' = [m_ec EXCEPT ![k] = None],
         ready' = ready, main' = main, accepted' = accepted
  PROVE  Inv'
<1>1. /\ TypeOK /\ 0 \in Ctx
      /\ running[c] # None /\ running[c] \in Entry /\ running[c] \in Entries(c)
      /\ running' = [running EXCEPT ![c] = None]
      /\ thread' = [thread EXCEPT ![c] = "run"]
      /\ m_next_io_context' = m_next_io_context /\ m_threads' = m_threads
      /\ handed' = handed /\ m_executor_map' = m_executor_map /\ accept' = accept
      /\ socketCtx' = socketCtx /\ backlog' = backlog /\ peer' = peer
      /\ inbox' = inbox /\ errors' = errors
      /\ Busy'
  BY ReturnFrame
<1>2. /\ c = socketCtx[k] /\ m_executor_map[c] = c
      /\ Underway(k) /\ k \notin pending /\ k # Acceptor
      /\ \A d \in Ctx : d # c => \A x \in Entries(d) : x.who # k
  BY SessionHandler
<1>3. PICK f \in Entry : f = running[c]
  BY <1>1
<1>4. /\ running' \in [Ctx -> Entry \cup {None}]
      /\ Once'
      /\ \A d \in Ctx : Entries(d)' = IF d = c THEN Entries(c) \ {f} ELSE Entries(d)
      /\ \A x \in Entries(c)' : x.who # k
  BY <1>1, <1>3, DoneEntries DEF Inv
<1>5. \A d \in Ctx : \A x \in Entries(d)' : x \in Entries(d) /\ x.who # k
  BY <1>2, <1>4
<1>6. \A d \in Ctx : \A x \in Entries(d) : x.who # k => x \in Entries(d)'
  BY <1>3, <1>4
<1>7. Proceed(k) \in {"timer", "read", "write", "closed"}
  BY <1>1, <1>2, ProceedTypes
<1>8. /\ at' \in [Conns -> {"none", "schedule", "timer", "read", "write", "closed"}]
      /\ at'[k] = Proceed(k) /\ \A w \in Conns : w # k => at'[w] = at[w]
      /\ m_ec' \in [Conns -> {None, "ok", "error"}]
      /\ at[k] # "none" /\ at'[k] # "none"
  BY <1>1, <1>2, <1>7 DEF TypeOK, Underway
<1>9. /\ pending' = IF at'[k] = "closed" THEN pending ELSE pending \cup {k}
      /\ pending' \subseteq Conns
  BY <1>1, <1>8 DEF Outstanding, TypeOK
<1>10. TypeOK'
  BY <1>1, <1>4, <1>8, <1>9 DEF TypeOK
<1>11. Confined'
  BY <1>1, <1>5 DEF Inv, Confined, HomeOf
<1>12. Tokens'
  <2> SUFFICES ASSUME NEW w \in Conns
               PROVE  /\ \A d \in Ctx : \A x \in Entries(d)' :
                           x.who = w => Underway(w)' /\ w \notin pending'
                      /\ w \in pending' => Underway(w)'
                      /\ Underway(w)' => \/ w \in pending'
                                         \/ \E d \in Ctx : \E x \in Entries(d)' : x.who = w
    BY DEF Tokens
  <2>1. CASE w = k
    <3>1. Underway(w)' <=> at'[k] # "closed"
      BY <1>8, <2>1 DEF Underway
    <3>2. QED
      BY <1>2, <1>5, <1>9, <2>1, <3>1
  <2>2. CASE w # k
    <3>1. (Underway(w)' <=> Underway(w)) /\ (w \in pending' <=> w \in pending)
      BY <1>8, <1>9, <2>2 DEF Underway
    <3>2. \A d \in Ctx : \A x \in Entries(d) : x.who = w => x \in Entries(d)'
      BY <1>6, <2>2
    <3>3. QED
      BY <1>5, <3>1, <3>2 DEF Inv, Tokens
  <2>3. QED
    BY <2>1, <2>2
<1>13. Executors'
  BY <1>1, <1>8 DEF Inv, Executors
<1>14. \A w \in Conns : Waiting(w) => Waiting(w)'
  BY <1>1, <1>8 DEF Waiting
<1>15. Accepting'
  <2>1. accepted' \in Conns => Waiting(accepted)' /\ ~InBacklog(accepted)'
    BY <1>1, <1>8 DEF Inv, Accepting, Waiting, InBacklog
  <2>2. \A d \in Ctx : \A x \in Entries(d)' :
          IF x.who = Acceptor
            THEN /\ x.kind = "callback" /\ x.ec \in Conns \cup {"error"}
                 /\ main' = "accepting" /\ accept' = "idle"
                 /\ x.ec \in Conns => Waiting(x.ec)' /\ ~InBacklog(x.ec)'
            ELSE x.ec \in {"ok", "error"}
    <3>1. \A w \in Conns : ~InBacklog(w) => ~InBacklog(w)'
      BY <1>1 DEF InBacklog
    <3>2. QED
      BY <1>1, <1>5, <1>14, <3>1 DEF Inv, Accepting
  <2>3. QED
    BY <1>1, <2>1, <2>2 DEF Inv, Accepting
<1>16. Backlogged'
  <2>1. \A n \in 1 .. Len(backlog) : backlog[n] \in Conns
    BY <1>1 DEF TypeOK
  <2>2. \A n \in 1 .. Len(backlog') : peer'[backlog'[n]] # "none" /\ at'[backlog'[n]] = "none"
    BY <1>1, <1>8, <2>1 DEF Inv, Backlogged, Waiting
  <2>3. QED
    BY <1>1, <1>8, <2>2 DEF Inv, Backlogged, Waiting
<1>17. Handed'
  <2>1. Started' = Started /\ errors \in Nat
    BY <1>1, <1>8 DEF Started, TypeOK
  <2>2. InFlight => InFlight'
    BY <1>1, <1>2, <1>6 DEF InFlight
  <2>3. QED
    BY <1>1, <2>1, <2>2, HandedKept DEF Inv
<1>18. QED
  BY <1>1, <1>4, <1>10, <1>11, <1>12, <1>13, <1>15, <1>16, <1>17 DEF Inv

\* The handlers: the accept callback, a session's callbacks and its code.
LEMMA HandlerReturnsInv == ASSUME NEW c \in Ctx PROVE Inv /\ HandlerReturns(c) => Inv'
<1> SUFFICES ASSUME Inv, HandlerReturns(c) PROVE Inv'
  OBVIOUS
<1>1. running[c] \in Entry /\ running[c] \in Entries(c)
  BY ReturnFrame
<1>2. CASE running[c].who = Acceptor
  <2>1. running[c].kind = "callback"
    BY <1>1, <1>2 DEF Inv, Accepting
  <2>2. /\ accepted' = running[c].ec /\ main' = "resumed" /\ ready' = ready
        /\ sessionVars' = sessionVars
    BY <1>2, <2>1, ServerAssumption DEF HandlerReturns
  <2>3. QED
    BY <1>2, <2>2, AcceptCallbackInv
<1>3. CASE running[c].who # Acceptor
  <2>1. PICK k \in Conns : running[c].who = k
    BY <1>1, <1>3 DEF Entry
  <2>2. CASE running[c].kind = "callback"
    <3>1. /\ m_ec' = [m_ec EXCEPT ![k] = running[c].ec]
          /\ Post(m_executor_map[socketCtx[k]], k, "resume", "ok")
          /\ main' = main /\ accepted' = accepted /\ at' = at /\ pending' = pending
      BY <1>3, <2>1, <2>2 DEF HandlerReturns, StoredEc
    <3>2. QED
      BY <2>1, <3>1, SessionCallbackInv
  <2>3. CASE running[c].kind = "resume"
    <3>1. /\ at' = [at EXCEPT ![k] = Proceed(k)] /\ pending' = Outstanding(k)
          /\ m_ec' = [m_ec EXCEPT ![k] = None]
          /\ ready' = ready /\ main' = main /\ accepted' = accepted
      BY <1>3, <2>1, <2>3 DEF HandlerReturns
    <3>2. QED
      BY <2>1, <3>1, SessionResumeInv
  <2>4. QED
    BY <1>1, <2>2, <2>3 DEF Entry
<1>4. QED
  BY <1>2, <1>3
-----------------------------------------------------------------------------
(* The invariants. *)

\* Every step preserves the invariant.
LEMMA NextInv == Inv /\ [Next]_vars => Inv'
<1> SUFFICES ASSUME Inv, [Next]_vars PROVE Inv'
  OBVIOUS
<1>1. CASE StartThread
  BY <1>1, StartThreadInv
<1>2. CASE Listen
  BY <1>2, ListenInv
<1>3. CASE Unwind
  BY <1>3, UnwindInv
<1>4. CASE AwaitAccept
  BY <1>4, AwaitAcceptInv
<1>5. CASE ResumeAccept
  BY <1>5, ResumeAcceptInv
<1>6. CASE AcceptCompletes
  BY <1>6, AcceptCompletesInv
<1>7. CASE AcceptFails
  BY <1>7, AcceptFailsInv
<1>8. CASE \E k \in Conns : Connect(k)
  BY <1>8, ConnectInv
<1>9. CASE \E k \in Conns : Send(k) \/ Close(k)
  BY <1>9, PeerInv
<1>10. CASE \E k \in Conns : TimerFires(k) \/ ReadCompletes(k) \/ WriteCompletes(k)
  BY <1>10, OperationInv
<1>11. CASE \E c \in Ctx : RunHandler(c)
  BY <1>11, RunHandlerInv
<1>12. CASE \E c \in Ctx : HandlerReturns(c)
  BY <1>12, HandlerReturnsInv
<1>13. CASE UNCHANGED vars
  <2>1. /\ ready' = ready /\ running' = running /\ at' = at /\ socketCtx' = socketCtx
        /\ main' = main /\ accept' = accept /\ accepted' = accepted /\ pending' = pending
        /\ m_executor_map' = m_executor_map /\ handed' = handed /\ errors' = errors
        /\ m_threads' = m_threads /\ thread' = thread /\ backlog' = backlog
        /\ m_next_io_context' = m_next_io_context /\ m_ec' = m_ec /\ peer' = peer
        /\ inbox' = inbox
    BY <1>13 DEF vars, poolVars, acceptVars, sessionVars, peerVars
  <2>2. TypeOK /\ 0 \in Ctx
    BY Counting DEF Inv
  <2>3. \A c \in Ctx : Entries(c)' = Entries(c)
    BY <2>1, SameEntries
  <2>4. TypeOK' /\ Busy'
    BY <2>1, <2>2 DEF TypeOK, Inv, Busy
  <2>5. Once'
    BY <2>1, SameEntries DEF Inv
  <2>6. Confined' /\ Tokens'
    BY <2>1, <2>3 DEF Inv, Confined, HomeOf, Tokens, Underway
  <2>7. Executors' /\ Backlogged'
    BY <2>1 DEF Inv, Executors, Backlogged, Waiting
  <2>8. Accepting'
    BY <2>1, <2>3 DEF Inv, Accepting, Waiting, InBacklog
  <2>9. Started' = Started /\ InFlight' = InFlight /\ errors \in Nat
    BY <2>1, <2>2, <2>3 DEF Started, InFlight, TypeOK
  <2>10. Handed'
    BY <2>1, <2>2, <2>9, HandedKept DEF Inv
  <2>11. QED
    BY <2>4, <2>5, <2>6, <2>7, <2>8, <2>10 DEF Inv
<1>14. QED
  BY <1>1, <1>2, <1>3, <1>4, <1>5, <1>6, <1>7, <1>8, <1>9, <1>10, <1>11, <1>12, <1>13
  DEF Next

\* Inv is inductive: the accept loop, the kernel, the peers and the pool threads
\* preserve it.
THEOREM Invariance == Spec => []Inv
<1>1. Init => Inv
  BY InitInv
<1>2. Inv /\ [Next]_vars => Inv'
  BY NextInv
<1>3. QED
  BY <1>1, <1>2, PTL DEF Spec, SafeSpec

\* The accept loop, the sessions and the pool keep their types: an index stays in
\* the pool, a socket's context is one of the pool's, a continuation finds its
\* coroutine at one of its co_awaits.
THEOREM TypeCorrect == Spec => []TypeOK
<1>1. Inv => TypeOK
  BY DEF Inv
<1>2. QED
  BY <1>1, Invariance, PTL

\* What a context holds: each entry is a handler of Entries, at one place.
LEMMA HeldEntries ==
  ASSUME TypeOK, Once, NEW c \in Ctx
  PROVE  /\ Len(Held(c)) \in Nat /\ DOMAIN Held(c) = 1 .. Len(Held(c))
         /\ \A n \in 1 .. Len(Held(c)) : Held(c)[n] \in Entries(c)
         /\ \A e \in Entries(c) : \E n \in 1 .. Len(Held(c)) : Held(c)[n] = e
         /\ \A m, n \in 1 .. Len(Held(c)) : Held(c)[m].who = Held(c)[n].who => m = n
<1>1. ready[c] \in Seq(Entry) /\ running[c] \in Entry \cup {None} /\ Len(ready[c]) \in Nat
  BY DEF TypeOK
<1>2. CASE running[c] = None
  <2>1. << >> \in Seq(Entry) /\ Held(c) = ready[c] \o << >>
    BY <1>2 DEF Held
  <2>2. Held(c) \in Seq(Entry) /\ Len(Held(c)) = Len(ready[c])
        /\ \A n \in 1 .. Len(ready[c]) : Held(c)[n] = ready[c][n]
    BY <1>1, <2>1
  <2>3. Entries(c) = {ready[c][n] : n \in 1 .. Len(ready[c])}
    BY <1>2 DEF Entries
  <2>4. DOMAIN Held(c) = 1 .. Len(Held(c))
    BY <2>2
  <2>5. QED
    BY <1>1, <2>2, <2>3, <2>4 DEF Once
<1>3. CASE running[c] # None
  <2> DEFINE L == Len(ready[c])
  <2>1. <<running[c]>> \in Seq(Entry) /\ Held(c) = ready[c] \o <<running[c]>>
    BY <1>1, <1>3 DEF Held
  <2>2. Held(c) \in Seq(Entry) /\ Len(Held(c)) = L + 1
        /\ (\A n \in 1 .. L : Held(c)[n] = ready[c][n]) /\ Held(c)[L + 1] = running[c]
    BY <1>1, <2>1
  <2>3. Entries(c) = {ready[c][n] : n \in 1 .. L} \cup {running[c]}
    BY <1>3 DEF Entries
  <2>4. DOMAIN Held(c) = 1 .. Len(Held(c))
    BY <2>2
  <2>5. \A n \in 1 .. Len(Held(c)) : n \in 1 .. L \/ n = L + 1
    BY <1>1, <2>2
  <2>6. /\ \A m, n \in 1 .. L : ready[c][m].who = ready[c][n].who => m = n
        /\ \A n \in 1 .. L : ready[c][n].who # running[c].who
    BY <1>3 DEF Once
  <2>7. Len(Held(c)) \in Nat /\ L + 1 \in 1 .. Len(Held(c))
        /\ \A n \in 1 .. L : n \in 1 .. Len(Held(c))
    BY <1>1, <2>2
  <2> HIDE DEF L
  <2>8. \A n \in 1 .. Len(Held(c)) : Held(c)[n] \in Entries(c)
    BY <2>2, <2>3, <2>5
  <2>9. \A e \in Entries(c) : \E n \in 1 .. Len(Held(c)) : Held(c)[n] = e
    BY <2>2, <2>3, <2>7
  <2>10. \A m, n \in 1 .. Len(Held(c)) : Held(c)[m].who = Held(c)[n].who => m = n
    BY <2>2, <2>5, <2>6
  <2>11. QED
    BY <2>4, <2>7, <2>8, <2>9, <2>10
<1>4. QED
  BY <1>2, <1>3

\* A session's coroutine and the callbacks of its socket and timer stay on one
\* context, whatever the number of sessions and contexts.
THEOREM OneThreadPerSession == Spec => []SessionConfined
<1>1. Inv => SessionConfined
  <2> SUFFICES ASSUME Inv, NEW c \in Ctx, NEW n \in DOMAIN Held(c)
               PROVE  IF Held(c)[n].who = Acceptor THEN c = 0
                      ELSE c = socketCtx[Held(c)[n].who]
    BY DEF SessionConfined
  <2>1. Held(c)[n] \in Entries(c)
    BY HeldEntries DEF Inv
  <2>2. QED
    BY <2>1 DEF Inv, Confined, HomeOf
<1>2. QED
  BY <1>1, Invariance, PTL

\* A context never holds more than one handler for every coroutine.
LEMMA HeldBound ==
  ASSUME TypeOK, Once, NEW c \in Ctx
  PROVE  Cardinality(Conns) \in Nat /\ Len(Held(c)) <= Cardinality(Conns) + 1
<1> DEFINE S == 1 .. Len(Held(c))
           U == Conns \cup {Acceptor}
           f == [n \in S |-> Held(c)[n].who]
<1>1. /\ Len(Held(c)) \in Nat
      /\ \A n \in S : Held(c)[n] \in Entries(c)
      /\ \A m, n \in S : Held(c)[m].who = Held(c)[n].who => m = n
  BY HeldEntries
<1>2. \A n \in S : Held(c)[n].who \in U
  BY <1>1, EntriesTyped DEF Entry
<1>3. f \in [S -> U]
  BY <1>2
<1>4. IsFiniteSet(S) /\ Cardinality(S) = Len(Held(c))
  <2>1. PICK L \in Nat : L = Len(Held(c))
    BY <1>1
  <2>2. IsFiniteSet(1 .. L) /\ Cardinality(1 .. L) = L
    BY FS_Interval
  <2>3. QED
    BY <2>1, <2>2
<1>5. IsFiniteSet(Conns) /\ Cardinality(Conns) \in Nat
  BY ServerAssumption, FS_CardinalityType
<1>6. IsFiniteSet(U) /\ Cardinality(U) = Cardinality(Conns) + 1
  BY <1>5, ServerAssumption, FS_AddElement
<1>7. \A x, y \in S : f[x] = f[y] => x = y
  BY <1>1
<1> HIDE DEF f, S, U
<1>8. ~(Cardinality(U) < Cardinality(S))
  BY <1>3, <1>4, <1>6, <1>7, FS_PigeonHole
<1>9. QED
  BY <1>1, <1>4, <1>5, <1>6, <1>8

\* What is appended to a queue is held, and so is all that was.
LEMMA AppendKeeps ==
  ASSUME TypeOK, NEW c \in Ctx, NEW e,
         ready' = [ready EXCEPT ![c] = Append(@, e)], running' = running
  PROVE  e \in Entries(c)' /\ \A d \in Ctx : Entries(d) \subseteq Entries(d)'
<1>1. ready \in [Ctx -> Seq(Entry)] /\ ready[c] \in Seq(Entry) /\ Len(ready[c]) \in Nat
  BY DEF TypeOK
<1>2. ready'[c] = Append(ready[c], e) /\ \A d \in Ctx : d # c => ready'[d] = ready[d]
  BY <1>1
<1>3. /\ Len(ready'[c]) = Len(ready[c]) + 1 /\ ready'[c][Len(ready[c]) + 1] = e
      /\ \A n \in 1 .. Len(ready[c]) : ready'[c][n] = ready[c][n]
  BY <1>1, <1>2
<1>4. e \in Entries(c)'
  <2>1. Len(ready[c]) + 1 \in 1 .. Len(ready'[c])
    BY <1>1, <1>3
  <2>2. QED
    BY <1>3, <2>1 DEF Entries
<1>5. Entries(c) \subseteq Entries(c)'
  <2>1. \A n \in 1 .. Len(ready[c]) : n \in 1 .. Len(ready'[c])
    BY <1>1, <1>3
  <2>2. QED
    BY <1>3, <2>1 DEF Entries
<1>6. \A d \in Ctx : d # c => Entries(d) \subseteq Entries(d)'
  BY <1>2 DEF Entries
<1>7. QED
  BY <1>4, <1>5, <1>6

\* start() suspended in async_accept is not forgotten: the accept is outstanding
\* or its callback is queued or running.
AcceptAwaited ==
  main = "accepting" =>
    accept = "pending" \/ \E c \in Ctx : \E e \in Entries(c) : e.who = Acceptor

\* A step that loses no handler of the accept loop keeps AcceptAwaited.
LEMMA AcceptAwaitedKept ==
  ASSUME AcceptAwaited, main' = "accepting" => main = "accepting", accept' = accept,
         \A d \in Ctx : \A x \in Entries(d) : x.who = Acceptor => x \in Entries(d)'
  PROVE  AcceptAwaited'
BY DEF AcceptAwaited

\* Every step keeps it.
LEMMA AcceptAwaitedStep ==
  ASSUME Inv, AcceptAwaited, [Next]_vars PROVE AcceptAwaited'
<1>1. TypeOK /\ Once /\ 0 \in Ctx
  BY Counting DEF Inv
<1>2. CASE \/ StartThread \/ Listen \/ Unwind \/ UNCHANGED vars
           \/ \E k \in Conns : Connect(k) \/ Send(k) \/ Close(k)
  <2>1. /\ ready' = ready /\ running' = running /\ accept' = accept
        /\ main' = "accepting" => main = "accepting"
    BY <1>2 DEF StartThread, Listen, Unwind, Connect, Send, Close, vars, acceptVars
  <2>2. QED
    BY <2>1, SameEntries, AcceptAwaitedKept
<1>3. CASE AwaitAccept
  BY <1>3 DEF AwaitAccept, AcceptAwaited
<1>4. CASE ResumeAccept
  BY <1>4 DEF ResumeAccept, AcceptFailedGoesOn, AcceptAwaited
<1>5. CASE AcceptCompletes \/ AcceptFails
  <2>1. PICK r : Post(0, Acceptor, "callback", r)
    BY <1>5 DEF AcceptCompletes, AcceptFails
  <2>2. PICK e : e = [who |-> Acceptor, kind |-> "callback", ec |-> r]
    OBVIOUS
  <2>3. /\ e.who = Acceptor /\ ready' = [ready EXCEPT ![0] = Append(@, e)]
        /\ running' = running
    BY <1>5, <2>1, <2>2 DEF Post, AcceptCompletes, AcceptFails
  <2>4. e \in Entries(0)'
    BY <1>1, <2>3, AppendKeeps
  <2>5. QED
    BY <1>1, <2>3, <2>4 DEF AcceptAwaited
<1>6. ASSUME NEW k \in Conns, TimerFires(k) \/ ReadCompletes(k) \/ WriteCompletes(k)
      PROVE  AcceptAwaited'
  <2>1. PICK ec : Completes(k, ec)
    BY <1>6 DEF TimerFires, ReadCompletes, WriteCompletes
  <2>2. PICK s \in Ctx : s = socketCtx[k]
    BY <1>1, <2>1 DEF Completes, Inv, Tokens, Underway, Executors, TypeOK
  <2>3. PICK e : e = [who |-> k, kind |-> "callback", ec |-> ec]
    OBVIOUS
  <2>4. /\ ready' = [ready EXCEPT ![s] = Append(@, e)] /\ running' = running
        /\ main' = main /\ accept' = accept
    BY <2>1, <2>2, <2>3 DEF Completes, Post, acceptVars
  <2>5. \A d \in Ctx : Entries(d) \subseteq Entries(d)'
    BY <1>1, <2>4, AppendKeeps
  <2>6. QED
    BY <2>4, <2>5, AcceptAwaitedKept
<1>7. ASSUME NEW c \in Ctx, RunHandler(c) PROVE AcceptAwaited'
  <2>1. running[c] = None
    BY <1>1, <1>7 DEF Inv, Busy, RunHandler
  <2>2. \A d \in Ctx : Entries(d)' = Entries(d)
    BY <1>1, <1>7, <2>1, RunEntries
  <2>3. main' = main /\ accept' = accept
    BY <1>7 DEF RunHandler, acceptVars
  <2>4. QED
    BY <2>2, <2>3, AcceptAwaitedKept
<1>8. ASSUME NEW c \in Ctx, HandlerReturns(c) PROVE AcceptAwaited'
  <2>1. /\ running[c] # None /\ running[c] \in Entry /\ running[c] \in Entries(c)
        /\ running' = [running EXCEPT ![c] = None] /\ accept' = accept
    BY <1>8, ReturnFrame
  <2>2. CASE running[c].who = Acceptor
    <3>1. running[c].kind = "callback"
      BY <2>1, <2>2 DEF Inv, Accepting
    <3>2. main' = "resumed"
      BY <1>8, <2>2, <3>1, ServerAssumption DEF HandlerReturns
    <3>3. QED
      BY <3>2 DEF AcceptAwaited
  <2>3. CASE running[c].who # Acceptor
    <3>1. PICK k \in Conns : running[c].who = k
      BY <2>1, <2>3 DEF Entry
    <3>2. main' = main
      BY <1>8, <2>3 DEF HandlerReturns
    <3>3. CASE running[c].kind = "callback"
      <4>1. c = socketCtx[k] /\ m_executor_map[c] = c
        BY <1>8, <3>1, SessionHandler
      <4>2. PICK e \in Entry : e = [who |-> k, kind |-> "resume", ec |-> "ok"]
        BY DEF Entry
      <4>3. e.who = running[c].who /\ ready' = [ready EXCEPT ![c] = Append(@, e)]
        BY <1>8, <2>3, <3>1, <3>3, <4>1, <4>2 DEF HandlerReturns, Post
      <4>4. \A d \in Ctx : Entries(d)' = IF d = c THEN (Entries(c) \ {running[c]}) \cup {e}
                                          ELSE Entries(d)
        BY <1>1, <2>1, <4>3, ResumeEntries
      <4>5. QED
        BY <2>1, <2>3, <3>2, <4>4, AcceptAwaitedKept
    <3>4. CASE running[c].kind = "resume"
      <4>1. ready' = ready
        BY <1>8, <2>3, <3>4 DEF HandlerReturns
      <4>2. \A d \in Ctx : Entries(d)' = IF d = c THEN Entries(c) \ {running[c]}
                                          ELSE Entries(d)
        BY <1>1, <2>1, <4>1, DoneEntries
      <4>3. QED
        BY <2>1, <2>3, <3>2, <4>2, AcceptAwaitedKept
    <3>5. QED
      BY <2>1, <3>3, <3>4 DEF Entry
  <2>4. QED
    BY <2>2, <2>3
<1>9. QED
  BY <1>2, <1>3, <1>4, <1>5, <1>6, <1>7, <1>8 DEF Next

\* No session is resumed twice and none is forgotten, and neither is start().
THEOREM ExactlyOneResume == Spec => []ResumedOnce
<1>1. Inv /\ AcceptAwaited => ResumedOnce
  <2> SUFFICES ASSUME Inv, AcceptAwaited, NEW k \in Conns \cup {Acceptor}
               PROVE  LET entries == {p \in Ctx \X (1 .. Cardinality(Conns) + 2) :
                            p[2] <= Len(Held(p[1])) /\ Held(p[1])[p[2]].who = k}
                      IN  Cardinality(entries) + (IF Operating(k) THEN 1 ELSE 0)
                            = (IF Suspended(k) THEN 1 ELSE 0)
    BY DEF ResumedOnce
  <2> DEFINE B == 1 .. Cardinality(Conns) + 2
             E == {p \in Ctx \X B : p[2] <= Len(Held(p[1])) /\ Held(p[1])[p[2]].who = k}
  <2>1. /\ TypeOK /\ Once
        /\ Operating(k) => Suspended(k)
        /\ \A c \in Ctx : \A e \in Entries(c) :
             e.who = k => Suspended(k) /\ ~Operating(k)
    <3>1. CASE k = Acceptor
      BY <3>1 DEF Inv, Accepting, Operating, Suspended
    <3>2. CASE k # Acceptor
      BY <3>2 DEF Inv, Tokens, Underway, Operating, Suspended
    <3>3. QED
      BY <3>1, <3>2
  <2>2. \A p \in E : /\ p[1] \in Ctx /\ p[2] \in 1 .. Len(Held(p[1]))
                     /\ Held(p[1])[p[2]] \in Entries(p[1]) /\ Held(p[1])[p[2]].who = k
    <3> SUFFICES ASSUME NEW p \in E
                 PROVE  /\ p[1] \in Ctx /\ p[2] \in 1 .. Len(Held(p[1]))
                        /\ Held(p[1])[p[2]] \in Entries(p[1])
                        /\ Held(p[1])[p[2]].who = k
      OBVIOUS
    <3>1. p[1] \in Ctx /\ p[2] \in B /\ p[2] <= Len(Held(p[1])) /\ Held(p[1])[p[2]].who = k
      OBVIOUS
    <3>2. Len(Held(p[1])) \in Nat /\ Cardinality(Conns) \in Nat
      BY <2>1, <3>1, HeldEntries, HeldBound
    <3>3. p[2] \in 1 .. Len(Held(p[1]))
      BY <3>1, <3>2
    <3>4. Held(p[1])[p[2]] \in Entries(p[1])
      BY <2>1, <3>1, <3>3, HeldEntries
    <3>5. QED
      BY <3>1, <3>3, <3>4
  <2>3. CASE \E c \in Ctx : \E e \in Entries(c) : e.who = k
    <3>1. PICK c \in Ctx : \E e \in Entries(c) : e.who = k
      BY <2>3
    <3>2. PICK e \in Entries(c) : e.who = k
      BY <3>1
    <3>3. PICK n \in 1 .. Len(Held(c)) : Held(c)[n] = e
      BY <2>1, HeldEntries
    <3>4. n \in B
      <4>1. Len(Held(c)) \in Nat /\ Cardinality(Conns) \in Nat
            /\ Len(Held(c)) <= Cardinality(Conns) + 1
        BY <2>1, HeldEntries, HeldBound
      <4>2. QED
        BY <4>1
    <3>5. <<c, n>> \in E
      <4>1. n <= Len(Held(c))
        BY <2>1, HeldEntries
      <4>2. QED
        BY <3>2, <3>3, <3>4, <4>1
    <3>6. ASSUME NEW p \in E PROVE p = <<c, n>>
      <4>1. /\ p[1] \in Ctx /\ p[2] \in 1 .. Len(Held(p[1]))
            /\ Held(p[1])[p[2]] \in Entries(p[1]) /\ Held(p[1])[p[2]].who = k
        BY <2>2
      <4>2. p[1] = HomeOf(k) /\ c = HomeOf(k)
        BY <3>2, <4>1 DEF Inv, Confined
      <4>3. p[1] = c /\ p[2] \in 1 .. Len(Held(c)) /\ Held(c)[p[2]].who = Held(c)[n].who
        BY <3>2, <3>3, <4>1, <4>2
      <4>4. p[2] = n
        BY <2>1, <4>3, HeldEntries
      <4>5. p \in Ctx \X B
        OBVIOUS
      <4>6. QED
        BY <4>3, <4>4, <4>5
    <3> HIDE DEF E
    <3>7. E = {<<c, n>>}
      BY <3>5, <3>6
    <3>8. Cardinality(E) = 1
      BY <3>7, FS_Singleton
    <3>9. ~Operating(k) /\ Suspended(k)
      BY <2>1, <3>2
    <3>10. Cardinality(E) + (IF Operating(k) THEN 1 ELSE 0)
             = (IF Suspended(k) THEN 1 ELSE 0)
      BY <3>8, <3>9
    <3>11. QED
      BY <3>10 DEF E
  <2>4. CASE ~ \E c \in Ctx : \E e \in Entries(c) : e.who = k
    <3>1. E = {}
      BY <2>2, <2>4
    <3> HIDE DEF E
    <3>2. Cardinality(E) = 0
      BY <3>1, FS_EmptySet
    <3>3. Operating(k) <=> Suspended(k)
      <4>1. CASE k = Acceptor
        BY <2>1, <2>4, <4>1 DEF AcceptAwaited, Operating, Suspended
      <4>2. CASE k # Acceptor
        BY <2>4, <4>2 DEF Inv, Tokens, Underway, Operating, Suspended
      <4>3. QED
        BY <4>1, <4>2
    <3>4. Cardinality(E) + (IF Operating(k) THEN 1 ELSE 0)
             = (IF Suspended(k) THEN 1 ELSE 0)
      BY <3>2, <3>3
    <3>5. QED
      BY <3>4 DEF E
  <2>5. QED
    BY <2>3, <2>4
<1>2. Init => AcceptAwaited
  BY DEF Init, AcceptAwaited
<1>3. Inv /\ AcceptAwaited /\ [Next]_vars => AcceptAwaited'
  BY AcceptAwaitedStep
<1>4. QED
  BY <1>1, <1>2, <1>3, Invariance, PTL DEF Spec, SafeSpec
-----------------------------------------------------------------------------
(* The pool, as its own module describes it. *)

\* A handler posted for a coroutine that has none queued there fits the bound of
\* the pool's queues.
LEMMA PostIsPoolPost ==
  ASSUME TypeOK, Once, NEW c \in Ctx, NEW e \in Entry,
         \A n \in 1 .. Len(ready[c]) : ready[c][n].who # e.who,
         ready' = [ready EXCEPT ![c] = Append(@, e)]
  PROVE  LET Q == [d \in Ctx |-> Len(ready[d])] IN
           /\ Q[c] < Cardinality(Conns) + 1
           /\ [d \in Ctx |-> Len(ready'[d])] = [Q EXCEPT ![c] = @ + 1]
<1>1. e.who \in Conns \cup {Acceptor}
  BY DEF Entry
<1>2. /\ Len(ready[c]) \in Nat /\ Cardinality(Conns) \in Nat
      /\ Len(ready[c]) <= Cardinality(Conns)
  BY <1>1, QueueBound
<1>3. ready \in [Ctx -> Seq(Entry)]
  BY DEF TypeOK
<1>4. Len(ready'[c]) = Len(ready[c]) + 1 /\ \A d \in Ctx : d # c => ready'[d] = ready[d]
  BY <1>3
<1> DEFINE Q == [d \in Ctx |-> Len(ready[d])]
<1>5. Q[c] < Cardinality(Conns) + 1
  BY <1>2
<1>6. [d \in Ctx |-> Len(ready'[d])] = [Q EXCEPT ![c] = @ + 1]
  <2>1. \A d \in Ctx : Len(ready'[d]) = IF d = c THEN Len(ready[c]) + 1 ELSE Len(ready[d])
    BY <1>4
  <2>2. QED
    BY <2>1
<1>7. QED
  BY <1>5, <1>6

\* Such a post is the pool's own.
LEMMA SomePost ==
  ASSUME TypeOK, Once, NEW c \in Ctx, NEW e \in Entry,
         \A x \in Entries(c) : x.who # e.who,
         ready' = [ready EXCEPT ![c] = Append(@, e)], poolVars' = poolVars
  PROVE  Pool!Next
<1>1. \A n \in 1 .. Len(ready[c]) : ready[c][n].who # e.who
  BY DEF Entries
<1> DEFINE Q == [d \in Ctx |-> Len(ready[d])]
<1>2. /\ Q[c] < Cardinality(Conns) + 1
      /\ [d \in Ctx |-> Len(ready'[d])] = [Q EXCEPT ![c] = @ + 1]
  BY <1>1, PostIsPoolPost
<1>3. Pool!Post(c)
  BY <1>2 DEF Pool!Post, poolVars
<1>4. QED
  BY <1>3 DEF Pool!Next, Pool!Ctx, Ctx

\* The bound of the pool's handouts is met when start() asks for a context.
LEMMA SomeHandout ==
  ASSUME Inv, main \in {"setup", "loop"}, GetIoContext, ready' = ready
  PROVE  Pool!Next
<1> DEFINE n == m_next_io_context
<1>1. TypeOK /\ n \in Ctx /\ Cardinality(Started) \in Nat /\ Cardinality(Conns) \in Nat
      /\ Cardinality(Started) <= Cardinality(Conns)
  BY Counting DEF Inv
<1>2. ~InFlight
  BY NoAcceptUnderway
<1>3. handed[n] \in Nat /\ errors \in Nat /\ MaxAcceptErrors \in Nat
      /\ errors <= MaxAcceptErrors
  BY <1>1, ServerAssumption DEF TypeOK
<1>4. handed[n] <= (IF main = "setup" THEN 0 ELSE 1) + Cardinality(Started) + errors + 0
  BY <1>1, <1>2 DEF Inv, Handed
<1>5. handed[n] < Cardinality(Conns) + MaxAcceptErrors + 2
  BY <1>1, <1>3, <1>4
<1>6. Pool!GetIoContext
  BY <1>5 DEF Pool!GetIoContext, GetIoContext
<1>7. QED
  BY <1>6 DEF Pool!Next

\* Every step of the program is a step of the pool, or leaves it alone.
LEMMA PoolStep == Inv /\ [Next]_vars => [Pool!Next]_(Pool!vars)
<1> SUFFICES ASSUME Inv, [Next]_vars PROVE Pool!Next \/ UNCHANGED Pool!vars
  OBVIOUS
<1>1. TypeOK /\ Once /\ 0 \in Ctx
  BY Counting DEF Inv
<1>2. ASSUME poolVars' = poolVars, ready' = ready PROVE UNCHANGED Pool!vars
  BY <1>2 DEF poolVars, Pool!vars
<1>3. CASE StartThread
  <2>1. Pool!StartThread
    BY <1>3 DEF StartThread, Pool!StartThread
  <2>2. QED
    BY <2>1 DEF Pool!Next
<1>4. CASE Listen
  BY <1>4, SomeHandout DEF Listen
<1>5. CASE AwaitAccept
  BY <1>5, SomeHandout DEF AwaitAccept
<1>6. CASE ResumeAccept
  <2>1. CASE accepted = "error"
    BY <1>2, <1>6, <2>1, ServerAssumption DEF ResumeAccept
  <2>2. CASE accepted \in Conns
    <3>1. PICK k \in Conns : k = accepted
      BY <2>2
    <3>2. PICK s \in Ctx : s = socketCtx[Acceptor] /\ m_executor_map[s] = s
      BY <1>1, <1>6 DEF ResumeAccept, Inv, Executors, TypeOK
    <3>3. \A x \in Entries(s) : x.who # k
      BY <2>2, <3>1 DEF Inv, Accepting, Waiting, Tokens, Underway
    <3>4. PICK e \in Entry : e = [who |-> k, kind |-> "resume", ec |-> "ok"]
      BY DEF Entry
    <3>5. ready' = [ready EXCEPT ![s] = Append(@, e)] /\ poolVars' = poolVars
      BY <1>6, <2>2, <3>1, <3>2, <3>4, ServerAssumption DEF ResumeAccept, Post
    <3>6. e.who = k
      BY <3>4
    <3>7. QED
      BY <1>1, <3>3, <3>5, <3>6, SomePost
  <2>3. QED
    BY <1>6, <2>1, <2>2 DEF ResumeAccept
<1>7. CASE AcceptCompletes \/ AcceptFails
  <2>1. PICK r \in Conns \cup {"error"} : Post(0, Acceptor, "callback", r)
    <3>1. CASE AcceptCompletes
      <4>1. backlog \in Seq(Conns) /\ backlog # << >>
        BY <1>1, <3>1 DEF TypeOK, AcceptCompletes
      <4>2. Head(backlog) \in Conns
        BY <4>1
      <4>3. QED
        BY <3>1, <4>2 DEF AcceptCompletes
    <3>2. CASE AcceptFails
      BY <3>2 DEF AcceptFails
    <3>3. QED
      BY <1>7, <3>1, <3>2
  <2>2. \A x \in Entries(0) : x.who # Acceptor
    BY <1>1, <1>7 DEF AcceptCompletes, AcceptFails, Inv, Accepting
  <2>3. PICK e \in Entry : e = [who |-> Acceptor, kind |-> "callback", ec |-> r]
    BY DEF Entry
  <2>4. ready' = [ready EXCEPT ![0] = Append(@, e)] /\ poolVars' = poolVars
    BY <1>7, <2>1, <2>3 DEF Post, AcceptCompletes, AcceptFails
  <2>5. e.who = Acceptor
    BY <2>3
  <2>6. QED
    BY <1>1, <2>2, <2>4, <2>5, SomePost
<1>8. CASE \E k \in Conns : TimerFires(k) \/ ReadCompletes(k) \/ WriteCompletes(k)
  <2>1. PICK k \in Conns, ec \in {"ok", "error"} : Completes(k, ec)
    BY <1>8 DEF TimerFires, ReadCompletes, WriteCompletes
  <2>2. k \in pending /\ at[k] # "none" /\ \A c \in Ctx : \A x \in Entries(c) : x.who # k
    BY <2>1 DEF Completes, Inv, Tokens, Underway
  <2>3. PICK s \in Ctx : s = socketCtx[k]
    BY <1>1, <2>2 DEF Inv, Executors, TypeOK
  <2>4. PICK e \in Entry : e = [who |-> k, kind |-> "callback", ec |-> ec]
    BY DEF Entry
  <2>5. ready' = [ready EXCEPT ![s] = Append(@, e)] /\ poolVars' = poolVars
    BY <2>1, <2>3, <2>4 DEF Post, Completes
  <2>6. e.who = k
    BY <2>4
  <2>7. QED
    BY <1>1, <2>2, <2>5, <2>6, SomePost
<1>9. CASE Unwind \/ \E k \in Conns : Connect(k) \/ Send(k) \/ Close(k)
  BY <1>2, <1>9 DEF Unwind, Connect, Send, Close
<1>10. ASSUME NEW c \in Ctx, RunHandler(c) PROVE Pool!Next
  <2> DEFINE Q == [d \in Ctx |-> Len(ready[d])]
  <2>1. ready \in [Ctx -> Seq(Entry)] /\ ready[c] \in Seq(Entry) /\ ready[c] # << >>
        /\ ready' = [ready EXCEPT ![c] = Tail(@)]
    BY <1>1, <1>10 DEF TypeOK, RunHandler
  <2>2. Len(ready[c]) \in Nat /\ Len(ready[c]) > 0 /\ Len(ready'[c]) = Len(ready[c]) - 1
    BY <2>1
  <2>3. [d \in Ctx |-> Len(ready'[d])] = [Q EXCEPT ![c] = @ - 1] /\ Q[c] > 0
    BY <2>1, <2>2
  <2>4. Pool!RunHandler(c)
    BY <1>10, <2>3 DEF RunHandler, Pool!RunHandler
  <2>5. QED
    BY <2>4 DEF Pool!Next, Pool!Ctx, Ctx
<1>11. ASSUME NEW c \in Ctx, HandlerReturns(c) PROVE Pool!Next
  <2>1. /\ thread[c] = "busy" /\ running[c] \in Entry /\ running[c] # None
        /\ thread' = [thread EXCEPT ![c] = "run"]
        /\ m_next_io_context' = m_next_io_context /\ m_threads' = m_threads
        /\ handed' = handed
    BY <1>11, ReturnFrame
  <2>2. CASE ready' = ready
    <3>1. Pool!HandlerReturns(c)
      BY <2>1, <2>2 DEF Pool!HandlerReturns
    <3>2. QED
      BY <3>1 DEF Pool!Next, Pool!Ctx, Ctx
  <2>3. CASE running[c].who \in Conns
             /\ Post(m_executor_map[socketCtx[running[c].who]], running[c].who,
                     "resume", "ok")
    <3>1. PICK k \in Conns : running[c].who = k
      BY <2>3
    <3>2. c = socketCtx[k] /\ m_executor_map[c] = c
      BY <1>11, <3>1, SessionHandler
    <3>3. PICK e \in Entry : e = [who |-> k, kind |-> "resume", ec |-> "ok"]
      BY DEF Entry
    <3>4. e.who = k /\ ready' = [ready EXCEPT ![c] = Append(@, e)]
      BY <2>3, <3>1, <3>2, <3>3 DEF Post
    <3>5. \A n \in 1 .. Len(ready[c]) : ready[c][n].who # e.who
      BY <1>1, <2>1, <3>1, <3>4 DEF Once
    <3> DEFINE Q == [d \in Ctx |-> Len(ready[d])]
    <3>6. /\ Q[c] < Cardinality(Conns) + 1
          /\ [d \in Ctx |-> Len(ready'[d])] = [Q EXCEPT ![c] = @ + 1]
      BY <1>1, <3>4, <3>5, PostIsPoolPost
    <3>7. Pool!HandlerReturns(c)
      BY <2>1, <3>6 DEF Pool!HandlerReturns, Pool!Ctx, Ctx
    <3>8. QED
      BY <3>7 DEF Pool!Next, Pool!Ctx, Ctx
  <2>4. QED
    BY <1>11, <2>2, <2>3 DEF HandlerReturns
<1>12. CASE UNCHANGED vars
  BY <1>2, <1>12 DEF vars
<1>13. QED
  BY <1>3, <1>4, <1>5, <1>6, <1>7, <1>8, <1>9, <1>10, <1>11, <1>12 DEF Next

\* The TCP server uses the pool as IoContextPool allows: the refinement that a
\* run checks for two contexts, for every size.  Its queues never hold more
\* than one handler per coroutine, and getIoContext() is called once for the
\* acceptor and once per accept.
THEOREM UsesPool == Spec => PoolUse
<1>1. Init => Pool!Init
  <2> SUFFICES ASSUME Init PROVE Pool!Init
    OBVIOUS
  <2>1. [c \in Ctx |-> Len(ready[c])] = [c \in Ctx |-> 0]
    BY DEF Init
  <2>2. QED
    BY <2>1 DEF Init, Pool!Init, Pool!TrackedContexts, Pool!Ctx, Ctx
<1>2. Inv /\ [Next]_vars => [Pool!Next]_(Pool!vars)
  BY PoolStep
<1>3. QED
  BY <1>1, <1>2, Invariance, PTL DEF Spec, SafeSpec, PoolUse, Pool!SafeSpec
-----------------------------------------------------------------------------
(* The end of a session. *)

Ended(k) == peer[k] = "closed" /\ inbox[k] = 0

\* An error that a session reading its socket has got, or will get from a callback
\* under way, is the end of its input; so was the one that ended it.
ErrorsEnd ==
  \A k \in Conns :
    /\ at[k] = "closed" => Ended(k)
    /\ at[k] = "read" /\ m_ec[k] = "error" => Ended(k)
    /\ \A c \in Ctx : \A e \in Entries(c) :
         e.who = k /\ e.kind = "callback" /\ e.ec = "error" /\ at[k] = "read" => Ended(k)

\* A step that starts no operation of a session and posts no error keeps it.
LEMMA ErrorsEndKept ==
  ASSUME ErrorsEnd,
         \A k \in Conns : /\ Ended(k) => Ended(k)'
                          /\ \/ at'[k] = at[k] /\ m_ec'[k] = m_ec[k]
                             \/ at'[k] = "schedule",
         \A c \in Ctx : \A e \in Entries(c)' :
           \/ e \in Entries(c) \/ e.kind = "resume" \/ e.who \notin Conns
  PROVE  ErrorsEnd'
<1> SUFFICES ASSUME NEW k \in Conns
             PROVE  /\ at'[k] = "closed" => Ended(k)'
                    /\ at'[k] = "read" /\ m_ec'[k] = "error" => Ended(k)'
                    /\ \A c \in Ctx : \A e \in Entries(c)' :
                         e.who = k /\ e.kind = "callback" /\ e.ec = "error"
                           /\ at'[k] = "read" => Ended(k)'
  BY DEF ErrorsEnd
<1>1. CASE at'[k] = "schedule"
  BY <1>1
<1>2. CASE at'[k] = at[k] /\ m_ec'[k] = m_ec[k]
  BY <1>2 DEF ErrorsEnd
<1>3. QED
  BY <1>1, <1>2

\* An operation that completes: only a read at the end of the input gives a reading
\* session an error.
LEMMA OperationEnds ==
  ASSUME Inv, ErrorsEnd, NEW k \in Conns,
         TimerFires(k) \/ ReadCompletes(k) \/ WriteCompletes(k)
  PROVE  ErrorsEnd'
<1>1. PICK ec \in {"ok", "error"} :
        Completes(k, ec) /\ (ec = "error" /\ at[k] = "read" => Ended(k))
  BY DEF TimerFires, ReadCompletes, WriteCompletes, Ended
<1>2. /\ k \in pending /\ Underway(k)
      /\ \A c \in Ctx : \A x \in Entries(c) : x.who # k
  BY <1>1 DEF Completes, Inv, Tokens
<1>3. PICK s \in Ctx : s = socketCtx[k]
  BY <1>2 DEF Inv, Executors, Underway, TypeOK
<1>4. PICK e \in Entry : e = [who |-> k, kind |-> "callback", ec |-> ec]
  BY DEF Entry
<1>5. e.who = k /\ e.ec = ec
  BY <1>4
<1>6. /\ ready' = [ready EXCEPT ![s] = Append(@, e)]
      /\ running' = running /\ at' = at /\ m_ec' = m_ec /\ peer' = peer
  BY <1>1, <1>3, <1>4 DEF Completes, Post
<1>7. \A d \in Ctx : Entries(d)' = IF d = s THEN Entries(s) \cup {e} ELSE Entries(d)
  <2>1. ready \in [Ctx -> Seq(Entry)] /\ Once
    BY DEF Inv, TypeOK
  <2>2. \A x \in Entries(s) : x.who # e.who
    BY <1>2, <1>5
  <2>3. QED
    BY <1>6, <2>1, <2>2, PostEntries
<1>8. \A w \in Conns : Ended(w) => Ended(w)'
  <2>1. inbox \in [Conns -> 0 .. MaxInbox]
    BY DEF Inv, TypeOK
  <2>2. \A w \in Conns : inbox[w] = 0 => inbox'[w] = 0
    BY <2>1 DEF TimerFires, ReadCompletes, WriteCompletes
  <2>3. QED
    BY <1>6, <2>2 DEF Ended
<1>9. QED
  BY <1>1, <1>5, <1>6, <1>7, <1>8 DEF ErrorsEnd

\* A session that is resumed looks only at the error of a read, and its next
\* awaiter has none.
LEMMA ResumeEnds ==
  ASSUME Inv, ErrorsEnd, NEW c \in Ctx, HandlerReturns(c), NEW k \in Conns,
         running[c].who = k, running[c].kind = "resume"
  PROVE  ErrorsEnd' /\ at[k] # "closed" /\ \A w \in Conns : w # k => at'[w] = at[w]
<1>1. /\ TypeOK /\ running[c] # None /\ running[c] \in Entry
      /\ running' = [running EXCEPT ![c] = None] /\ peer' = peer /\ inbox' = inbox
  BY ReturnFrame
<1>2. /\ Underway(k) /\ k # Acceptor
      /\ \A d \in Ctx : d # c => \A x \in Entries(d) : x.who # k
  BY SessionHandler
<1>3. /\ at' = [at EXCEPT ![k] = Proceed(k)] /\ m_ec' = [m_ec EXCEPT ![k] = None]
      /\ ready' = ready
  BY <1>2 DEF HandlerReturns
<1>4. \A d \in Ctx : \A x \in Entries(d)' : x \in Entries(d) /\ x.who # k
  <2>1. /\ \A d \in Ctx : Entries(d)' = IF d = c THEN Entries(c) \ {running[c]} ELSE Entries(d)
        /\ \A x \in Entries(c)' : x.who # k
    BY <1>1, <1>3, DoneEntries DEF Inv
  <2>2. QED
    BY <1>2, <2>1
<1>5. /\ at'[k] = Proceed(k) /\ m_ec'[k] = None
      /\ \A w \in Conns : w # k => at'[w] = at[w] /\ m_ec'[w] = m_ec[w]
      /\ at[k] \in {"schedule", "timer", "read", "write"}
  BY <1>1, <1>2, <1>3 DEF TypeOK, Underway
<1>6. Proceed(k) = "closed" => Ended(k)
  <2>1. Proceed(k) = "closed" => at[k] = "read" /\ m_ec[k] = "error"
    BY <1>5 DEF Proceed
  <2>2. QED
    BY <2>1 DEF ErrorsEnd
<1>7. \A w \in Conns : Ended(w)' <=> Ended(w)
  BY <1>1 DEF Ended
<1>8. ErrorsEnd'
  <2> SUFFICES ASSUME NEW w \in Conns
               PROVE  /\ at'[w] = "closed" => Ended(w)'
                      /\ at'[w] = "read" /\ m_ec'[w] = "error" => Ended(w)'
                      /\ \A d \in Ctx : \A e \in Entries(d)' :
                           e.who = w /\ e.kind = "callback" /\ e.ec = "error"
                             /\ at'[w] = "read" => Ended(w)'
    BY DEF ErrorsEnd
  <2>1. CASE w = k
    BY <1>4, <1>5, <1>6, <1>7, <2>1, ServerAssumption
  <2>2. CASE w # k
    BY <1>4, <1>5, <1>7, <2>2 DEF ErrorsEnd
  <2>3. QED
    BY <2>1, <2>2
<1>9. QED
  BY <1>5, <1>8

\* A session's callback stores the error it was given.
LEMMA CallbackEnds ==
  ASSUME Inv, ErrorsEnd, NEW c \in Ctx, HandlerReturns(c), NEW k \in Conns,
         running[c].who = k, running[c].kind = "callback"
  PROVE  ErrorsEnd' /\ at' = at
<1>1. /\ TypeOK /\ running[c] # None /\ running[c] \in Entry /\ running[c] \in Entries(c)
      /\ running' = [running EXCEPT ![c] = None] /\ peer' = peer /\ inbox' = inbox
  BY ReturnFrame
<1>2. /\ c = socketCtx[k] /\ m_executor_map[c] = c /\ k # Acceptor
  BY SessionHandler
<1>3. /\ at' = at /\ m_ec' = [m_ec EXCEPT ![k] = running[c].ec]
      /\ Post(c, k, "resume", "ok")
  BY <1>2 DEF HandlerReturns, StoredEc
<1>4. PICK e \in Entry : e = [who |-> k, kind |-> "resume", ec |-> "ok"]
  BY DEF Entry
<1>5. e.who = k /\ e.kind = "resume" /\ ready' = [ready EXCEPT ![c] = Append(@, e)]
  BY <1>3, <1>4 DEF Post
<1>6. \A d \in Ctx : \A x \in Entries(d)' : x \in Entries(d) \/ x.kind = "resume"
  <2>1. \A d \in Ctx : Entries(d)' = IF d = c THEN (Entries(c) \ {running[c]}) \cup {e}
                                      ELSE Entries(d)
    BY <1>1, <1>5, ResumeEntries DEF Inv
  <2>2. QED
    BY <1>5, <2>1
<1>7. /\ m_ec'[k] = running[c].ec /\ \A w \in Conns : w # k => m_ec'[w] = m_ec[w]
      /\ \A w \in Conns : Ended(w)' <=> Ended(w)
  BY <1>1, <1>3 DEF TypeOK, Ended
<1>8. at[k] = "read" /\ m_ec'[k] = "error" => Ended(k)
  BY <1>1, <1>7 DEF ErrorsEnd
<1>9. QED
  BY <1>3, <1>6, <1>7, <1>8 DEF ErrorsEnd

\* Every step keeps what is known of errors, and no step reopens a session.
LEMMA EndsStep ==
  ASSUME Inv, ErrorsEnd, [Next]_vars
  PROVE  ErrorsEnd' /\ \A k \in Conns : at[k] = "closed" => at'[k] = "closed"
<1>1. TypeOK
  BY DEF Inv
<1>2. CASE \/ StartThread \/ Listen \/ Unwind \/ AwaitAccept \/ UNCHANGED vars
           \/ \E k \in Conns : Connect(k) \/ Send(k) \/ Close(k)
  <2>1. /\ ready' = ready /\ running' = running /\ at' = at /\ m_ec' = m_ec
        /\ \A k \in Conns : Ended(k) => Ended(k)'
    <3>1. CASE StartThread \/ Listen \/ Unwind \/ AwaitAccept \/ UNCHANGED vars
      BY <3>1 DEF StartThread, Listen, Unwind, AwaitAccept, vars, sessionVars, peerVars,
                  Ended
    <3>2. ASSUME NEW k \in Conns, Connect(k) \/ Send(k) \/ Close(k)
          PROVE  /\ ready' = ready /\ running' = running /\ at' = at /\ m_ec' = m_ec
                 /\ \A w \in Conns : Ended(w) => Ended(w)'
      <4>1. ready' = ready /\ running' = running /\ at' = at /\ m_ec' = m_ec
        BY <3>2 DEF Connect, Send, Close, sessionVars
      <4>2. peer[k] # "closed" /\ \A w \in Conns \ {k} : peer'[w] = peer[w] /\ inbox'[w] = inbox[w]
        BY <1>1, <3>2 DEF Connect, Send, Close, TypeOK
      <4>3. QED
        BY <4>1, <4>2 DEF Ended
    <3>3. QED
      BY <1>2, <3>1, <3>2
  <2>2. \A c \in Ctx : Entries(c)' = Entries(c)
    BY <2>1, SameEntries
  <2>3. QED
    BY <2>1, <2>2, ErrorsEndKept
<1>3. CASE ResumeAccept
  <2>1. running' = running /\ m_ec' = m_ec /\ peer' = peer /\ inbox' = inbox
    BY <1>3 DEF ResumeAccept, peerVars
  <2>2. \A k \in Conns : Ended(k) => Ended(k)'
    BY <2>1 DEF Ended
  <2>3. CASE ready' = ready /\ at' = at
    <3>1. \A c \in Ctx : Entries(c)' = Entries(c)
      BY <2>1, <2>3, SameEntries
    <3>2. QED
      BY <2>1, <2>2, <2>3, <3>1, ErrorsEndKept
  <2>4. CASE /\ accepted \in Conns /\ at' = [at EXCEPT ![accepted] = "schedule"]
             /\ Post(m_executor_map[socketCtx[Acceptor]], accepted, "resume", "ok")
    <3>1. PICK k \in Conns : k = accepted
      BY <2>4
    <3>2. PICK s \in Ctx : s = socketCtx[Acceptor] /\ m_executor_map[s] = s
      BY <1>1, <1>3 DEF ResumeAccept, Inv, Executors, TypeOK
    <3>3. at[k] = "none" /\ \A c \in Ctx : \A x \in Entries(c) : x.who # k
      BY <2>4, <3>1 DEF Inv, Accepting, Waiting, Tokens, Underway
    <3>4. PICK e \in Entry : e = [who |-> k, kind |-> "resume", ec |-> "ok"]
      BY DEF Entry
    <3>5. e.who = k /\ e.kind = "resume" /\ ready' = [ready EXCEPT ![s] = Append(@, e)]
      BY <2>4, <3>1, <3>2, <3>4 DEF Post
    <3>6. \A d \in Ctx : Entries(d)' = IF d = s THEN Entries(s) \cup {e} ELSE Entries(d)
      <4>1. ready \in [Ctx -> Seq(Entry)] /\ Once /\ \A x \in Entries(s) : x.who # e.who
        BY <1>1, <3>3, <3>5 DEF Inv, TypeOK
      <4>2. QED
        BY <2>1, <3>5, <4>1, PostEntries
    <3>7. /\ at'[k] = "schedule" /\ \A w \in Conns : w # k => at'[w] = at[w]
      BY <1>1, <2>4, <3>1 DEF TypeOK
    <3>8. ErrorsEnd'
      BY <2>1, <2>2, <3>5, <3>6, <3>7, ErrorsEndKept
    <3>9. QED
      BY <3>3, <3>7, <3>8
  <2>5. QED
    BY <1>3, <2>3, <2>4 DEF ResumeAccept
<1>4. CASE AcceptCompletes \/ AcceptFails
  <2>1. PICK r \in Conns \cup {"error"} : Post(0, Acceptor, "callback", r)
    <3>1. CASE AcceptCompletes
      <4>1. backlog \in Seq(Conns) /\ backlog # << >>
        BY <1>1, <3>1 DEF TypeOK, AcceptCompletes
      <4>2. Head(backlog) \in Conns
        BY <4>1
      <4>3. QED
        BY <3>1, <4>2 DEF AcceptCompletes
    <3>2. CASE AcceptFails
      BY <3>2 DEF AcceptFails
    <3>3. QED
      BY <1>4, <3>1, <3>2
  <2>2. 0 \in Ctx /\ \A x \in Entries(0) : x.who # Acceptor
    BY <1>1, <1>4, Counting DEF AcceptCompletes, AcceptFails, Inv, Accepting
  <2>3. PICK e \in Entry : e = [who |-> Acceptor, kind |-> "callback", ec |-> r]
    BY DEF Entry
  <2>4. /\ e.who = Acceptor /\ ready' = [ready EXCEPT ![0] = Append(@, e)]
        /\ running' = running /\ at' = at /\ m_ec' = m_ec /\ peer' = peer /\ inbox' = inbox
    BY <1>4, <2>1, <2>3 DEF Post, AcceptCompletes, AcceptFails, sessionVars
  <2>5. \A d \in Ctx : Entries(d)' = IF d = 0 THEN Entries(0) \cup {e} ELSE Entries(d)
    <3>1. ready \in [Ctx -> Seq(Entry)] /\ Once /\ \A x \in Entries(0) : x.who # e.who
      BY <1>1, <2>2, <2>4 DEF Inv, TypeOK
    <3>2. QED
      BY <2>2, <2>4, <3>1, PostEntries
  <2>6. \A k \in Conns : Ended(k) => Ended(k)'
    BY <2>4 DEF Ended
  <2>7. QED
    BY <2>4, <2>5, <2>6, ErrorsEndKept, ServerAssumption
<1>5. ASSUME NEW k \in Conns, TimerFires(k) \/ ReadCompletes(k) \/ WriteCompletes(k)
      PROVE  ErrorsEnd' /\ at' = at
  BY <1>5, OperationEnds DEF TimerFires, ReadCompletes, WriteCompletes, Completes
<1>6. ASSUME NEW c \in Ctx, RunHandler(c)
      PROVE  ErrorsEnd' /\ at' = at
  <2>1. at' = at /\ m_ec' = m_ec /\ peer' = peer /\ inbox' = inbox
    BY <1>6 DEF RunHandler, sessionVars, peerVars
  <2>2. running[c] = None
    BY <1>1, <1>6 DEF Inv, Busy, RunHandler
  <2>3. \A d \in Ctx : Entries(d)' = Entries(d)
    BY <1>1, <1>6, <2>2, RunEntries DEF Inv
  <2>4. \A k \in Conns : Ended(k) => Ended(k)'
    BY <2>1 DEF Ended
  <2>5. QED
    BY <2>1, <2>3, <2>4, ErrorsEndKept
<1>7. ASSUME NEW c \in Ctx, HandlerReturns(c)
      PROVE  ErrorsEnd' /\ \A k \in Conns : at[k] = "closed" => at'[k] = "closed"
  <2>1. /\ running[c] # None /\ running[c] \in Entry /\ running[c] \in Entries(c)
        /\ running' = [running EXCEPT ![c] = None] /\ peer' = peer /\ inbox' = inbox
    BY <1>7, ReturnFrame
  <2>2. CASE running[c].who = Acceptor
    <3>1. running[c].kind = "callback"
      BY <2>1, <2>2 DEF Inv, Accepting
    <3>2. ready' = ready /\ at' = at /\ m_ec' = m_ec
      BY <1>7, <2>2, <3>1, ServerAssumption DEF HandlerReturns, sessionVars
    <3>3. \A d \in Ctx : Entries(d)' \subseteq Entries(d)
      BY <1>1, <2>1, <3>2, DoneEntries DEF Inv
    <3>4. \A k \in Conns : Ended(k) => Ended(k)'
      BY <2>1 DEF Ended
    <3>5. QED
      BY <3>2, <3>3, <3>4, ErrorsEndKept
  <2>3. ASSUME NEW k \in Conns, running[c].who = k
        PROVE  ErrorsEnd' /\ \A w \in Conns : at[w] = "closed" => at'[w] = "closed"
    <3>1. running[c].kind \in {"callback", "resume"}
      BY <2>1 DEF Entry
    <3>2. CASE running[c].kind = "callback"
      BY <1>7, <2>3, <3>2, CallbackEnds
    <3>3. CASE running[c].kind = "resume"
      BY <1>7, <2>3, <3>3, ResumeEnds
    <3>4. QED
      BY <3>1, <3>2, <3>3
  <2>4. QED
    BY <2>1, <2>2, <2>3 DEF Entry
<1>8. QED
  BY <1>2, <1>3, <1>4, <1>5, <1>6, <1>7 DEF Next

\* A session ends only when its peer has closed and all it sent was read, and is
\* not reopened: an error of a write does not end it, nor is one taken for the
\* error of the read that follows.
THEOREM EndsAtTheEnd == Spec => ReadsToTheEnd
<1>1. Init => ErrorsEnd
  BY ServerAssumption DEF Init, ErrorsEnd, Entries
<1>2. Inv /\ ErrorsEnd /\ [Next]_vars => ErrorsEnd'
  BY EndsStep
<1>3. Inv /\ ErrorsEnd /\ [Next]_vars =>
        [\A k \in Conns :
           LET over == at[k] = "closed"
           IN  (over => over') /\ (over' => peer'[k] = "closed" /\ inbox'[k] = 0)]_vars
  <2> SUFFICES ASSUME Inv, ErrorsEnd, [Next]_vars, NEW k \in Conns
               PROVE  /\ at[k] = "closed" => at'[k] = "closed"
                      /\ at'[k] = "closed" => peer'[k] = "closed" /\ inbox'[k] = 0
    OBVIOUS
  <2>1. ErrorsEnd' /\ (at[k] = "closed" => at'[k] = "closed")
    BY EndsStep
  <2>2. QED
    BY <2>1 DEF ErrorsEnd, Ended
<1>4. QED
  BY <1>1, <1>2, <1>3, Invariance, PTL DEF Spec, SafeSpec, ReadsToTheEnd
=============================================================================
