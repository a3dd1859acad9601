--------------------------- MODULE TcpEchoProofs ---------------------------
(***************************************************************************)
(* Proofs about TcpEcho for every number of rounds, message size and       *)
(* kernel buffer that EchoAssumption allows, the programs' 100 rounds of   *)
(* 1024 bytes among them.                                                  *)
(***************************************************************************)
EXTENDS TcpEcho, TLAPS

\* s holds the bytes that follow position b of the client's output, in order.
Run(s, b) == s \in Seq(Nat) /\ \A j \in 1 .. Len(s) : s[j] = b + j

\* While the connection is up, what the client has read, the two directions,
\* the session's buffer and the rest of the client's write are together
\* everything the client wrote, in order.  When it is not up nothing more
\* reaches the client.
Stream ==
  /\ Run(got, 0)
  /\ Run(s2c, Len(got))
  /\ data \in Seq(Nat) /\ c2s \in Seq(Nat) /\ out \in Seq(Nat)
  /\ link = "up" =>
       /\ Run(data, Len(got) + Len(s2c))
       /\ Run(c2s, Len(got) + Len(s2c) + Len(data))
       /\ Run(out, Len(got) + Len(s2c) + Len(data) + Len(c2s))
       /\ sent = Len(got) + Len(s2c) + Len(data) + Len(c2s) + Len(out)
  /\ link # "up" => s2c = << >>
  /\ link = "none" => got = << >> /\ c2s = << >> /\ data = << >> /\ sent = 0

\* The client's round counter bounds what it has written from above and what
\* it has read from below.
Rounds ==
  /\ i \in 0 .. Count /\ sent \in Nat
  /\ client = "connecting" => link = "none" /\ i = 0
  /\ client \in {"write", "read"} => i < Count /\ sent = (i + 1) * MaxLength
  /\ link = "up" /\ client = "write" => out # << >>
  /\ link = "up" /\ client = "read" => out = << >>
  /\ link = "up" /\ server = "write" => data # << >>
  /\ link = "up" /\ server # "write" => data = << >>
  /\ Len(got) >= i

\* The inductive invariant.
Inv == Stream /\ Rounds

\* The empty sequence continues any position.
LEMMA RunEmpty ==
  ASSUME NEW b \in Nat
  PROVE  Run(<< >>, b) /\ Len(<< >>) = 0
BY DEF Run

\* Splitting a run of bytes gives a run and the run that follows it.
LEMMA RunSplit ==
  ASSUME NEW s, NEW b \in Nat, Run(s, b), NEW n \in 1 .. Len(s)
  PROVE  /\ Run(Take(s, n), b) /\ Len(Take(s, n)) = n
         /\ Run(Drop(s, n), b + n) /\ Len(Drop(s, n)) = Len(s) - n
<1>1. s \in Seq(Nat) /\ Len(s) \in Nat /\ n \in Nat /\ n <= Len(s)
      /\ \A j \in 1 .. Len(s) : s[j] = b + j
  BY DEF Run
<1>2. /\ Take(s, n) \in Seq(Nat) /\ Len(Take(s, n)) = n
      /\ \A j \in 1 .. n : Take(s, n)[j] = s[j]
  BY <1>1 DEF Take
<1>3. /\ Drop(s, n) \in Seq(Nat) /\ Len(Drop(s, n)) = Len(s) - n
      /\ \A j \in 1 .. Len(s) - n : Drop(s, n)[j] = s[n + j]
  BY <1>1 DEF Drop
<1>4. Run(Take(s, n), b)
  BY <1>1, <1>2, SMTT(40) DEF Run
<1>5. Run(Drop(s, n), b + n)
  <2>1. ASSUME NEW j \in 1 .. Len(s) - n
        PROVE  s[n + j] = b + n + j
    <3>1. n + j \in 1 .. Len(s) /\ j \in Nat
      BY <1>1
    <3>2. s[n + j] = b + (n + j)
      BY <1>1, <3>1
    <3>3. QED
      BY <1>1, <3>1, <3>2
  <2>2. QED
    BY <1>3, <2>1 DEF Run
<1>6. QED
  BY <1>2, <1>3, <1>4, <1>5

\* Splitting any sequence of bytes.
LEMMA SplitSeq ==
  ASSUME NEW s \in Seq(Nat), NEW n \in 1 .. Len(s)
  PROVE  /\ Take(s, n) \in Seq(Nat) /\ Len(Take(s, n)) = n
         /\ Drop(s, n) \in Seq(Nat) /\ Len(Drop(s, n)) = Len(s) - n
BY DEF Take, Drop

\* Appending the run that follows gives a run.
LEMMA RunAppend ==
  ASSUME NEW s, NEW t, NEW b \in Nat, Run(s, b), Run(t, b + Len(s))
  PROVE  Run(s \o t, b) /\ Len(s \o t) = Len(s) + Len(t)
BY DEF Run

\* The message of one round continues what was sent before.
LEMMA RunMessage ==
  ASSUME NEW b \in Nat
  PROVE  LET m == [j \in 1 .. WriteSize |-> b + j]
         IN  Run(m, b) /\ Len(m) = MaxLength /\ m # << >>
BY EchoAssumption DEF Run, WriteSize

\* The lengths of the parts of the stream are natural numbers.
LEMMA Lengths ==
  ASSUME Inv
  PROVE  /\ Len(got) \in Nat /\ Len(s2c) \in Nat /\ Len(data) \in Nat
         /\ Len(c2s) \in Nat /\ Len(out) \in Nat
         /\ sent \in Nat /\ i \in Nat
<1>1. /\ got \in Seq(Nat) /\ s2c \in Seq(Nat) /\ data \in Seq(Nat)
      /\ c2s \in Seq(Nat) /\ out \in Seq(Nat)
  BY Zenon DEF Inv, Stream, Run
<1>2. sent \in Nat /\ i \in Nat
  BY DEF Inv, Rounds
<1>3. QED
  BY <1>1, <1>2

\* Before the connection is made nothing was sent.
LEMMA InitInv == Init => Inv
<1> SUFFICES ASSUME Init PROVE Inv
  OBVIOUS
<1>1. Stream
  BY RunEmpty DEF Init, Stream
<1>2. Rounds
  BY EchoAssumption DEF Init, Rounds
<1>3. QED
  BY <1>1, <1>2 DEF Inv

\* The first message after the connection is made.
LEMMA ConnectInv == Inv /\ Connect => Inv'
<1> SUFFICES ASSUME Inv, Connect PROVE Inv'
  OBVIOUS
<1> USE DEF Inv
<1>1. /\ link = "none" /\ i = 0 /\ sent = 0
      /\ got = << >> /\ s2c = << >> /\ c2s = << >> /\ data = << >>
  BY DEF Connect, Stream, Rounds
<1>2. Run(out', 0) /\ Len(out') = MaxLength /\ out' # << >>
  BY <1>1, RunMessage DEF Connect, BeginWrite
<1>3. Stream'
  BY <1>1, <1>2, RunEmpty, EchoAssumption
  DEF Connect, BeginWrite, WriteSize, Stream, Run
<1>4. Rounds'
  BY <1>1, <1>2, EchoAssumption
  DEF Connect, BeginWrite, WriteSize, Rounds, Stream
<1>5. QED
  BY <1>3, <1>4

\* One write_some of the client's async_write.
LEMMA ClientWritesInv == Inv /\ ClientWrites => Inv'
<1> SUFFICES ASSUME Inv, ClientWrites PROVE Inv'
  OBVIOUS
<1> USE DEF Inv
<1>1. PICK n \in 1 .. Len(out) :
        /\ c2s' = c2s \o Take(out, n)
        /\ out' = Drop(out, n)
        /\ client' = IF n = Len(out) THEN "read" ELSE "write"
  BY DEF ClientWrites
<1>2. /\ Len(got) \in Nat /\ Len(s2c) \in Nat /\ Len(data) \in Nat
      /\ Len(c2s) \in Nat /\ Len(out) \in Nat
  BY Lengths
<1> DEFINE b == Len(got) + Len(s2c) + Len(data)
<1>3. b \in Nat /\ Run(c2s, b) /\ Run(out, b + Len(c2s))
  BY <1>2 DEF ClientWrites, Stream
<1>4. /\ Run(Take(out, n), b + Len(c2s)) /\ Len(Take(out, n)) = n
      /\ Run(out', b + Len(c2s) + n) /\ Len(out') = Len(out) - n
  BY <1>1, <1>2, <1>3, RunSplit
<1>5. Run(c2s', b) /\ Len(c2s') = Len(c2s) + n
  BY <1>1, <1>3, <1>4, RunAppend
<1>6. /\ UNCHANGED <<got, s2c, data, link, sent, i, server>>
      /\ link = "up" /\ client = "write"
  BY DEF ClientWrites, serverVars
<1>7. Stream'
  <2>1. out' \in Seq(Nat) /\ c2s' \in Seq(Nat)
    BY <1>4, <1>5 DEF Run
  <2>2. Run(out', b + Len(c2s'))
    BY <1>4, <1>5
  <2>3. sent = b + Len(c2s') + Len(out')
    BY <1>2, <1>4, <1>5, <1>6 DEF Stream
  <2>4. QED
    BY <1>5, <1>6, <2>1, <2>2, <2>3 DEF Stream
<1>8. Rounds'
  <2>1. n = Len(out) => out' = << >>
    BY <1>4 DEF Run
  <2>2. n # Len(out) => out' # << >>
    BY <1>2, <1>4
  <2>3. QED
    BY <1>1, <1>6, <2>1, <2>2 DEF Rounds
<1>9. QED
  BY <1>7, <1>8

\* A read of the client, and the next round's message if there is one.
LEMMA ClientReadsInv == Inv /\ ClientReads => Inv'
<1> SUFFICES ASSUME Inv, ClientReads PROVE Inv'
  OBVIOUS
<1> USE DEF Inv
<1>1. PICK n \in 1 .. Len(s2c) :
        got' = got \o Take(s2c, n) /\ s2c' = Drop(s2c, n)
  BY DEF ClientReads
<1>2. /\ Len(got) \in Nat /\ Len(s2c) \in Nat /\ Len(data) \in Nat
      /\ Len(c2s) \in Nat /\ sent \in Nat /\ i \in Nat
  BY Lengths
<1>3. /\ link = "up" /\ out = << >> /\ i < Count
      /\ sent = (i + 1) * MaxLength
  BY DEF ClientReads, Stream, Rounds
<1>4. /\ Run(Take(s2c, n), Len(got)) /\ Len(Take(s2c, n)) = n
      /\ Run(s2c', Len(got) + n) /\ Len(s2c') = Len(s2c) - n
  <2>1. Run(s2c, Len(got))
    BY DEF Stream
  <2> HIDE DEF Inv
  <2>2. QED
    BY <1>1, <1>2, <2>1, RunSplit
<1>5. Run(got', 0) /\ Len(got') = Len(got) + n
  <2>1. Run(Take(s2c, n), 0 + Len(got))
    BY <1>2, <1>4
  <2>2. Run(got, 0)
    BY DEF Stream
  <2>3. QED
    BY <1>1, <1>4, <2>1, <2>2, RunAppend
<1>6. Len(got') + Len(s2c') = Len(got) + Len(s2c)
  BY <1>2, <1>4, <1>5
<1>7. sent = Len(got) + Len(s2c) + Len(data) + Len(c2s)
  BY <1>2, <1>3 DEF Stream
<1>8. CASE RoundsDone(i + 1)
  <2>1. /\ client' = "finished" /\ sent' = sent /\ out' = out /\ i' = i + 1
        /\ UNCHANGED <<c2s, link, server, data>>
    BY <1>8 DEF ClientReads, serverVars
  <2>2. Stream'
    BY <1>3, <1>4, <1>5, <1>6, <1>7, <2>1 DEF Stream
  <2>3. Rounds'
    BY <1>2, <1>3, <1>5, <2>1, EchoAssumption DEF Rounds
  <2>4. QED
    BY <2>2, <2>3
<1>9. CASE ~RoundsDone(i + 1)
  <2>1. /\ BeginWrite /\ i' = i + 1
        /\ UNCHANGED <<c2s, link, server, data>>
    BY <1>9 DEF ClientReads, serverVars
  <2>2. Run(out', sent) /\ Len(out') = MaxLength /\ out' # << >>
    BY <1>2, <2>1, RunMessage DEF BeginWrite
  <2>3. sent' = sent + MaxLength /\ client' = "write"
    BY <2>1 DEF BeginWrite, WriteSize
  <2>4. Stream'
    <3>1. sent = Len(got)' + Len(s2c)' + Len(data)' + Len(c2s)'
      BY <1>6, <1>7, <2>1
    <3>2. Run(data', Len(got)' + Len(s2c)')
      BY <1>3, <1>6, <2>1 DEF Stream
    <3>3. Run(c2s', Len(got)' + Len(s2c)' + Len(data)')
      BY <1>3, <1>6, <2>1 DEF Stream
    <3>4. Run(out', Len(got)' + Len(s2c)' + Len(data)' + Len(c2s)')
      BY <2>2, <3>1
    <3>5. sent' = Len(got)' + Len(s2c)' + Len(data)' + Len(c2s)' + Len(out)'
      BY <2>2, <2>3, <3>1
    <3>6. out' \in Seq(Nat)
      BY <2>2 DEF Run
    <3>7. QED
      BY <1>3, <1>4, <1>5, <2>1, <3>2, <3>3, <3>4, <3>5, <3>6 DEF Stream
  <2>5. Rounds'
    <3>1. i + 1 < Count
      BY <1>2, <1>9, EchoAssumption DEF RoundsDone
    <3>2. (i + 1 + 1) * MaxLength = (i + 1) * MaxLength + MaxLength
      BY <1>2, EchoAssumption
    <3>3. QED
      BY <1>2, <1>3, <1>5, <2>1, <2>2, <2>3, <3>1, <3>2, EchoAssumption
      DEF Rounds
  <2>6. QED
    BY <2>4, <2>5
<1>10. QED
  BY <1>8, <1>9

\* The session echoes what it reads.
LEMMA ServerReadsInv == Inv /\ ServerReads => Inv'
<1> SUFFICES ASSUME Inv, ServerReads PROVE Inv'
  OBVIOUS
<1> USE DEF Inv
<1>1. PICK n \in 1 .. Len(c2s) : data' = Take(c2s, n) /\ c2s' = Drop(c2s, n)
  BY DEF ServerReads, Echo
<1>2. Len(got) \in Nat /\ Len(s2c) \in Nat /\ Len(c2s) \in Nat
  BY Lengths
<1>3. /\ data' \in Seq(Nat) /\ Len(data') = n /\ data' # << >>
      /\ c2s' \in Seq(Nat) /\ Len(c2s') = Len(c2s) - n
  <2>1. c2s \in Seq(Nat)
    BY DEF Stream
  <2>2. /\ data' \in Seq(Nat) /\ Len(data') = n
        /\ c2s' \in Seq(Nat) /\ Len(c2s') = Len(c2s) - n
    BY <1>1, <2>1, SplitSeq
  <2>3. QED
    BY <2>2
<1>4. /\ UNCHANGED <<got, s2c, link, out, sent, client, i>>
      /\ server = "read" /\ server' = "write"
      /\ c2s # << >>
  BY DEF ServerReads, clientVars
<1>5. CASE link = "up"
  <2> DEFINE b == Len(got) + Len(s2c)
  <2>1. data = << >> /\ Len(data) = 0
    BY <1>4, <1>5 DEF Rounds
  <2>2. /\ Run(c2s, b) /\ Run(out, b + Len(c2s))
        /\ sent = b + Len(c2s) + Len(out)
    BY <1>2, <1>5, <2>1 DEF Stream
  <2>3. Run(data', b) /\ Run(c2s', b + n)
    BY <1>1, <1>2, <2>2, RunSplit
  <2>4. Run(c2s', b + Len(data')) /\ n + Len(c2s') = Len(c2s)
    BY <1>2, <1>3, <2>3
  <2>5. b + Len(data') + Len(c2s') = b + Len(c2s)
    BY <1>2, <1>3
  <2>6. Stream'
    BY <1>3, <1>4, <1>5, <2>2, <2>3, <2>4, <2>5 DEF Stream
  <2>7. Rounds'
    BY <1>3, <1>4, <1>5 DEF Rounds
  <2>8. QED
    BY <2>6, <2>7
<1>6. CASE link # "up"
  <2>1. link # "none"
    BY <1>4 DEF Stream
  <2>2. Stream'
    BY <1>3, <1>4, <1>6, <2>1 DEF Stream
  <2>3. Rounds'
    BY <1>4, <1>6 DEF Rounds
  <2>4. QED
    BY <2>2, <2>3
<1>7. QED
  BY <1>5, <1>6

\* One write_some of the session's async_write.
LEMMA ServerWritesInv == Inv /\ ServerWrites => Inv'
<1> SUFFICES ASSUME Inv, ServerWrites PROVE Inv'
  OBVIOUS
<1> USE DEF Inv
<1>1. PICK n \in 1 .. Len(data) :
        /\ s2c' = s2c \o Take(data, n)
        /\ data' = Drop(data, n)
        /\ server' = IF n = Len(data) THEN "read" ELSE "write"
  BY DEF ServerWrites
<1>2. /\ Len(got) \in Nat /\ Len(s2c) \in Nat /\ Len(data) \in Nat
      /\ Len(c2s) \in Nat /\ Len(out) \in Nat
  BY Lengths
<1>3. /\ UNCHANGED <<got, c2s, link, out, sent, client, i>>
      /\ link = "up" /\ server = "write"
  BY DEF ServerWrites, clientVars
<1>4. Run(s2c, Len(got)) /\ Run(data, Len(got) + Len(s2c))
  BY <1>3 DEF Stream
<1>5. /\ Run(Take(data, n), Len(got) + Len(s2c)) /\ Len(Take(data, n)) = n
      /\ Run(data', Len(got) + Len(s2c) + n) /\ Len(data') = Len(data) - n
  BY <1>1, <1>2, <1>4, RunSplit
<1>6. Run(s2c', Len(got)) /\ Len(s2c') = Len(s2c) + n
  BY <1>1, <1>2, <1>4, <1>5, RunAppend
<1>7. Stream'
  <2>1. data' \in Seq(Nat)
    BY <1>5 DEF Run
  <2>2. Run(data', Len(got) + Len(s2c'))
    BY <1>2, <1>5, <1>6
  <2>3. Len(got) + Len(s2c') + Len(data') = Len(got) + Len(s2c) + Len(data)
    BY <1>2, <1>5, <1>6
  <2>4. QED
    BY <1>3, <1>6, <2>1, <2>2, <2>3 DEF Stream
<1>8. Rounds'
  <2>1. n = Len(data) => data' = << >>
    BY <1>5 DEF Run
  <2>2. n # Len(data) => data' # << >>
    BY <1>2, <1>5
  <2>3. QED
    BY <1>1, <1>3, <2>1, <2>2 DEF Rounds
<1>9. QED
  BY <1>7, <1>8

\* The steps on a connection that is not up, and those that move no bytes.
LEMMA QuietStepsInv ==
  ASSUME Inv,
         \/ ConnectFails \/ ClientWriteFails \/ ClientReadFails \/ Finish
         \/ RunReturns \/ BlockingWaitReturns \/ JoinReturns \/ TimerFires
         \/ ServerReadFails \/ ServerWritesInVain \/ Reset
         \/ UNCHANGED vars
  PROVE  Inv'
<1> USE DEF Inv
<1>0. Len(got) \in Nat /\ Run(<< >>, Len(got))
  BY Lengths, RunEmpty
<1>1. CASE ConnectFails \/ ClientReadFails
  BY <1>1 DEF ConnectFails, ClientReadFails, Stream, Rounds, serverVars
<1>2. CASE ClientWriteFails
  BY <1>2 DEF ClientWriteFails, Stream, Rounds, serverVars
<1>3. CASE Finish
  BY <1>0, <1>3 DEF Finish, Stream, Rounds, serverVars
<1>4. CASE RunReturns \/ BlockingWaitReturns \/ JoinReturns
  BY <1>4 DEF RunReturns, BlockingWaitReturns, JoinReturns, Stream, Rounds,
              clientVars, serverVars
<1>5. CASE TimerFires
  BY <1>5 DEF TimerFires, Stream, Rounds, clientVars
<1>6. CASE ServerReadFails
  BY <1>6 DEF ServerReadFails, Stream, Rounds, clientVars, AfterReadError
<1>7. CASE ServerWritesInVain
  BY <1>7 DEF ServerWritesInVain, Stream, Rounds, clientVars
<1>8. CASE Reset
  BY <1>0, <1>8 DEF Reset, Stream, Rounds, clientVars, serverVars
<1>9. CASE UNCHANGED vars
  BY <1>9 DEF vars, Stream, Rounds, clientVars, serverVars
<1>10. QED
  BY <1>1, <1>2, <1>3, <1>4, <1>5, <1>6, <1>7, <1>8, <1>9

\* The inductive invariant holds of every run of the two programs.
THEOREM Invariance == Spec => []Inv
<1>1. Inv /\ [Next]_vars => Inv'
  BY ConnectInv, ClientWritesInv, ClientReadsInv, ServerReadsInv,
     ServerWritesInv, QuietStepsInv
  DEF Next
<1>2. QED
  BY <1>1, InitInv, PTL DEF Spec, SafeSpec

\* The client reads what it wrote, in order, whatever the sizes of messages and
\* buffers and however reads and writes are split.
THEOREM EchoCorrect == Spec => []EchoPrefix
<1>1. Inv => EchoPrefix
  BY DEF Inv, Stream, Run, EchoPrefix
<1>2. QED
  BY <1>1, Invariance, PTL

\* Client and session never block each other in their writes when the two
\* directions together can hold Count * (MaxLength - 1) bytes.
THEOREM NeverMutuallyBlocked == Spec => []NoMutualBlock
<1>1. Inv => NoMutualBlock
  <2> SUFFICES ASSUME Inv, client = "write", Len(c2s) = Cap,
                      server = "write", Len(s2c) = Cap, link = "up"
               PROVE  FALSE
    BY DEF NoMutualBlock
  <2>1. /\ Len(got) \in Nat /\ Len(data) \in Nat /\ Len(out) \in Nat
        /\ i \in Nat
    BY Lengths
  <2>2. i < Count /\ sent = (i + 1) * MaxLength /\ Len(got) >= i
    BY DEF Inv, Rounds
  <2>3. sent = Len(got) + Len(s2c) + Len(data) + Len(c2s) + Len(out)
    BY DEF Inv, Stream
  <2>4. Len(data) >= 1 /\ Len(out) >= 1
    <3>1. /\ data # << >> /\ out # << >>
          /\ data \in Seq(Nat) /\ out \in Seq(Nat)
      BY DEF Inv, Rounds, Stream
    <3>2. QED
      BY <3>1
  <2>5. (i + 1) * MaxLength >= i + 2 * Cap + 2
    BY <2>1, <2>2, <2>3, <2>4, EchoAssumption
  <2>6. (i + 1) * MaxLength = (i + 1) * (MaxLength - 1) + i + 1
    BY <2>1, EchoAssumption
  <2>7. (i + 1) * (MaxLength - 1) <= Count * (MaxLength - 1)
    BY <2>1, <2>2, EchoAssumption
  <2>8. QED
    BY <2>1, <2>5, <2>6, <2>7, EchoAssumption
<1>2. QED
  BY <1>1, Invariance, PTL

\* Splitting a sequence of the client's bytes.
LEMMA SplitBytes ==
  ASSUME NEW s \in Seq(Byte), NEW n \in 1 .. Len(s)
  PROVE  /\ Take(s, n) \in Seq(Byte) /\ Len(Take(s, n)) = n
         /\ Drop(s, n) \in Seq(Byte) /\ Len(Drop(s, n)) = Len(s) - n
         /\ n \in Nat /\ Len(s) \in Nat
BY DEF Take, Drop

\* Joining them.
LEMMA JoinBytes ==
  ASSUME NEW s \in Seq(Byte), NEW t \in Seq(Byte)
  PROVE  s \o t \in Seq(Byte) /\ Len(s \o t) = Len(s) + Len(t)
OBVIOUS

\* The messages of the rounds so far are some of all.
LEMMA RoundsBound ==
  ASSUME NEW k \in 0 .. Count, k < Count
  PROVE  (k + 1) * MaxLength <= Count * MaxLength /\ Count * MaxLength \in Nat
<1>1. Count - (k + 1) \in Nat /\ MaxLength \in Nat /\ Count \in Nat /\ k \in Nat
  BY EchoAssumption
<1>2. (Count - (k + 1)) * MaxLength >= 0
  BY <1>1
<1>3. Count * MaxLength = (Count - (k + 1)) * MaxLength + (k + 1) * MaxLength
  BY <1>1
<1>4. QED
  BY <1>1, <1>2, <1>3

\* What the client's async_write starts with: bytes it has not sent before, of
\* the Count messages there are.
LEMMA BeginWriteTypes ==
  ASSUME Inv, Inv', TypeOK, BeginWrite
  PROVE  /\ sent' \in 0 .. Count * MaxLength
         /\ out' \in Seq(Byte) /\ Len(out') <= MaxLength
<1>1. client' = "write" /\ sent' = sent + MaxLength /\ sent \in Nat
  BY DEF BeginWrite, WriteSize, TypeOK
<1>2. i' \in 0 .. Count /\ i' < Count /\ sent' = (i' + 1) * MaxLength
  BY <1>1 DEF Inv, Rounds
<1>3. sent' <= Count * MaxLength /\ Count * MaxLength \in Nat
  BY <1>2, RoundsBound
<1>4. sent' \in 0 .. Count * MaxLength
  BY <1>1, <1>3, EchoAssumption
<1>5. \A j \in 1 .. MaxLength : sent + j \in Byte
  BY <1>1, <1>4, EchoAssumption DEF Byte
<1>6. out' = [j \in 1 .. MaxLength |-> sent + j]
  BY DEF BeginWrite, WriteSize
<1>7. QED
  BY <1>4, <1>5, <1>6, EchoAssumption

\* A byte is one of those the client writes, wherever it is, and the buffers
\* of the two programs and of the kernels are never overrun.
THEOREM TypeCorrect == Spec => []TypeOK
<1>1. Init => TypeOK
  BY EchoAssumption DEF Init, TypeOK
<1>2. TypeOK /\ Inv /\ Inv' /\ [Next]_vars => TypeOK'
  <2> SUFFICES ASSUME TypeOK, Inv, Inv', [Next]_vars PROVE TypeOK'
    OBVIOUS
  <2>1. CASE Connect
    BY <2>1, BeginWriteTypes DEF Connect, BeginWrite, TypeOK, mainVars
  <2>2. CASE ClientWrites
    <3>1. PICK n \in 1 .. Len(out) :
            /\ Len(c2s) + n <= Cap
            /\ c2s' = c2s \o Take(out, n)
            /\ out' = Drop(out, n)
            /\ client' = IF n = Len(out) THEN "read" ELSE "write"
      BY <2>2 DEF ClientWrites
    <3>2. out \in Seq(Byte) /\ c2s \in Seq(Byte) /\ Len(out) <= MaxLength
      BY DEF TypeOK
    <3>3. out' \in Seq(Byte) /\ Len(out') <= MaxLength
      BY <3>1, <3>2, SplitBytes, EchoAssumption
    <3>4. c2s' \in Seq(Byte) /\ Len(c2s') <= Cap
      <4>1. Take(out, n) \in Seq(Byte) /\ Len(Take(out, n)) = n
        BY <3>1, <3>2, SplitBytes
      <4>2. c2s' \in Seq(Byte) /\ Len(c2s') = Len(c2s) + n
        BY <3>1, <3>2, <4>1, JoinBytes
      <4>3. QED
        BY <3>1, <4>2
    <3>5. QED
      BY <2>2, <3>1, <3>3, <3>4 DEF ClientWrites, TypeOK, serverVars, mainVars
  <2>3. CASE ClientReads
    <3>1. PICK n \in 1 .. Len(s2c) :
            /\ got' = got \o Take(s2c, n)
            /\ s2c' = Drop(s2c, n)
      BY <2>3 DEF ClientReads
    <3>2. s2c \in Seq(Byte) /\ got \in Seq(Byte) /\ Len(s2c) <= Cap
      BY DEF TypeOK
    <3>3. got' \in Seq(Byte) /\ s2c' \in Seq(Byte) /\ Len(s2c') <= Cap
      BY <3>1, <3>2, SplitBytes, JoinBytes, EchoAssumption
    <3>4. i' \in 0 .. Count
      BY DEF Inv, Rounds
    <3>5. /\ sent' \in 0 .. Count * MaxLength
          /\ out' \in Seq(Byte) /\ Len(out') <= MaxLength
          /\ client' \in {"write", "finished"}
      BY <2>3, BeginWriteTypes DEF ClientReads, TypeOK, BeginWrite
    <3>6. QED
      BY <2>3, <3>3, <3>4, <3>5 DEF ClientReads, TypeOK, serverVars, mainVars
  <2>4. CASE ServerReads
    <3>1. PICK n \in 1 .. Len(c2s) :
            /\ n <= MaxLength /\ data' = Take(c2s, n) /\ c2s' = Drop(c2s, n)
      BY <2>4 DEF ServerReads, Echo
    <3>2. c2s \in Seq(Byte) /\ Len(c2s) <= Cap
      BY DEF TypeOK
    <3>3. /\ data' \in Seq(Byte) /\ Len(data') <= MaxLength
          /\ c2s' \in Seq(Byte) /\ Len(c2s') <= Cap
      BY <3>1, <3>2, SplitBytes, EchoAssumption
    <3>4. QED
      BY <2>4, <3>3 DEF ServerReads, TypeOK, clientVars, mainVars
  <2>5. CASE ServerWrites
    <3>1. PICK n \in 1 .. Len(data) :
            /\ Len(s2c) + n <= Cap
            /\ s2c' = s2c \o Take(data, n)
            /\ data' = Drop(data, n)
            /\ server' = IF n = Len(data) THEN "read" ELSE "write"
      BY <2>5 DEF ServerWrites
    <3>2. data \in Seq(Byte) /\ s2c \in Seq(Byte) /\ Len(data) <= MaxLength
      BY DEF TypeOK
    <3>3. data' \in Seq(Byte) /\ Len(data') <= MaxLength
      BY <3>1, <3>2, SplitBytes, EchoAssumption
    <3>4. s2c' \in Seq(Byte) /\ Len(s2c') <= Cap
      <4>1. Take(data, n) \in Seq(Byte) /\ Len(Take(data, n)) = n
        BY <3>1, <3>2, SplitBytes
      <4>2. s2c' \in Seq(Byte) /\ Len(s2c') = Len(s2c) + n
        BY <3>1, <3>2, <4>1, JoinBytes
      <4>3. QED
        BY <3>1, <4>2
    <3>5. QED
      BY <2>5, <3>1, <3>3, <3>4 DEF ServerWrites, TypeOK, clientVars, mainVars
  <2>0. << >> \in Seq(Byte) /\ Len(<< >>) <= MaxLength /\ Len(<< >>) <= Cap
    BY EchoAssumption
  <2>6. CASE ConnectFails \/ ClientReadFails \/ TimerFires \/ ServerReadFails
    BY <2>6
    DEF ConnectFails, ClientReadFails, TimerFires, ServerReadFails, AfterReadError,
        TypeOK, clientVars, serverVars, mainVars
  <2>7. CASE RunReturns \/ BlockingWaitReturns \/ JoinReturns
    BY <2>7
    DEF RunReturns, BlockingWaitReturns, JoinReturns, TypeOK, clientVars, serverVars
  <2>8. CASE ClientWriteFails
    BY <2>0, <2>8 DEF ClientWriteFails, TypeOK, serverVars, mainVars
  <2>9. CASE Finish
    BY <2>0, <2>9 DEF Finish, StopIoContext, TypeOK, serverVars, mainVars
  <2>10. CASE ServerWritesInVain
    BY <2>0, <2>10 DEF ServerWritesInVain, TypeOK, clientVars, mainVars
  <2>11. CASE Reset
    BY <2>0, <2>11 DEF Reset, TypeOK, clientVars, serverVars, mainVars
  <2>12. CASE UNCHANGED vars
    BY <2>12 DEF vars, TypeOK, clientVars, serverVars, mainVars
  <2>13. QED
    BY <2>1, <2>2, <2>3, <2>4, <2>5, <2>6, <2>7, <2>8, <2>9, <2>10, <2>11, <2>12
    DEF Next
<1>3. QED
  BY <1>1, <1>2, Invariance, PTL DEF Spec, SafeSpec
=============================================================================
