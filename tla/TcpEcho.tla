------------------------------ MODULE TcpEcho ------------------------------
(***************************************************************************)
(* One run of src/test_tcp_client.cpp against one session of               *)
(* src/test_tcp_server.cpp: what travels over the connection, and how the  *)
(* client program ends.                                                    *)
(*                                                                         *)
(* A byte is its position in the client's output.  Each direction of the   *)
(* connection is a FIFO held by the two kernels, of at most Cap bytes.  A  *)
(* read_some or one write_some of a composed async_write moves any number  *)
(* of bytes the kernels allow.  Which thread runs which callback is the    *)
(* subject of module TcpServer.                                            *)
(***************************************************************************)
EXTENDS Integers, Sequences

CONSTANTS
  Count,       \* count: rounds of the client's loop
  MaxLength,   \* max_length, the same 1024 in both programs
  Cap          \* bytes the kernels hold for one direction

\* 2 * Cap >= 100 * 1023 holds for the default loopback buffers.
ASSUME EchoAssumption ==
  /\ Count \in Nat \ {0} /\ MaxLength \in Nat \ {0} /\ Cap \in Nat \ {0}
  /\ 2 * Cap >= Count * (MaxLength - 1)

VARIABLES
  client,   \* where the coroutine start() is
  i,        \* its loop counter
  sent,     \* bytes handed to async_write so far
  out,      \* rest of the current async_write
  c2s, s2c, \* the two directions
  got,      \* history: everything the client has read
  link,     \* "none", "up", "shut" (client shut it down) or "broken"
  server,   \* where the session is
  data,     \* rest of the session's current async_write
  io,       \* the client's io_context thread: "run", "stopped", "exited"
  main      \* the client's main(): "blocking", "joining" or "exited"

clientVars == <<client, i, sent, out, got>>
serverVars == <<server, data>>
mainVars == <<io, main>>
vars == <<clientVars, c2s, s2c, link, serverVars, mainVars>>

Byte == 1 .. Count * MaxLength

TypeOK ==
  /\ client \in {"connecting", "write", "read", "finished", "returned"}
  /\ i \in 0 .. Count
  /\ sent \in 0 .. Count * MaxLength
  /\ out \in Seq(Byte) /\ Len(out) <= MaxLength
  /\ c2s \in Seq(Byte) /\ Len(c2s) <= Cap
  /\ s2c \in Seq(Byte) /\ Len(s2c) <= Cap
  /\ got \in Seq(Byte)
  /\ link \in {"none", "up", "shut", "broken"}
  /\ server \in {"none", "timer", "read", "write", "closed"}
  /\ data \in Seq(Byte) /\ Len(data) <= MaxLength
  /\ io \in {"run", "stopped", "exited"}
  /\ main \in {"blocking", "joining", "exited"}

Init ==
  /\ client = "connecting" /\ i = 0 /\ sent = 0 /\ out = << >> /\ got = << >>
  /\ c2s = << >> /\ s2c = << >> /\ link = "none"
  /\ server = "none" /\ data = << >>
  /\ io = "run" /\ main = "blocking"

Drop(s, n) == SubSeq(s, n + 1, Len(s))
Take(s, n) == SubSeq(s, 1, n)
-----------------------------------------------------------------------------
(* The client's coroutine. *)

M_WriteSize == MaxLength + 1
\* boost::asio::buffer(write_buf, max_length)
WriteSize == MaxLength

\* Start the next async_write.
BeginWrite ==
  /\ client' = "write"
  /\ out' = [j \in 1 .. WriteSize |-> sent + j]
  /\ sent' = sent + WriteSize

\* async_connect succeeds; the server accepts and starts the session.
Connect ==
  /\ client = "connecting"
  /\ link' = "up"
  /\ server' = "timer"
  /\ BeginWrite
  /\ UNCHANGED <<i, got, c2s, s2c, data, mainVars>>

\* async_connect fails: the error is logged and the coroutine returns.
ConnectFails ==
  /\ client = "connecting"
  /\ client' = "returned"
  /\ UNCHANGED <<i, sent, out, got, c2s, s2c, link, serverVars, mainVars>>

\* async_write, one write_some at a time; the co_await resumes after the last.
ClientWrites ==
  /\ client = "write" /\ link = "up"
  /\ \E n \in 1 .. Len(out) :
       /\ Len(c2s) + n <= Cap
       /\ c2s' = c2s \o Take(out, n)
       /\ out' = Drop(out, n)
       /\ client' = IF n = Len(out) THEN "read" ELSE "write"
  /\ UNCHANGED <<i, sent, got, s2c, link, serverVars, mainVars>>

\* async_write fails; its result is not looked at.
ClientWriteFails ==
  /\ client = "write" /\ link = "broken"
  /\ out' = << >>
  /\ client' = "read"
  /\ UNCHANGED <<i, sent, got, c2s, s2c, link, serverVars, mainVars>>

\* The loop ends after count rounds, whatever the reads returned.
RoundsDone(n) == n >= Count

\* async_read_some returns what is there, up to max_length bytes.
ClientReads ==
  /\ client = "read" /\ s2c # << >>
  /\ \E n \in 1 .. Len(s2c) :
       /\ n <= MaxLength
       /\ got' = got \o Take(s2c, n)
       /\ s2c' = Drop(s2c, n)
  /\ i' = i + 1
  /\ \/ RoundsDone(i + 1) /\ client' = "finished" /\ UNCHANGED <<sent, out>>
     \/ ~RoundsDone(i + 1) /\ BeginWrite
  /\ UNCHANGED <<c2s, link, serverVars, mainVars>>

\* async_read_some fails, with eof or another error: both break the loop.
ClientReadFails ==
  /\ client = "read" /\ link = "broken" /\ s2c = << >>
  /\ client' = "finished"
  /\ UNCHANGED <<i, sent, out, got, c2s, s2c, link, serverVars, mainVars>>

M_StopIoContext == io
\* io_context.stop()
StopIoContext == "stopped"

\* After the loop: shutdown_both, io_context.stop(), and the socket's
\* destructor.  Whatever was not read is lost.
Finish ==
  /\ client = "finished"
  /\ link' = IF link = "up" THEN "shut" ELSE link
  /\ s2c' = << >>
  /\ io' = StopIoContext
  /\ client' = "returned"
  /\ UNCHANGED <<i, sent, out, got, c2s, serverVars, main>>
-----------------------------------------------------------------------------
(* The client's main() and the thread thd. *)

\* io_context.run() returns in thd; until then its work object keeps it.
RunReturns ==
  /\ io = "stopped"
  /\ io' = "exited"
  /\ UNCHANGED <<clientVars, c2s, s2c, link, serverVars, main>>

BlockingWaitReturns ==
  /\ main = "blocking" /\ client = "returned"
  /\ main' = "joining"
  /\ UNCHANGED <<clientVars, c2s, s2c, link, serverVars, io>>

\* thd.join(), and main() returns.
JoinReturns ==
  /\ main = "joining" /\ io = "exited"
  /\ main' = "exited"
  /\ UNCHANGED <<clientVars, c2s, s2c, link, serverVars, io>>
-----------------------------------------------------------------------------
(* The server's session. *)

\* timeout(steady_timer): two seconds in which the client may already write.
TimerFires ==
  /\ server = "timer"
  /\ server' = "read"
  /\ UNCHANGED <<clientVars, c2s, s2c, link, data, mainVars>>

M_Echo(n) == [j \in 1 .. MaxLength |-> IF j <= n THEN c2s[j] ELSE 1]
\* boost::asio::buffer(data, length): the bytes just read and no others.
Echo(n) == Take(c2s, n)

ServerReads ==
  /\ server = "read" /\ c2s # << >>
  /\ \E n \in 1 .. Len(c2s) :
       /\ n <= MaxLength
       /\ data' = Echo(n)
       /\ c2s' = Drop(c2s, n)
  /\ server' = "write"
  /\ UNCHANGED <<clientVars, s2c, link, mainVars>>

M_AfterReadError == "read"
\* A read error breaks the loop; shutdown_both and close follow.
AfterReadError == "closed"

ServerReadFails ==
  /\ server = "read" /\ c2s = << >> /\ link \in {"shut", "broken"}
  /\ server' = AfterReadError
  /\ UNCHANGED <<clientVars, c2s, s2c, link, data, mainVars>>

ServerWrites ==
  /\ server = "write" /\ link = "up"
  /\ \E n \in 1 .. Len(data) :
       /\ Len(s2c) + n <= Cap
       /\ s2c' = s2c \o Take(data, n)
       /\ data' = Drop(data, n)
       /\ server' = IF n = Len(data) THEN "read" ELSE "write"
  /\ UNCHANGED <<clientVars, c2s, link, mainVars>>

\* async_write to a peer that is gone ends, with or without an error: its
\* result is not looked at.
ServerWritesInVain ==
  /\ server = "write" /\ link \in {"shut", "broken"}
  /\ data' = << >>
  /\ server' = "read"
  /\ UNCHANGED <<clientVars, c2s, s2c, link, mainVars>>

\* The connection is reset: by the network while it is up, or by the kernel of
\* a client that went away without reading everything.
Reset ==
  /\ link \in {"up", "shut"}
  /\ link' = "broken"
  /\ c2s' = << >> /\ s2c' = << >>
  /\ UNCHANGED <<clientVars, serverVars, mainVars>>

Next ==
  \/ Connect
  \/ ConnectFails
  \/ ClientWrites
  \/ ClientWriteFails
  \/ ClientReads
  \/ ClientReadFails
  \/ Finish
  \/ RunReturns
  \/ BlockingWaitReturns
  \/ JoinReturns
  \/ TimerFires
  \/ ServerReads
  \/ ServerReadFails
  \/ ServerWrites
  \/ ServerWritesInVain
  \/ Reset

SafeSpec == Init /\ [][Next]_vars

\* Threads run, the timer expires, async_connect ends and the kernels move
\* bytes while there is room.
Fairness ==
  /\ WF_vars(Connect \/ ConnectFails)
  /\ WF_vars(ClientWrites \/ ClientWriteFails)
  /\ WF_vars(ClientReads \/ ClientReadFails)
  /\ WF_vars(Finish)
  /\ WF_vars(RunReturns) /\ WF_vars(BlockingWaitReturns)
  /\ WF_vars(JoinReturns)
  /\ WF_vars(TimerFires)
  /\ WF_vars(ServerReads \/ ServerReadFails)
  /\ WF_vars(ServerWrites \/ ServerWritesInVain)

Spec == SafeSpec /\ Fairness
-----------------------------------------------------------------------------
\* What the client reads is what it wrote, in order, nothing missing and
\* nothing added, although neither side looks at the length of its reads and
\* writes: echoes lag behind and split as the kernels please.
EchoPrefix == \A j \in 1 .. Len(got) : got[j] = j

\* Client and session never wait for each other: the client's async_write for
\* room the session would make by reading, the session's async_write for room
\* the client would make by reading.
NoMutualBlock ==
  ~ /\ client = "write" /\ Len(c2s) = Cap
    /\ server = "write" /\ Len(s2c) = Cap
    /\ link = "up"

\* Once connected the client program ends, however the reads are split and
\* whenever the connection breaks.
ConnectedClientExits == link = "up" ~> main = "exited"

\* The session notices that its client is gone, in its wait, its read or its
\* write, and closes its socket.
SessionCloses == link \in {"shut", "broken"} ~> server = "closed"

\* What main() of test_tcp_client.cpp says of itself: blockingWait() is
\* followed by thd.join() and return 0, with or without a connection.
MainExits == <>(main = "exited")
=============================================================================
