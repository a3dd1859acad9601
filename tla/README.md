# Verification of the example programs

TLA+ models of the concurrent parts of this repository, checked with TLC on
small instances and, where that is possible, proved with TLAPS for all values
of the constants.

The repository is a collection of programs that try out asynchronous C++
libraries: boost::asio and folly coroutines, gRPC, boost::mysql, redis++,
Drogon, folly executors, AWS. What they have of their own, and what these
modules are about, is the glue: a pool of `io_context`s, awaiters that turn
callbacks into coroutine resumptions, an executor, the accept loop and its
sessions, the client that talks to them, the state machine of a gRPC service,
the messages it exchanges, and the coroutines that take a database through a
sequence of statements.

## Inventory

| part | source | state | operations | interacts with |
|---|---|---|---|---|
| io_context pool | `include/io_context_pool.h` | contexts, tracked work, next index, threads | constructor, `start`, `getIoContext`, `stop` | used by the TCP server and the MySQL program |
| awaiters, Executor | `include/asio_util.hpp` | `m_ec`, `size_` in the coroutine frame | `await_suspend`, callback, `await_resume`; `Executor::add` | called by the coroutines on one thread, called back by asio on another |
| TCP server | `src/test_tcp_server.cpp` | acceptor, executor map, one coroutine per session | accept loop, session, start-up | pool, awaiters, clients |
| TCP client | `src/test_tcp_client.cpp` | socket, loop counter, io_context thread | connect, write/read rounds, shutdown, join | server |
| greeter server | `include/greeter_async_server.h` | `CallData` objects, completion queue | `Run`, `HandleRpcs`, `Proceed` | gRPC runtime |
| greeter client | `include/greeter_async_client.h` | one pending call | `SayHello` | gRPC runtime |
| messages | `include/helloworld.pb.h`, `src/helloworld.pb.cc` | a string owned by message, arena or user; unknown fields | construct, destroy, accessors, copy, move, swap, merge, clear, parse, serialise | used by the greeter; the peer's bytes |
| gRPC stubs | `include/helloworld.grpc.pb.h`, `src/helloworld.grpc.pb.cc` | - | forward to gRPC | greeter, gRPC runtime |
| MySQL program | `src/test_boost_mysql.cpp` | connection, table in the database | resolve, connect, drop, create, insert, select | pool, database |
| Redis program | `src/test_redis++.cpp` | future, result or exception | continuation, resume | redis++ threads, boost thread pool |
| Drogon program | `src/test_drogon.cpp` | client pool index, WebSocket | `get_http_client`, callbacks | Drogon loops |
| folly scenarios | `src/test_folly.cpp` | futures, SharedMutex, scope, timeout | the scenarios in `main` | thread pool, timekeeper |
| umbrella program | `src/test.cpp` | - | sqlpp statements, starts greeter server and client, repeats the other tests | all of them |
| Lambda handler | `src/test_aws_lambda.cpp` | none between requests | one handler | AWS runtime |

Hard behaviours: callbacks on one thread that resume coroutines of another;
the pool's `start()` overlapping its first use; stopping and joining; partial
reads and full kernel buffers; errors that are ignored and errors that leave by
an early `co_return`; objects that delete themselves while other threads hold
events naming them; clients that go away; a table that outlives a crashed run;
exceptions that get lost between two threads; strings that change owner, between
memory that is freed piece by piece and memory that goes all at once; bytes of a
peer of another version. `PROJECT.json` lists each at its line
under "hazards", with the properties that watch it.

## Modules

| module | models | composes |
|---|---|---|
| `IoContextPool` | the pool, its owner and its threads | |
| `IoContextPoolProofs` | theorems about it | |
| `TcpServer` | accept loop, sessions, awaiters and Executor over the threads of the pool | `IoContextPool` by `INSTANCE`, shown to be used as specified (`PoolUse`) |
| `TcpServerProofs` | theorems about it, the use of the pool included | |
| `TcpEcho` | the client program and one session, byte by byte | |
| `TcpEchoProofs` | theorems about it | |
| `Greeter` | server threads, `CallData` objects, gRPC runtime, clients | implements `GreeterService` (`Greets`) |
| `GreeterService` | what a caller of `SayHello` may rely on | |
| `GreeterProofs` | theorems about `Greeter`, the refinement included | |
| `HelloWire` | the bytes of `HelloRequest` and `HelloReply`: parsing, serialising, sizes, merging, as operators | |
| `HelloWireProofs` | theorems about it, for every byte string and message | |
| `HelloMessage` | messages and their strings in memory | extends `HelloWire`, whose parser and merge it uses |
| `HelloMessageProofs` | theorems about it | extends `HelloWireProofs` |
| `MysqlSession` | the MySQL program's runs over one database | `IoContextPool` by `INSTANCE`: its actions are the pool's steps |
| `MysqlSessionProofs` | theorems about it | `IoContextPoolProofs` by `INSTANCE` |
| `RedisAwaiter` | both `FutureAwaiter`s, the continuations, the Redis program | |
| `RedisAwaiterProofs` | theorems about it | |
| `MC...` | the instances TLC checks | |

A definition named `M_X` is a faulty variant of the definition `X` after it: it
documents what kind of slip a property notices (each property has one, see
"mutants" in `PROJECT.json`).

### IoContextPool

`m_next_io_context`, `m_work`, `m_threads` are the class's members; `thread`,
`stopped` and `queue` are what boost::asio keeps per context; `owner` and
`cursor` say where the owner is in `stop()`; `handed` is history. `StartThread`
is one iteration of `start()`, `RunHandler` and `HandlerReturns` the begin and
the end of a handler (the thread is "busy" in between), `StopContext` and `JoinThread` one iteration of
the two loops of `stop()`. `run()` returns (`RunReturns`) when the context is
stopped or idle without tracked work. Both users call `stop()` only after
`start()` has returned, which is the guard of `CallStop`; `start()` and
`getIoContext()` may overlap, as they do in the TCP server.

### TcpServer

Each `co_await` is three steps on possibly three threads: the coroutine starts
the operation, the operation completes and its callback is queued on the
context of the I/O object, the callback stores `m_ec` and queues the coroutine
on its own executor. `ready` holds both kinds of queue entries, `at` says what
each session awaits, `pending` which operations are outstanding, `running` the
handler each pool thread is in. Peers connect,
send and close at any time; a write to an open peer may take for ever.
An exception out of `start()` unwinds `main()` while `thd` is joinable
(`Unwind`). `pool.stop()` and `thd.join()` after `blockingWait` are unreachable,
since `start()` never returns.

### TcpEcho

Bytes are numbered by their position in the client's output; each direction of
the connection is a FIFO of at most `Cap` bytes. Reads and the single
`write_some`s of a composed `async_write` move any number of bytes that is
possible. The connection may be reset at any time and `async_connect` may fail.

### Greeter

A `CallData` is an address that `delete` frees and `new` may return again. Each
statement of `Proceed()` that touches the object or the runtime is a step;
`pc`, `tag` and `fresh` are a thread's next statement, the object it proceeds
with and the one it constructs. Any number of threads runs `HandleRpcs()`: its
comment says "This can be run in multiple threads if needed", and the program
runs one. The completion queue is a set of events `<<tag, ok>>`; order does not
matter to the code. A call that starts before the server listens, or is waiting
when the server aborts, fails; a client may go away while it waits, after which
`Finish` completes with `ok = FALSE`, as gRPC specifies. `BuildAndStart()` may
return null (the port is taken); `Run()` goes on all the same, and the first
`RequestSayHello()` uses a server that is gone: the process ends, or asks for
calls that nobody accepts. `GreeterService` lets callers leave; with `left`
mapped to `dropped`, `Greets` says that everyone else gets one answer, also from
a server that dies or never started.

### HelloWire and HelloMessage

`HelloRequest` and `HelloReply` are generated from one-field messages and differ
in names only. `HelloWire` follows `HelloReply` in `helloworld.pb.cc`:
`ParseField` is the body of the loop in `_InternalParse`, which is a recursive
function over what is left of the input; varints, payloads and unknown fields
are protobuf's and modelled by what the generated code gets from them.
`Encodes` says, without the parser, which bytes are which field, and `Meaning`
what a sequence of fields means. `ParsesFields` compares the parser with them,
`RoundTrip` relates `_InternalSerialize`, `ByteSizeLong` and the parser,
`MergeIsConcatenation` relates `MergeFrom` to bytes put one after the other. It
needs the second message's bytes to be ones the code writes: an empty text sent
explicitly does erase an earlier one, and merging an empty one does not.

`HelloMessage` follows `HelloRequest`. `mem` holds the messages (where they live,
the arena in their metadata, `name_`, unknown fields), the strings (who destroys
them) and the strings users own. Operators give the memory after a call
(`Clear`, `Merge`, `Copy`, `InternalSwap`, `Move`, ...), so that calls nest as
they do in the code; actions are what users call. `ArenaStringPtr`, `Arena` and
`GenericSwap` are external. The build defines none of the
`PROTOBUF_FORCE_COPY_*` macros. `ValueSemantics` is the abstract view: whatever
the pointers do, each call has the effect it would have on plain values. What a
failed parse leaves in a message, beyond the fields before the failure, is not
modelled; nobody reads it.

### MysqlSession

The coroutine's body is the sequence `Script` of nine operations. All awaiters of
the program have the same shape, so one set of actions stands for them: the
operation completes and its callback is queued on the context (`Succeed`,
`Refuse`, `Fault`, `LoseReply`), the pool thread stores the code and resumes
(`Callback`), the main thread goes on (`NextOperation`) or leaves the coroutine
(`CoReturn`) and stops the pool. The result of `DROP` is ignored, an error of
`CREATE` is only logged, every other error is a `co_return` (`GoesOn`). The
table is all that survives `Crash` and `Rerun`; `row` remembers which run
inserted the row. Any operation may fail, the connection may break before or
after a statement was executed, and the process may die at any time with a
statement in flight. `result.complete()` holds after `read_all` without an
error, so the `exit(1)` is not reached. Messages are not modelled; the one for a
failed select uses `ec`, the code of the prepare, where `select_ec` is meant
(line 285), and `ei` instead of `ei_` after it.

### RedisAwaiter

`future` is the state AsyncRedis sets, before or after `then()` has attached the
continuation; `func` says how far each continuation is; `ready` counts the
resumptions folly has queued on the main thread. A pool thread may return from
a continuation (`ContinuationReturns`) long after the coroutine has gone on, and
the pool's destructor waits for it. The two awaiters differ in `Catches`.
`FutureAwaiter<T>` calls `fut.get()`, which throws, and keeps the exception in
`_exception`; `FutureAwaiter<void>` calls `fut.wait()`, which does not throw. Both
go on to `handle.resume()`, and `await_resume` returns (`AwaitResume`) or, if
`_exception` is set, rethrows (`AwaitRethrow`). `main()` catches nothing, so the
process is then terminated; whether its destructors run first is left to the
implementation, and nothing here depends on it. That `catch (const
std::exception_ptr&)` matches rests on two libraries outside the repository:
redis++, built with `ASYNC_FUTURE=boost`, gives its promise a
`std::exception_ptr`, and Boost stores a copy of that object as the exception and
rethrows it as such. Redis's keys start in any state, including one of another
type.

## Runs

| run | instance | shows |
|---|---|---|
| `pool` | 3 contexts, 2 queued handlers and 2 hand-outs per context | round robin stays balanced; no thread leaves `run()` early; after `stop()` no handler runs; every context's handlers run; `stop()` returns |
| `tcp_server` | 2 contexts, 2 connections, 1 failed accept | sessions are confined to one thread; they and the accept loop are resumed exactly once per `co_await`; every connection is accepted; sessions end with their peers, and not before all input is read; the pool is used as specified |
| `tcp_echo` | 4 rounds of 3 bytes, buffers of 4 | the client reads what it wrote; no mutual blocking; client and session end |
| `greeter` | 2 threads, 2 calls, 4 addresses, clients that leave, a server that cannot be built | `CallData` objects have exactly one holder; listeners are conserved; implements `GreeterService`, liveness included |
| `hello` | 2 messages, heap and 2 arenas, 4 strings, 1 unknown field; 1555 byte strings, 820 sequences of sample fields | a string has one owner and lives as long as its message; messages behave as values; parsing replaces; parser, serialiser, size and merge agree |
| `mysql` | 2 contexts, 3 runs | a run prints only its own row; a row goes only by a later run's `DROP`; a run without faults succeeds whatever was left behind; no operation on a statement or result that was not produced; no callback outlives the coroutine; every run ends |
| `redis` | 4 commands, 3 pool threads, keys in any state | one resumption per suspension; a failed `SET` is never passed over; `main()` returns or is left by the exception of the command it awaits |

Four runs show disagreements between the code and what it says of itself
("findings" in `PROJECT.json`):

* `tcp_server_startup`: an exception from `start()` never reaches the `catch` of
  `main()`; the joinable `std::thread` terminates the process first.
* `tcp_client_exit`: after a failed connect the client never stops its
  io_context, and `main()` waits in `thd.join()` for ever.
* `greeter_assert`: a client that goes away before its reply is sent makes
  `GPR_ASSERT(ok)` abort the server.
* `redis_void`: a failed `HMSET` resumes the coroutine as if it had succeeded.
  (A failed `SET`, `GET` or `HGETALL` does not: `FailureRethrown` is proved.)

### Bounds

Three contexts are the fewest on which skipping one and wrapping too early look
different; two contexts let a session share the acceptor's thread or not, and
two connections share the second context only after a failed accept, which is
why one is allowed. `Cap = 4` with four rounds of three bytes is the least
buffer `EchoAssumption` admits, so both directions do fill while replies lag.
Two handler threads and as many addresses as can be live at once make every
hand-over between threads and every reuse of an address happen; both clients may
leave. Two messages are all that a call of the message classes takes; two arenas
make swaps between different arenas happen, and four strings are enough for both
messages, a string in a user's hands and one an arena keeps but no message uses.
The texts include the lengths 127 and 128, around which the length prefix grows.
What `HelloWire` says of byte strings does not depend on the state and is
evaluated once, in the first state. `hello` uses symmetry on messages and arenas;
runs with liveness use none. Of the MySQL program's pool only the first context is ever used, a second
one stands for the idle rest; three runs let a third one meet what two earlier
ones left, each cut off anywhere. The Redis program is finite as it is.

Deadlock is not checked, except in `hello`: the programs end, or wait for clients that need not
come.

### Fairness

Weak fairness of every step of a thread (the operating system schedules runnable
threads), of completions the kernel or the gRPC runtime can make, and of
timers. The MySQL and Redis programs have no timeouts of their own: their
operations are assumed to complete, with a result or an error. gRPC tells a
caller that nobody listens or the connection is lost. No fairness for clients' actions, errors, resets, the decision to call
`stop()`, or a write to a peer that is open and does not read.

## Proofs

Every invariant of the runs is also a theorem, for every value of the constants
that the module's `ASSUME` admits; so are the action properties, `PoolUse`, and
the safety part of `Greets`. Each proof module defines an inductive invariant as a conjunction of
named parts, with a lemma for every action. TLC checked those invariants on the
instances of the runs before they were proved.

| module | theorems | from |
|---|---|---|
| `IoContextPoolProofs` | `TypeOK`, `Balanced`, `ThreadsOutliveWork`, `QuietAfterStop` | `PoolSize > 0` |
| `TcpServerProofs` | `TypeOK`, `SessionConfined`, `ResumedOnce`, `ReadsToTheEnd`, `PoolUse` | `ServerAssumption`: finitely many connections, names that differ |
| `TcpEchoProofs` | `TypeOK`, `EchoPrefix`, `NoMutualBlock` | `EchoAssumption`: the buffers hold what the rounds can have on the way |
| `GreeterProofs` | `TypeOK`, `SoleHolder`, `ListenersConserved`, `Service!SafeSpec` | `GreeterAssumption`: finitely many threads and calls, an address for each |
| `HelloWireProofs` | `ParserIsFormat`, `MessagesReturn`, `MessagesMerge`; `ParsesFields`, `RoundTrip`, `MergeIsConcatenation` | the first three: nothing; the others `WireAssumption`: `Samples` are encodings of their fields, no `Broken` string starts with one or with a group, texts fit a message |
| `HelloMessageProofs` | `TypeOK`, `SoleOwner`, `StaysHome`, `ValueSemantics`, `ParseReplaces`; `WireParses`, `WireRoundTrip`, `WireMerges` | `HelloAssumption`: names that differ; `WiresAssumption`: `Wires` are byte strings with at most `MaxUnknown` unknown fields |
| `MysqlSessionProofs` | `TypeOK`, `HandlesValid`, `PrintedOwnRow`, `RerunConverges`, `NothingDangles`, `RowStays` | `ConstantsAssumption`: a pool, at least one run |
| `RedisAwaiterProofs` | `TypeOK` and `FailureRethrown` (in no run), `ResumedOnce`, `NameIsOurs` | `WorkersAssumption`: a pool thread |

**Pool.** `Balanced` is not inductive; the invariant `RoundRobin` says which
contexts are one hand-out ahead (those below the index). `QuietAfterStop` needs
`JoinedSoFar`: which threads `stop()` has joined at each point of its second loop,
and that all were created before.

**TCP server.** `Entries(c)` is the set of handlers context `c` has queued or runs.
`Once` says that no two of them are for the same coroutine, `Confined` that each is
on its coroutine's context, `Tokens` that a session under way has an operation
outstanding or a handler, and not both; `AcceptAwaited` and `Accepting` say the same
of the accept loop. A callback finds its continuation's
context through `m_executor_map`, so `Confined` needs `Executors`: an `Executor`
posts to the context it was made for, and every socket has one. That a connection
is not given a second session needs `Backlogged` and `Accepting`, which follow it
from the backlog through the accept callback to the main thread. `PoolUse` needs
two counting arguments for the bounds of `IoContextPool`: a queue has at most one
handler per coroutine (pigeon hole over `Once`), and a context was handed out at
most once for the acceptor and once for each accept (`Handed`, in which `InFlight`
stands for the accept that has neither failed nor become a session yet).
`ReadsToTheEnd` needs `ErrorsEnd`, an invariant on top of these: an error that a
reading session has stored, or that a callback is bringing it, came from a read at
the end of the input. A failed write is harmless because its error is gone with
its awaiter before the next read, which no second handler can disturb (`Once`).

**Echo.** The invariant `Stream` says that what was read, the two directions, the
session's buffer and the rest of the client's write are consecutive pieces of the
client's output; `Rounds` bounds the number of bytes written from above and read
from below by the loop counter. Mutual blocking needs more than `2 * Cap` bytes on
the way, while a client in round `i` has at most `(i + 1) * (MaxLength - 1)`: with
100 rounds of 1024 bytes, buffers of 51150 bytes per direction are enough, which
the loopback defaults exceed.

**Greeter.** `Ownership` says for each statement of `Proceed()` what the thread
holds and in which status (`ThreadsAt`), that two threads, or a thread and the
runtime, never hold the same object (`ThreadsApart`, `RuntimeApart`,
`RuntimeOnce`), and that an address is in use exactly as long as it is held
(`LiveIffHeld`). For the refinement `Serving` adds that a call is on the wire or
with one `CallData`, and that a reply under way greets the caller its object
serves. `ListenersConserved` is a count, listeners plus threads that still owe one,
that every step keeps.

**Messages.** `Ownership` says that strings are where their messages are
(`AtHome`), that no string is two messages' name (`Unshared`) or both a message's
and a user's (`HeldApart`), and that none on the heap is lost (`NoneLost`). Each
operator of `HelloMessage` has a lemma over any memory in which this holds: it
holds after the call, the message says what the call promises, and no other message
says anything new. Calls nest, and so do the lemmas. What they need of the
parser, that it returns a message for any bytes and an empty text if it met no text
field, is `ParseKeeps` of `HelloWireProofs`.

**Bytes.** The functions of `HelloWire` are recursive, over a number, a byte string
or what is left of the input. The library's induction theorems take a predicate,
which the provers cannot instantiate; `Induction` takes a set instead and is proved
from the well-foundedness of `<`. `Recursion` uses it to show that a recursive
definition whose argument gets smaller has a solution, from which every function
gets the equation it is defined by. Then:

* a varint is read as the number it encodes, however padded, and what is written
  for a number has `NumberSize` bytes and is read as that number;
* an iteration of the loop takes off exactly a field that `Encodes` describes, or
  the loop ends there (`StepIsField`);
* by induction on the number of fields the parser reads the `Meaning` of any
  sequence of fields (`ParseReads`), by induction on the length of the input it
  accepts nothing else (`ParseAccepts`); together `ParserIsFormat`;
* what `_InternalSerialize` writes for a message is such a sequence
  (`EncodesWritten`, `SendableSent`), which gives `MessagesReturn`, and appended to
  another one it still is, which gives `MessagesMerge`.

These hold for messages and inputs of any length; `WireParses`, `WireRoundTrip` and
`WireMerges`, which the run evaluates for the sets in its configuration, follow for
every choice of those sets. A message is `Sendable` if its text and its unknown
fields have encodings: their tags, lengths and numbers fit the bytes a varint may
have. Every message that was parsed is. The model's parser is the code's only
where `HelloWire` says so: no groups, numbers of at most 32 and 64 bits.

**MySQL.** The pool's own invariant is taken over from `IoContextPoolProofs`, since
each step of the program is a step of the pool. `Phases` and `QueueIsCallback` tie
the coroutine, the callback and the pool together; `Passed` says that the coroutine
got past an operation only as `GoesOn` allows, which is what makes handles valid;
`Inserted`, `OwnRow` and `CleanRun` follow the row through database, result and
output, from any table that earlier runs left. `RowStays` adds `OwnInserted`: a row
of this run is there only from its insert on, when the script is past its `DROP`.

**Redis.** The invariant follows the coroutine through its four commands: those
ahead are untouched, those behind have resumed it, and the resumption that is due is
the current one's. A `SET` that succeeded stays in force (`SetHolds`). Outside
`FutureAwaiter<void>` a continuation that resumes with `_exception` null has found
a value (`FailureKept`), and the coroutine goes on only from a null `_exception`;
so it has gone on only from commands that succeeded (`PassedOk`, which is what
`FailureRethrown` states), and the value `GET` returns is the one `SET` wrote.

Only model-checked, because it is out of the prover's reach: liveness, that is
`HandlersRun`, `StopReturns`, `Accepted`, `SessionEnds`, `ConnectedClientExits`,
`SessionCloses`, the fairness part of `Greets`, and the endings of the MySQL and
Redis programs (`EveryRunEnds`, `RunEnds`).

## Not modelled

* `ReadAwaiter` and `ReadUntilAwaiter`: same shape as the others, no user.
* `resolver.resolve()` throwing from `ConnectAwaiter::await_suspend`: both users
  pass a literal address.
* The greeter's destructor ("There is no shutdown handling in this code").
* Of the generated code: descriptors and reflection, `_cached_size_` (a message
  without submessages does not read it), groups among the unknown fields, the
  synchronous, callback and generic gRPC stubs (no user), and the column types of
  `TestSqlppTable.h`.
* `AsyncCloseAwaiter` of the MySQL program: no user. A statement of a dead process
  is taken to be executed or discarded before the next run begins.
* Other clients that change the Redis keys during the run.
* `test_drogon.cpp`: callbacks that log or send a constant, and
  `get_http_client()`, a round robin under a mutex that the program calls once.
  With `hardware_concurrency() = 0` it reads past an empty vector (line 89).
* `test_folly.cpp`: straight-line uses of folly whose outcome is printed. The one
  surprise, that `timeout()` over an awaiter which ignores cancellation returns
  only when that awaiter resumes (line 141), is folly's behaviour.
* `test_boost.cpp`, `test_yaml_cpp_struct.cpp`, `test_aws_lambda.cpp`, the rest of
  `test.cpp`: no state or protocol of their own.

## Plan

Done: the pool; the TCP server over it; the echo; the greeter and its abstract
service; the MySQL and Redis programs; the messages and their bytes; proofs of the
safety of all of them.

Every invariant and every action property of the runs is proved. Left, should the
code come to use them: groups among the unknown fields, the stop of the greeter,
and the awaiters without a user.
