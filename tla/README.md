# TLA+ models of My_IOCP_Framework

A verification project for the IOCP server framework of this repository: TLA+
modules that follow the code, TLC runs on small instances, and theorems that
TLAPS checks. `PROJECT.json` lists the components, the runs, the mutants, the
source lines behind every definition, the hazards and the theorems.

## 1. The system

| part | state | operations |
|---|---|---|
| **CServerManager** (`Server_Framework/ServerManager.cpp`) | `_SessionID`, the thread objects, the pool, the free list, the handler table | `StartServer`, `StopServer`, `CloseServer`, `AcceptThread`, `WorkerThread`, `PacketProcess`, `Disconnect` |
| **the test server** (`For_Test(...ing)/Test_Server`) | the same | the same threads; it also greets every client and broadcasts what it receives |
| **CSessionPool** (`Network/SessionPool.cpp`) | `aSessionPool_`, `UsingSessions_`, `SessionLock_`, a memory pool | `Initalize`, `Destroy`, `JoinSession`, `LeaveSession`, `Broadcasting` |
| **CSession** (`Network/Session.cpp`) | `isRun_`, `ID_`, `Socket_`, `IoContext_`, `RecvBuffer_` | `Initalize`, `Clear`, `Send`, getters |
| **CFreelist** (`Common/Freelist.hpp`) | a linked list of send contexts, each with `IsUse_` | `GetData`, `ReturnData`, `Clear` |
| **CCircularQueue** (`Common/CircularQueue.hpp`) | a ring of bytes, `FrontIndex_`, `RearIndex_` | `Enq`, `Deq`, `Pop`, `GetAt`, the sizes |
| **CThread, CMultiThread** (`Common/Thread.cpp`) | `isRun_`, a `std::thread` | `Start`, `Stop`, `Join` |
| **CPacketManager, CDataBuffer** (`Network/Protocol.h`, `Common/DataBuffer.cpp`) | a pointer to bytes with two sizes | assembling a packet, its setters and getters, `AppendData`, `ClearBuffer` |
| **flatbuffers** (`Network/flatbuffers/flatbuffers.h`, the generated tables) | a block that data fill from its end, a scratch pad, vtables, a pool of strings | the builder (strings, vectors, structs, tables, `Finish`), accessors, searches, `Verifier` |
| **CPacketHandler** (`Network/PacketHandler.h`) | packet type to handler | `RegisterPacketHandler`, `ExecutePacketHandler` |
| **memory pools** (`Common/MemoryPool.hpp`) | blocks and a queue of free ones | `Initalize`, `Destroy`, `GetMemory`, `ReturnMemory` |
| **log** (`Common/LogSystem.cpp`, `Common/TextFileWriter.cpp`) | a file, its mutex, the pointer to the writer | `Initalize`, `Log`, `Write`, `ChangeFilePath`, the destructor |

How they interact. One accept thread and 14 workers run `CServerManager`. The
accept thread puts each connection into a session of the pool, binds its handle
to the completion port with the session's pointer as the key, and posts the
first receive. The port hands completions to any worker that waits; the worker
disconnects the session (an error, or 0 bytes), returns a send context, or
assembles the packets received and posts the next receive. The sessions, the
map and the free list are shared: the map and the free list are changed under
locks, but a worker reads the id and the handle of a session without one, and
uses them later. Sessions, handles, ids and send contexts are all reused. `main`
and every thread write to the log. The data of a packet are a finished flatbuffer,
which the sender builds and the receiver reads in place.

What is hard about it:

* a completion names a *session object*, not a connection: between a completion
  and what a worker does about it the object may have been given to another
  client, and the handle to another session;
* a session is in the map before it is bound to the port and before it has a
  receive;
* several workers handle completions of one session;
* a packet arrives in any pieces, and the ring that holds the rest wraps;
* failures: of the association, of a receive, of a send, the pool being full,
  the ids wrapping around;
* starting and stopping: threads that wait for ever, destruction of what they
  still use;
* a lock that is given back by hand on one path and by its guard on all, while
  the process is ending;
* a buffer that grows from both ends, whose tables share vtables and whose strings
  are shared, which is emptied and used again, and which a reader may get damaged.

What makes each part correct:

* pool and threads: the sessions that run are exactly those of the map, each
  under its own id; a running session owns an open handle that no other session
  has; a connection that has ended is removed; together they are a directory of
  connections with bounded capacity and ids that are not given twice;
* the receive buffer of a session, which nothing locks, has one user at a time;
* life cycle: a thread leaves its loop only when told to, the sessions outlive
  the threads that use them, and pressing 'q' ends the process;
* free list: a context in flight is not given out again;
* memory pool: a block is free or lent, and the counters say how many;
* packet assembly: the packets reach the handler once, in order, unchanged;
* ring: it holds what was put in and not taken out, and says how much that is;
* log: whole lines, in the order of each thread's calls, and a mutex that is free again;
* flatbuffers: what was put in is read back from where the builder said it is, a
  finished buffer is aligned and accepted by the verifier, and a buffer that the
  verifier accepts can be read;
* packets: the getters return what the setters stored, and nothing leaves the block.

## 2. The modules

| module | models | used by |
|---|---|---|
| `Winsock` | handles, peers, pending operations, the completion port; external, as the server uses it | `SessionPool` |
| `SessionPool` | `CSessionPool`, `CSession`: join, leave, clear | `IocpServer` |
| `IocpServer` | the accept thread, the workers, send contexts; the whole server as `Spec`, with fairness `FairSpec` | `MCIocpServer`, `IocpServerProofs` |
| `SessionDirectory` | abstract: a directory of connections | refinement in `IocpServer` (`ImplementsDirectory`) |
| `MCIocpServer` | symmetry of handles, workers and contexts for TLC | runs |
| `CircularQueue` | `CCircularQueue` as operators on a record, with its 32-bit arithmetic | `RecvAssembly` |
| `RecvAssembly` | the loop of the `RECV_` branch and `PacketProcess` on the bytes of one session | runs |
| `PacketStream` | abstract: a FIFO of packets | refinement in `RecvAssembly` (`ImplementsStream`) |
| `ServerLifecycle` | `CThread`, `CMultiThread`, `StartServer`, `StopServer`, `CloseServer`, both `main` functions, and the waits of the threads | `LifecycleProofs`, runs |
| `MemoryPool` | `CDynamicMemoryPool` and a client | `MemoryPoolProofs`, runs |
| `BlockPool` | abstract: a set of free and a set of lent blocks | refinement in `MemoryPool` (`ImplementsPool`) |
| `LogFile` | `CLogSystem`, `CTextFileWriter`, `CMutexLock`, with `main` and the threads that log | `LogFileProofs`, runs |
| `AppendLog` | abstract: a log that lines are appended to while it is open | refinement in `LogFile` (`ImplementsAppendLog`) |
| `VectorDownward` | `vector_downward`: the block with data and scratch pad | `FlatBufferBuilder`, `FlatReader`, `PacketBuffer` |
| `FlatBufferBuilder` | `FlatBufferBuilder` as operators on a record | `FlatCreate` |
| `FlatSchema` | the ten tables of the generated headers: fields, required, key | `FlatReader` |
| `FlatReader` | `Table`, `Vector`, `String`, key comparisons and searches | `FlatVerifier` |
| `FlatVerifier` | `Verifier` and the `Verify` methods of the tables | `FlatCreate` |
| `FlatCreate` | the `Create...` functions of the generated headers, sorted vectors | `FlatBuffers` |
| `PacketBuffer` | `CDataBuffer`, `CPacketManager` | `FlatBuffers` |
| `FlatBuffers` | a client that builds, finishes, sends, changes and empties a buffer, and a reader | `MCFlatBuffers` |
| `MCFlatBuffers` | the strings and the scripts of the client | runs |
| `IocpServerProofs` | theorems about the server, its directory of connections, and what its threads share: the receive buffer of a session, the send contexts | TLAPS |
| `LifecycleProofs`, `MemoryPoolProofs`, `LogFileProofs`, `RecvAssemblyProofs` | theorems about the life cycle, the pool, the log, the loop over a chunk | TLAPS |
| `BuilderProofs` | lemmas: what each operation of `FlatBufferBuilder` and the generated functions does to a builder | `LayoutProofs` |
| `LayoutProofs` | lemmas: where the builder puts the bytes of what it makes, and that the reader finds them there | `FlatBuffersProofs` |
| `FlatBuffersProofs` | theorems about the client of a builder, what is read back from it, its packets and its reader | TLAPS |

How they compose: `Winsock` is extended by `SessionPool`, which is extended by
`IocpServer`; `CircularQueue` is used by `RecvAssembly`. `IocpServer` leaves out
what `RecvAssembly` (the bytes of one session) and `ServerLifecycle` (before the
threads run and after they are told to stop) are about; those two leave out the
sharing of sessions. `SoleReceiver` of `IocpServer` is what entitles
`RecvAssembly` to look at one worker only. `LogFile` and `FlatBuffers` are read on
their own: nothing that a thread does depends on the log, and the handler that would
read a packet's data is empty.

### IocpServer and the code

A step is what one thread does up to its next access to shared state; a section
under `SessionLock_` or the lock of the free list is one step. `acceptor.pc` and
`worker[w].pc` say where a thread stands:

| pc | place in `ServerManager.cpp` | actions |
|---|---|---|
| `accept` | the call of `accept` (:241); `_SessionID` was read at :239, and only this thread writes it | `Accept` |
| `join` | `JoinSession` (:261) | `Join`, `PoolFull` |
| `assoc` | `CreateIoCompletionPort` (:269) | `Associate`, `AssociateFails` |
| `disc` | `Disconnect` (:272) | `AcceptorDisconnects` |
| `greet` | the greeting of the test server (its :250) | `Greet` |
| `recv` | `++_SessionID` and the first `WSARecv` (:276-286) | `FirstRecv`, `FirstRecvFails` |
| `spin` | `while (true) {}` (:284) | none |
| `gqcs` | `GetQueuedCompletionStatus` (:310) | `Dequeue` |
| `got` | the tests of the result (:317-338) | `ReadID`, `SendDone`, `RecvDone` |
| `leave` | inside `Disconnect`, the id read (:79) | `Leave` |
| `packets` | the loop over the bytes (:350) | `HandlePacket`, `PacketsEnd` |
| `post`, `wsarecv` | `GetSocket`, then `WSARecv` (:373) | `ReadSocket`; `NextRecv`, `NextRecvFails` |
| `dead` | `return false` (:379) | none |

`Program` selects the server. In `Server_Framework` the handler sends nothing
and a worker falls through after 0 bytes; the test server has the `continue`
and broadcasts for each packet and each new client. `fault` says how the process
died, after which nothing moves: `out_of_range` (`at()` in `LeaveSession` throws
in a thread that catches nothing), `null_node` (`GetData` on a list with no free
node), `heap` (the destructors in `PacketProcess` `delete[]` a pointer into the
session: the process may or may not die). These are behaviours of the code, not
errors of the model; the properties hold in the states up to them.

`wentOn` is a history variable: a worker of Server_Framework went on after the 0
bytes of a closed connection (the finding `close_iteration`). After that a session
can have two receives and a connection two disconnects; `SoleReceiver` and
`DisconnectsOnce` say that nothing else brings this about: not the unlocked reads,
not the reuse of sessions and handles, not resets and not a failed association.

What the bytes of a receive contain is in `RecvAssembly`; here a worker handles
any number of packets per receive. A broadcast takes all its contexts and posts all its
sends in one step. In the code `Broadcasting` holds `SessionLock_` (SessionPool.cpp:120-126)
but `GetData` locks the free list for each context (Freelist.hpp:52), so a `ReturnData`,
a completion or the greeting of another thread can come in between. What is said of the
contexts (`SendContextsExclusive`) is said of each one, and taking one is the same step
either way; what the one step leaves out are runs in which a context that is returned
during a broadcast is used by its next send. A completion of an aborted operation carries
the key its handle had. The id `UINT32_MAX` is an ordinary value of the counter.

### RecvAssembly and the code

`Buf_`, the queue, `ioByte`, `pbuf` (as an index) and `packetSize` are those of
the code; `sent`, `wire`, `delivered`, `stream`, `starts` and `split` are history:
`stream` has all bytes sent, `starts[i]` is where packet `i` begins in it. `split` says
that some chunk ended between the two bytes of a size. The code is right while `Regular`: no
size was split, and so few bytes went through the ring that it has not wrapped.
`ImplementsStream` maps the states after that to a stream that was given up
(`GiveUp` of `PacketStream`); `LoopFollowsChunk` is about all of them. `Receive` is everything up
to the loop, `Incomplete` and `Complete` the two branches, `PacketProcess` the
hand-over and the pop. `PacketProcess`'s `GetAt` gives a pointer, so a packet is
read without wrapping, up to the end of the array. Bytes have `Base` values and
indexes `Word` values instead of 256 and 2^32. `Overruns` ends the behaviour
where `Enq` would write past the ring.

### ServerLifecycle and the code

`program`, chosen at the start, says which of the two servers runs. Thread 0 is
`AcceptThread_`, thread `w` is `vThreads_[w - 1]`. `main` goes through
`network`, `port`, `info`, `accept`, `multi`, `workers` (`InitalizeServer` in the
order of its calls, one step per thread started), `key` (`kbhit`), `stopA`, `stopW`,
`stopM` (`StopServer`), `joinA`, `joinW`, `cleanup`, `destroy` (`CloseServer`),
`exit` (`~CServerManager`) and `ended`; `next` is the iterator of a loop over
`vThreads_`. Each flag is its own variable because the code sets it and starts the
thread in two steps, and tests another one: a worker's loop reads the flag of
`WorkerThread_`, `Join` the flag of each `CThread`. A thread is at `begin`, `loop`
(it tests its flag), `wait` (`accept` or `GetQueuedCompletionStatus`), or at one use of
the pool (`join`, `recv`, `session`); `left` and `failed` are a returned function.
The test server starts its pool before the free list and never calls `StopServer`.
`fault`: `null_pool` (`Destroy` without a pool), `null_session`, `heap` (a deleted
session is used: it may or may not be noticed), `null_node` (`CFreelist::Clear` reads
one node too far; both programs end that way when `main` gets there).

### MemoryPool and the code

A block is its index in `MemoryArray_`. `CSessionPool` calls `Initalize` and
`Destroy` under its lock and takes no block, so the client is free to return any block
at any time after `Initalize` (`GivesBack`); the history variable `careful` is true
while it returned only what it held, before `Destroy`. `Word` stands for 2^32 in the
two counters.

### LogFile and the code

A thread in `Write` goes through `lock`, `is_open`, then `insert` and `rest`, or
`unlock`, and `guard` (the destructor of the lock guard). The line is inserted in two
parts, so that two threads without the lock could mix theirs. When the file is not
open `Write` unlocks the mutex by hand and the guard unlocks it again
(TextFileWriter.cpp:46): `UnLock` of a mutex one does not own is undefined, and is
modelled as a choice: nothing happens, the owner loses it, or it is never free again
(`stuck`). `main` goes from `Initalize` (which opens the file or fails to, and writes
the header) to `running`, returns, and destroys the static writer (`lock`, `close`,
`closed`); the threads log until the process has exited (`LogsAfterMain`), since
nothing awaits them.

### FlatBuffers and the code

A builder is a record of the members of `FlatBufferBuilder`, its operations map
records to records, with `result` for what they return. `vector_downward` is its
size, its data (a sequence of bytes, the lowest address first) and its scratch pad; it
starts with 8 bytes (1024 in the code), so that it grows in every script. Bytes have
16 values; the widths of offsets and scalars are those of the code. The generated
`Create...`, accessor and `Verify` functions are one operator each over `FlatSchema`,
which lists the fields of the tables in their order. Loops and the recursive `Verify`
are recursive functions: `added[k]` is the builder after `k` calls, `tables[<<t, of>>]`
says whether the table at `t` verifies.

The client follows a script, a sequence of calls that leaves the operands to choice:
which string, how much of a table is set, prefix and identifier. A string that is given
to `CreateXDirect` or to a search is a `const char*`: `CString` is what `strlen` and
`strcmp` take of it. `CreateString` takes all characters of a `std::string`, and `Create`
makes a table of a string that exists, so a key may hold a 0. `objects` is a history
variable: what was made at which offset. `ReadsBack` compares it with what the
accessors find (for `CreateXDirect`, the strings up to their first 0). The client also sets defaults to be stored, turns off the sharing
of vtables, moves the builder, changes a field or an element, and empties the builder
with `Clear`, `Reset` or `Release`. A builder that was moved has a string pool whose
comparator still reads the buffer of the builder it came from
(flatbuffers.h:1362), which is undefined; `PoolReadable` keeps the client from
`CreateSharedString` then. `Receive` gives a reader any first part of the finished
buffer or the buffer with one byte changed. `ClientAssumption` is what a client may choose: strings
and scripts of any kind, bytes of 16 values or more.

`PacketBuffer` is the memory of a packet; a write that leaves the block makes the
sequence longer than `MaxSize_`, which `PacketInside` excludes. `AssemblePacketBuffer`
is modelled as it is: its type goes to the start of the buffer and is not counted
(DataBuffer.h:64), so its packets do not read back, and no property says so.

## 3. The runs

| run | instance | shows |
|---|---|---|
| `server` | Server_Framework, 2 sessions, 3 handles, 2 workers, 3 joins, 4 ids, both failures of the association | `TypeOK`, `UsingExact`, `HandleOwnership`, `SoleReceiver`, `DisconnectsOnce`, `ImplementsDirectory` |
| `test_server` | Test_Server, 2 sessions, 2 handles, 2 workers, 2 send contexts, 3 joins, both failures of the association | `UsingExact`, `HandleOwnership`, `SendContextsExclusive`, `ImplementsDirectory` |
| `close_served` | Server_Framework, 2 handles, `FairSpec` | `CloseServed` |
| `lifecycle` | both programs, 3 workers, 3 clients, `FairSpec` | `TypeOK`, `LeavesAfterStop`, `TestServerWaits`, `EndsOnQuit` |
| `memory_pool` | 3 blocks, counters of 8 values | `TypeOK`, `Counted`, `EachBlockOnce`, `ImplementsPool` |
| `recv` | ring of 10, up to 4 packets of 3 and 5 bytes, any cuts | `TypeOK`, `QueueHoldsRest`, `NothingHeldBack`, `RegularRequiredIsMissing`, `LoopFollowsChunk`, `ImplementsStream` |
| `log_file` | main and 2 threads, 2 lines each | `TypeOK`, `UnlockedOnce`, `WholeLines`, `ImplementsAppendLog`, `MutexIsReleased` |
| `flat_buffers` | 13 scripts, 3 strings, all ten tables | `TypeOK`, `ReadsBack`, `ScratchBelowData`, `FinishedVerifies`, `ScalarsAligned`, `LookupFinds`, `VerifiedIsReadable`, `PacketReadsBack`, `PacketInside`, `WrittenStays` |
| `close_iteration` | as `server`, 2 handles | violation of `CloseEndsIteration` |
| `split_header` | ring of 17, up to 3 packets, any cuts | violation of `RequiredIsMissing` |
| `ring_wrap` | ring of 8 | violation of `FrontVacant` |
| `use_after_destroy` | Server_Framework, as `lifecycle` | violation of `UsesLivePool` |

Why the bounds are enough. Two workers and the accept thread are all the actors
that a stale read needs: one worker that holds an id or a handle, one that clears
the session, and the accept thread that gives it to a new client. Two sessions
make reuse (the first free one is taken) and independence visible; with three
joins a session is reused while another one runs, and the pool becomes full.
Three handles let a handle be new, reused or dropped. Two contexts run out while
sends are in flight. In `recv` four packets are up to 20 bytes, twice the ring: a
behaviour is `Regular` for the first packets and then wraps, or is cut inside a
size at any packet. Two packet sizes give packets that share a chunk, that are cut,
and both. Three workers let one be joined, one use a
session and one wait; three clients give each of them a packet. Three
blocks let one be free, one lent and one returned twice; with counters of 8 values
a wrap below 0 shows. Three writers and two lines each let one hold the mutex, one
wait and one come late, and let a thread's second line overtake. The strings of
`flat_buffers` are such that two differ by a 0 at the end, where `memcmp` and `strcmp`
disagree; such strings are stored whole when a table is made of an existing string
(`Create`, in a script of a sorted vector) and are cut by `CreateXDirect`. Thirteen
scripts have every operation, every table, each way of emptying a builder followed by
further use, three tables in a sorted vector, and a damaged `TestInfo` and `Enum` (with
a vector and tables below it).
`CHECK_DEADLOCK FALSE` is stated everywhere: the accept thread stops
after `MaxJoins`, a process that died stops, and workers wait for ever on an
empty port.

Findings, each with its run: after 0 bytes a worker of Server_Framework goes on
to receive on the session it cleared (`close_iteration`); a size is read from one
byte (`split_header`); a chunk that ends exactly at the last cell of the ring makes
`RearIndex_` `UINT32_MAX`, with which the sizes of the queue wrap around, and the next
bytes are written over the cell that is to stay empty (`ring_wrap`); after 'q' the
sessions are deleted under the threads, because `Join` does not wait for a thread that
was told to stop (`use_after_destroy`).

Three more things the models show and no run is spent on: when the log could not be
opened each `Write` unlocks its mutex twice (`UnLockEarly`); a `_SessionID` that wraps
around to an id in use makes `JoinSession` replace the entry of a running session
(the assumption of `UsingIsExact` excludes it); and a completion port that could
not be created (NULL, compared with `INVALID_HANDLE_VALUE`) is taken for one
(`NoPort`).

## 4. Fairness

`FairSpec` assumes that a worker that can take a step takes one eventually (the
operating system schedules its threads; a worker in `packets` gets to the end of
its finite chunk) and that a pending receive of a connection that ended completes
(Windows reports the end or the reset of a connection). Nothing is assumed of
the accept thread, of peers, of sends, or of receives of open connections.
`CloseServed` has the two escapes the code has: the process died, or every worker
has returned.

`FairSpec` of `ServerLifecycle` assumes that `main` goes on when it can, and
nothing of the threads, the network or the user. `EndsOnQuit` says that `main` then
waits for nobody once 'q' was pressed.

`Spec` of `LogFile` assumes that a thread that is inside `Write` goes on when it can,
and so does `main` in `Initalize` and in the destructor. No lock is fair: a thread may
wait for the mutex for ever while others take it, and `MutexIsReleased` says only that
each owner gives it back. Nothing makes a thread log or `main` return.

## 5. The proofs

All theorems are for all values of the constants that satisfy the assumptions of the
modules and of the theorem. Of the safety properties that runs check, all but three
of `FlatBuffers` are theorems.

`IocpServerProofs`:

* `TypeCorrect`: `Spec => []TypeOK`. The inductive invariant is `TypeInv`: it adds
  to `TypeOK` what a program counter says of the local variables (the accept
  thread holds a handle after `accept` and a session after `join`; a worker holds
  a packet until it loops back).
* `HandlesOwned`: `Spec => []HandleOwnership`. It is not inductive alone: `Join`
  would give a session a handle that another one has. `AcceptedUnowned` adds that
  the handle between `accept` and `JoinSession` is open and of no session; a
  handle that a session closes can then not be that one, and a handle that is
  accepted was closed, so no running session has it.
* `UsingIsExact`: `Spec => []UsingExact`, assuming `MaxJoins <= IdSpace`. Added are
  `AcceptedID` (the id read at the top of the loop is the present `_SessionID`) and
  `LiveIssued` (the ids in the map were given out), so that `Join` enters a new
  id. With an id that is given out again it is false.

* `DirectoryImplemented`: `Spec => ImplementsDirectory`, assuming `MaxJoins <= IdSpace`.
  The invariants above together (`DirInv`) are what the mapping needs: `Accept` and all
  that happens to completions stutter, `Join` enters an id that was not given out,
  `Leave` removes what is there. That a join leaves at most `MAX_SESSION` in the
  directory is counted: the entries of the map are different sessions, and none is
  the free one that the scan found.

`IocpServerProofs`, what is shared, for Server_Framework and `MaxJoins <= IdSpace`:

* `OneReceiver`: `Spec => []SoleReceiver`; `DisconnectedOnce`: `Spec => []DisconnectsOnce`.
  `SoleReceiver` counts receives, completions with bytes and workers; it is kept
  only because completions of *ended* connections are claims as well. `ClaimInv`
  says who has the one claim to a session: the accept thread until its first receive
  (`AcceptorOK`), a pending receive (`RecvsOK`), its completion (`QueueOK`), a
  worker (`WorkersOK`, whose stale id and handle are therefore still right), and that
  the key of a handle is the session that owns it (`KeysOK`). Each step hands the
  claim on. With the claim the closed handle has no receive left that could be
  aborted, so the session is free of claims when it is given to the next client. A
  worker that goes on after 0 bytes has given its claim up and uses it
  (`wentOn`), which is where the invariant ends.

`IocpServerProofs`, the send contexts, for both programs and any number of joins:

* `ContextsExclusive`: `Spec => []SendContextsExclusive`. `SendInv` says it place by
  place: outstanding sends, completions and workers have contexts that all differ
  (`SendsDiffer`, `QueuedDiffer`, `WorkersDiffer`) and are marked (`Marked`). Closing a
  handle moves its sends to the port in one step; `CompletionKeepsContexts` is the lemma
  that moving any first part of them keeps the invariant. Nothing is needed of the
  sessions: a stale handle in `Send` takes a context that is free, whatever it then does.

`LifecycleProofs`:

* `LifeTypes`: `Spec => []TypeOK`; `LeavesWhenStopped`: `Spec => []LeavesAfterStop`. Added: `FlagsUp`, the
  flag that a thread tests is up from before its start until `StopServer` takes it
  back.
* `AwaitedBeforeDestroy`: `Spec => []TestServerWaits`. Added:
  `PoolKnown` (the pool is there from before the first thread to `Destroy`) and
  `Joined` (the flag of a thread that has not returned is set, so `Join` waits for
  it; every thread that `main` has passed has returned). Server_Framework breaks
  `Joined` by `StopServer`, see `use_after_destroy`.

`MemoryPoolProofs`: `PoolTypes` (`TypeOK`), `CountsAgree` (`Counted`), `BlocksExclusive` (`EachBlockOnce`)
and the refinement `PoolImplements` (a careless return maps to `Close`). Inductive are
`CountInv` and `BlockInv`, which add that nothing is lent before `Initalize`.

`LogFileProofs`, for any number of threads and lines:

* `LogTypes`: `Spec => []TypeOK`; `UnlocksPaired`: `Spec => []UnlockedOnce`; `LinesAreWhole`:
  `Spec => []WholeLines`. `LogInv` adds `Owned` (while the file is open a thread between
  lock and unlock owns the mutex and the branch that unlocks by hand is not taken),
  `HalfWritten` (a thread between the parts of its line wrote the last part of the
  stream), `Fresh` (before `Initalize` nothing has happened), `Numbered` and
  `MainReturned` (the destructor of the writer never finds `main` itself in `Write`). Nothing is
  claimed of a file that could not be opened.
* `LogImplemented`: `Spec => ImplementsAppendLog`. The second part of a line is the step
  that adds it. `CallsLogged` counts: the complete lines of a thread are numbered
  1, 2, ... up to its calls that have returned, so the new line is the next one; since
  lines are whole the two parts in the stream are one line of the log.

`RecvAssemblyProofs`, for a ring, bytes and packets of any size:

* `StaysInChunk`: `Spec => [](TypeOK /\ InChunk)`. The types alone are not inductive: the
  chunk put into the queue is inside of `Buf_` only because `pbuf` and `ioByte` together
  are (`InChunk`). The sizes that the loop reads play no part in it, so it holds after a
  split size and after the ring has wrapped.
* `AssemblyIInv`, inductive for all behaviours: `StreamInv` (where the packets lie in the
  stream), `WireInv` (the wire is what is left of the stream after the bytes the queue and
  the chunk have taken), `LoopInv` (the rest of the chunk continues the stream at
  `Processed`) and, for behaviours that are `Regular`, `QueueInv` (the queue holds, from
  `FrontIndex_` on, the first bytes of packet `Len(delivered) + 1`, and what was delivered
  is what was sent). That no receive ended between the two bytes of a size, as long as
  none was split, is part of `WireInv`. `LoopInv` needs no regularity and
  gives `ChunkIsFollowed`; `QueueInv` gives `RestIsHeld`, `NothingIsLeft` and
  `RequiredIsRight`.
* The proof goes by the lemma `RegularBefore`: a behaviour that is `Regular` after a step
  was so before it, so the invariant has to be kept only by steps between regular states.
  `Assembled` is the heart of it: when the loop finds a packet complete, the `Size` cells
  after `FrontIndex_` are that packet, byte by byte.
* `AssemblyImplementsStream`: `Spec => ImplementsStream`. A step of `PacketProcess`
  delivers `sent[Len(delivered) + 1]`; the step after which the behaviour is not regular
  any more maps to `GiveUp`.

`BuilderProofs`, `LayoutProofs` and `FlatBuffersProofs`, for any script of calls, any strings, any bytes of
16 values or more and any initial size (`VectorAssumption`, `ClientAssumption`). The
inductive invariant is `Inv`, `ClientInvariant` says that every client keeps it:

* the builder is one of `GoodBuilders`: its members have their types, data and scratch pad
  together fit the block, and the scratch pad holds at least the fields of the open table
  (of which there are none outside of a table);
* a table is open exactly while the client adds its fields (`nested`), what is remembered
  lies in the data (`Remembered`), and while the buffer is not finished the pool of strings
  holds offsets of objects, so that `CreateSharedString` compares strings of this buffer;
* a root is a table of a finished buffer (`RootOf`), a packet is in a whole block and, when
  made with the setters, holds its size, type and data (`PacketOf`).

The step of each action follows from one lemma per operation of the builder, stated with
`Writes` (bytes are put before the data, the fields of the open table stay), `Grows` (the
same, whatever becomes of the scratch pad) and `Makes` (and an offset in the new bytes is
returned). `TableEnded` is the
longest of them: the vtable is written, perhaps taken back, and the offset to it is put into
the table that was just made. A loop of the code is a function of how many calls are done;
`StepsExist` shows that such a function exists.

* `FlatTypes` (`TypeOK`), `ScratchStaysBelow` (`ScratchBelowData`), `PacketsStayInside`
  (`PacketInside`), `PacketsReadBack` (`PacketReadsBack`) follow from `Inv`.
* `WrittenIsKept`: `Spec => WrittenStays`. Each lemma says that the old data are the end of
  the new ones (`Kept`); for the vtable and the shared string that are taken back,
  `KeptPopped` and `KeptBehindWrite` bound what was popped and where was written.
* `VerifiedCanBeRead`: `Spec => []VerifiedIsReadable`, for any bytes that a reader gets, not
  only for those that a client can send. `VerifyTable` and `Readable` are recursive functions
  on places; a damaged buffer may have references that go round, so nothing is known of them
  before `VerifierExists` and `ReaderExists`: both are fixed points of a monotone function
  (`FixedPoint`), and references lead to higher positions, so the place with the largest
  position among those that verify and cannot be read has a field that refutes it.

The attempt at it found that the `CASE` of `VerifyTarget` and of `ReadTable` had arms that
overlapped: for an absent reference TLC took the first one, and nothing followed from the
definition. They are disjoint now.

* `MadeIsReadBack`: `Spec => [](Len(buf) <= MaxBufferSize => ReadsBack)`, if no string is
  longer than a buffer may be (`ShortStrings`). The bound is that of the assertion in
  `ensure_space` (`FLATBUFFERS_MAX_BUFFER_SIZE`): beyond it an offset of 4 bytes does not
  reach. `ShortStrings` is needed for the pool: the lengths that `CreateSharedString` compares are
  those stored in 4 bytes.

`ReadsBack` is about what the *reader* computes: it follows the offset to the vtable, looks
an entry up there, follows the references. `Kept` (the old bytes are the end of the new ones)
is not enough, because `Mutate` and `MutateVector` write into them, and because a table has
its vtable in common with others. The invariant `LaidInv` says where the bytes are:

* Every byte of the data has a tag: `Fixed`, or the pair of an object and a number, the field
  of a table or the element of a vector whose scalar it belongs to. `Own(W, t)` are the bytes
  with a tag under an assignment `W`. There is one under which everything is where it was
  made (`Laid`): every object of the client (`ObjectLaid`), every vtable on the scratch pad
  (`VTables`), and the table that is being built (`InBuilding`).
* What is recorded of a table made by `CreateXDirect` has its strings up to their first 0;
  `Taken` is that cut, field by field, and `DirectLays` shows that the strings that are
  stored are those.
* `ObjectLaid` says which bytes lie where: `Has(d, S, off, bytes)`, they are at the offset and
  have offsets in `S`. A table (`TableLaid`) has the way to a vtable, a vtable with as many
  entries as it says, and each field where its entry is: a scalar in bytes of its own tag, a
  reference and what it leads to in `Fixed` bytes. `ObjectIsRead` shows, kind by kind, that
  the reader then finds the value; that a number below the bound is read from its 4 bytes as
  it was written, also a negative way to a vtable, is `NumberRead` and `SignedOf`.
* An object stays where it is when the bytes with its tags do (`ObjectOn`, `Stay`). What a
  call writes before the data gets new tags (`Extends`), so everything else stays. For the
  table, `InTable` follows the fields from `StartTable` to `EndTable`: those that are stored
  have their offset on the scratch pad, those that are not have the default, and the vtable
  that `EndTable` writes, or takes from an earlier table, says so. Dropping the comparison of
  the entries (the mutant `SameVTable_BySize`) breaks exactly this step.
* `Mutate` writes only into the bytes `<<off, i>>` of one field of one table, `MutateVector` of
  one element (`OverwriteLays`): the others have other tags (`OthersStay`). A field that is
  not stored cannot be set, unless to its default, and then the value does not change
  (`TableChanged`).
* `KindsKnown` says that the pool holds strings, and the root is of its type; `NoField` that no
  field is seen outside of tables, so that a vtable has no more entries than its table needs.

Supporting lemmas elsewhere: a nonempty set of naturals has a smallest element, so the scan
of `JoinSession` finds a free session; what each operation does to types, handles
and the map.

Only model-checked: liveness (`CloseServed`, `EndsOnQuit`, `MutexIsReleased`), which the
prover cannot treat under fairness; and of `FlatBuffers`

* `FinishedVerifies` and `ScalarsAligned`: both hold from `Finish` until something else is made, as
  in the scripts, and not for any script: the code does not refuse a call after `Finish`, and
  what is then put before the header moves the start of the buffer. The first would also need
  that what a table refers to is still there with its type and that each string has its
  terminator, the second the alignment of each field, which `LaidInv` does not say;
* `LookupFinds`: that the sort is a sort and the bisection finds, for every vector, is
  induction over data; and `Mutate` may set the key of a table after the vector was sorted.

## 6. Not modelled, and the plan

Not modelled: the formatting of log lines and `ChangeFilePath` (no caller); the
packet handler table (one empty handler, registered before the threads start); the
thread pool stub; the test client; the packets of the test server (they are of an
older protocol); `IsLocked` and `CCSLock`; the copies of the thread objects. Of
flatbuffers: allocators and `DetachedBuffer` (ownership of memory), unions (the
tables have none), the limits of `VerifyComplexity` (64 levels, 1000000 tables), the
overloads that convert their arguments and call a modelled one, and the headers
that no source of the servers includes (flexbuffers, the schema compiler,
reflection, mini-reflection, gRPC).

Next, in this order:

1. Proofs: from `LaidInv`, with the alignment of each field and the terminator of each string
   added to `ObjectLaid`, `ScalarsAligned` and `FinishedVerifies` for scripts that make nothing
   between `Finish` and the next `Clear`, `Reset` or `Release`.
2. `FreeList` with the list as it is (a refinement of the set that `IocpServer`
   uses: `GetData` and `ReturnData` on nodes, with `Clear`), and `Deq` of the ring.
3. `DetachedBuffer` and the ownership of the bytes that `CDataBuffer` and
   `CPacketManager` both delete.
