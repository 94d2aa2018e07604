# TLA+ models of cpputils-sockets

cpputils-sockets is a small C++ library of TCP sockets: a client socket with
explicit ownership of its descriptor, a server in a synchronous and an
asynchronous form, and a pair of sockets to wake a thread out of `poll`. The
modules here model the parts of it that can go wrong between threads, between
descriptors and between calls, check them with TLC, and prove their
safety properties and refinements with TLAPS for every value of the constants.

File names below are relative to `src/src/core/`, shortened to `tcp_server.cpp`
(`cpputils_sockets_core_tcp_server.cpp`), `tcp_socket.cpp`, `tcp_socket_p.hpp`;
`tcp_server.hpp` and `tcp_socket.hpp` are in `src/include/cpputils/sockets/`.

## Inventory

| Component | Code | State | Operations | What makes it correct |
|---|---|---|---|---|
| Server base | `tcp_server.cpp` 123-160, 180-257, 370-535, 538-604 | a word of bit-field flags (`shouldRun`, `shouldRunBig`, `serverRunning`, `isCreated`, `hasError`, `inAcceptStack`), `serverTid`, the listener, the stopper pair | `RunServer` and its accept loop, `StopServer`, `CreateServer`, `DestroyServer`, `ChangeAcceptCallback` | the loop uses open sockets only; a stop is noticed although `poll` has no timeout; no connection is accepted after a stop |
| Asynchronous server | 163-176, 260-312, 729-764 | + `std::thread server_thread`, a start semaphore | start, create-and-start, stop (joins or detaches), destructor | stop waits for the thread; the thread object is never joined, detached or assigned at a wrong time; the object outlives its thread |
| Synchronous server | 317-367 | only the base | start (serves on the calling thread), create-and-start, stop, destructor | stop waits; start returns after a stop |
| `GetStopperData` | 607-724 | the accept callback, the flag word and `serverTid` (saved and restored), two semaphores, a temporary thread | makes connections of the server with itself, running or not | the two sockets of a pair belong together and stay hidden from the application; the saved state is restored over nothing newer; everybody waited for arrives |
| `CStprSocks` | 108-120, 768-935 | `wUp`, `pol` | interrupt, `waitForAction`, `waitForActionRaw`/`Wrp`, `wait`, set, close, move | an interruption wakes a waiter and is reported by the calls that can; both descriptors have one owner and stay a pair |
| `tcp_socket` descriptors | `tcp_socket.cpp` 47-221, 342-397; `tcp_socket_p.hpp` | `sock`, `isBlocking`, `timeoutMs` | connect, close, release, reset, move, swap, mode | every descriptor has one owner and is closed once; the flag tells the mode |
| `tcp_socket` transfer | `tcp_socket.cpp` 224-289 | none of its own | `send`, `receiveAll`, `sendSimple`, `receiveSngl` | no byte lost, repeated or moved |
| Address helpers, library initialisation | `tcp_socket.cpp` 454-543 | none | one library call each | not modelled |

How they interact. Application threads and the accept callback call a server.
The server thread (or the thread inside `StartSyncServer`) runs the accept loop:
it polls the listener and the `pol` end of the stopper pair. `StopServer` clears
flags and sends stop messages on the `stp` end every 2 ms until `serverRunning`
is clear; the asynchronous `StopServer` then joins the thread. All of that
coordination goes through the flag word and `serverTid`, which no lock protects.
`DestroyServer` closes the sockets if `serverRunning` is clear. `CStprSocks`
does the same wake-up for application threads, over a `StopperData` that it gets
from a server: `GetStopperData` starts a thread that connects to the server, and
has the accept loop (the server thread's, or one of its own) hand the accepted
end to a callback that wraps the application's.

What is hard: the order of plain flag stores against tests in another thread;
bit-field stores that lose one another; `poll` without a timeout; a stop that
arrives before, during and after a start, from another thread or from the
callback; two stops at once; destruction after a callback's stop; descriptors
whose numbers the kernel reuses; short counts, signals and broken connections.
`PROJECT.json` lists the hazards at their lines with the properties that cover
them, and says for the others why none does.

## Modules

| Module | Models | State and steps |
|---|---|---|
| `TcpServerBase` | class `tcp_server_base_p` | One action per statement that other threads can see. A thread's `pc` names the statement it is about to execute. The flag word is a record of Booleans; sockets are the set `open`; the kernel's part is `backlog` (accept queue) and `pol` (stop messages unread). `SetFlag` is one bit-field store, or with `SplitFlagStores` a load (`LoadFlags`) and a store of the whole word. |
| `TcpServerAsync` | `tcp_server_async` | `Start*` and `Spawn*` are `StartAsyncServerOnOtherThreadAndReturn`, `New`...`Extra` the body of the thread, `StopTest`, `StopRead`, `Join`, `Detach`, `ReapThrows` the public `StopServer`, `CallDelete` and `Free` the destructor. `Api` says which application thread may call what, `CallbackApi` what the accept callback calls. `fault` records a `std::thread` operation that throws or terminates. |
| `TcpServerSync` | `tcp_server_sync` | The thread that calls `StartSyncServer` runs the loop of `TcpServerBase`. |
| `ServerContract` | what `tcp_server.hpp` promises of start and stop | A server goes up, admits connections, runs callbacks one at a time, is asked to stop from outside or by its callback, goes down, and only then answers who waits outside. Both servers are refined to it. |
| `StopperData` | `GetStopperData`, `CreateServer` with it, `ChangeAcceptCallback`, over `TcpServerSync` | `Get*` are the statements of the caller, `Connect`, `AcceptAwaited`, `StoreStp` those of the temporary thread, `AcceptConnection`, `KeepOwn`, `PassOn`, `Finish` the accepting thread inside the wrapper. Connections carry an address: a port of the server's own or `Client`. `inside` are the threads that the wrapper has sent into the application's callback (699). `mishaps` is a history: the faults of `ConnectV4` so far, and "strayed" once the application's callback was given a connection of the server's own. `SyncSteps` and `SyncCalls` are the steps of `TcpServerSync`, except those that `CallCreate` and `AcceptConnection` replace. |
| `TcpSocket` | `tcp_socket` without its transfer | One step per call; `ConnectV4` in its system calls, so that other objects and other parts of the program open and close descriptors in between. `conn` is the kernel's table; `IsNext` hands out the lowest free number. `adopted` is a history: which objects were given a descriptor of another mode than their flag. |
| `Transfer` | `send`, `receiveAll` | Both ends of a stream. The bytes are 1, 2, 3, ... in the order in which the kernel takes them; it takes and gives any part at a time. `AsInt` is the cast to an int: of the size of a send (264), of the size of a `receiveAll` on a non-blocking descriptor (234-235), of what `recv` returns on a blocking one (227). A send may follow one that failed. `cut` is a history: a result was changed by the cast. |
| `ByteStream` | what `send` and `receiveAll` promise together | The receiver is handed what the sender passed, in order, without a gap. `Transfer` is refined to it. |
| `StprSocks` | `CStprSocks` interrupting and waiting | poll, read of the stop message and return are separate steps; a signal may end poll (`PollEnds`) and the read (`DrainInterrupted`). |
| `StprDescriptors` | the descriptors of `CStprSocks`, over `TcpSocket` | An object of `TcpSocket` is the `wUp` of a `CStprSocks`, `polNr` the number in its `pol`; `peer` is the kernel's: which descriptor is connected with which. `Owned` are the descriptors of an object, `Pair` what its next close closes: after `CloseSockets` also the number that `pol` keeps (821). `struck` is a history: the descriptors of others that were closed in this way. |
| `MCAsync`, `MCSync`, `MCStopperData`, `MCTcpSocket`, `MCStprDescriptors`, `MCStprSocks` | values for TLC | sets of threads, calls and objects; initial states in mid-run (`StartedSpec`, `RunningSpec`, `ServingSpec`). |
| `TcpServerAsyncProofs`, `TcpServerSyncProofs`, `StopperDataProofs`, `TcpSocketProofs`, `StprDescriptorsProofs`, `StprSocksProofs`, `TransferProofs` | proofs | Each extends the module it is named after; see "Proofs". |

A definition named after another with a suffix (`StopBig_StaysSet`) is that
definition with a plausible bug. Nothing uses it; replacing the original by it
shows that a property notices.

## Runs that pass

| Run | What it shows | Distinct states |
|---|---|---|
| `async_owner` | One application thread makes every call, in any order, against the server thread, clients and failures of `CreateServer`. No `std::thread` fault; open sockets in the loop; no use after delete; a stop returns, and only when the thread has ended; a waiting client is accepted; the inductive invariant of the proofs; `ServerContract` is implemented, also with its fairness. | 4,042 |
| `async_callback_stop` | The callback stops and destroys while one application thread destroys and another stops. Starts in the running server. The server thread ends (unless two stops reap one `std::thread`, see below) and never uses a closed socket. | 7,043 |
| `async_split_stores` | Lost bit-field stores and failing semaphores. They can hang a stop (below), but never let one return too early, close a socket under the loop, or free the object. | 9,264 |
| `sync_stop_running` | A second thread or the callback stops a synchronous server that runs and is not restarted meanwhile, and the callback destroys it: the stop and `StartSyncServer` return, in the right order; `ServerContract` is implemented. | 2,715 |
| `stopper_data` | One thread makes every call but create-and-start; its callback stops, destroys and calls `GetStopperData`; a second thread calls `GetStopperData`, on the running server too. `PairsConnected`: what is stored are the two ends of one connection, as many as asked for. `OwnStayInside`: the application's callback gets a connection of the server's own only before the wrapper is stored (between 641 and 695). `GetEndsOrStrays`: unless that happens, the call returns. `NotBlockedOnDestroyed`: the temporary thread is not left blocked on the semaphore that 713 destroys. `WrapperGone`: after the call the application's callback is in place and nobody is where the wrapper ends; a call that the serving thread answers leaves nobody in the callback through the wrapper. `StopIsNotUndone`: a stop from the callback ends the server, whatever `GetStopperData` calls the callback makes. `PolledStayOpen` as `SocketsOpenInAccept`, for a loop that runs before the stopper pair exists. | 47,625 |
| `tcp_socket` | Two objects, three descriptors, every call. `OneHolder`: no leak, no double close, no close of a number somebody else has. `FlagIsMode`: `isBlocking` disagrees with `O_NONBLOCK` exactly where `Reset*` or `ReleaseFrom*` took over a descriptor of the other mode and nobody has set the mode since. | 291,238 |
| `stpr_descriptors` | Two `CStprSocks`, four descriptors, and a program that opens and closes its own at any time. `OnePairHolder`: the same for `wUp` and `pol`. `InterruptReachesPol`: the two descriptors of an object are the ends of one connection. Both except the descriptors that the second close of a kept number has struck. | 186,078 |
| `transfer` | A sender in either mode, a blocking receiver, three send calls, of which some fail, sizes of both calls within and beyond an int, short counts, signals, close, reset. `NothingLost`: every byte once and in order, until a result is cut to an int, which only a call for more than an int can do. `SentIsPassed`: each result of `send` is what the kernel took of that message, and a size that fits is passed whole; a call that failed has passed less. `SendEnds` for a non-blocking sender that nobody reads from; `ByteStream` is implemented. | 204,039 |
| `stopper` | Two waiters in any of the calls. Whoever reads a stop message reports it, except `waitForAction` on a socket, which tells what it knows of that socket, or 0 (`StopReported`); an unread message leaves nobody in `poll`. | 21,578 |

## Runs that show a disagreement

Each checks one statement of a header or test that the code does not keep.

| Run | What happens |
|---|---|
| `v_delete_after_callback_stop` | After the callback's `StopServer` the destructor frees the object under the detached thread (`tcp_server.cpp` 286, 262). |
| `v_connect_refused` | `ConnectV4` returns 0 for a refused connection: it looks only at writability (`tcp_socket.cpp` 178-182). |
| `v_stopper_data_hangs` | `GetStopperData` on a running server starts the connecting thread (641) before it stores the callback that recognises the connection (695). If the server thread accepts in between, the application's callback gets the connection, and the caller waits for ever (703). |

The passing runs also need the restrictions that their configurations name.
Each line below drops one, or an exception of a property, or checks the formula
it names, in the given configuration; TLC then finds the named property violated:

| Change | Violated | Because |
|---|---|---|
| `async_owner`: `TwoCallers`, `Threads_2_1`, `OwnerAndStopper`, check `StopReturnsStopped` | yes | a second `StopServer` returns while the first still waits (`tcp_server.cpp` 276) |
| the same, check `NoThreadFault` | yes | two stops reap one `std::thread` (282-287), or a start overtakes the join (753) |
| `async_owner`: `SemaMayFail = TRUE` | `SingleOwnerInv`, and `NoThreadFault` alone | a start without semaphore leaves `shouldRun` set (750); the next stop joins nothing |
| `async_owner`: `SendMayBlock = TRUE`, no deadlock check | `StopReturns` | the stop message is sent every 2 ms into a buffer that the stopped loop does not read (498) |
| `async_owner`: `SplitFlagStores = TRUE` | `StopReturns` | the store of `inAcceptStack` undoes a concurrent clear of `shouldRun` |
| `sync_stop_running`: `Discipline <- WithoutStopWhenRunning` | `ImplementsContract`, and `StartReturns` alone | a stop between the stores of 343 and 344, or before them |
| `sync_stop_running`: `Discipline <- WithoutStartAfterStop` | `ImplementsContract`, and `StopReturns` alone | a restart between two looks at `serverRunning` (496) |
| `sync_stop_running`: `Discipline <- WithoutStartSound` | `ImplementsContract` | `CreateAndStart...` does not set `shouldRunBig` (364), and a server whose last `CreateServer` failed ends unasked |
| `sync_stop_running`: `Discipline <- WithoutStopAlone` | `StopReturnsStopped`, and `ImplementsContract` alone | a `StopServer` returns at once after the callback's, in the middle of the callback (326) |
| `sync_stop_running`: `Api <- BothEveryCall` | `ImplementsContract`, and `StopReturnsStopped` alone | a second thread destroys the server between the stores of 344 and 463, and a stop then finds it not started |
| `sync_stop_running`: `SplitFlagStores = TRUE` | `ImplementsContract`, and `StopReturnsStopped` alone | the store of `inAcceptStack` undoes a concurrent clear of `shouldRun`; a store of the stop undoes that of `serverRunning` (471), and the next stop takes the server for running |
| `sync_stop_running`: `RunningSpec`, `Api <- StopperTakesOver`, check `StopReturns` | yes | the late `serverTid = 0` of one run (472) makes the callback of the next wait for itself |
| `stopper`: `told[t] = "stopped"` for every `kind` | `StopReported` | `waitForAction` with a socket reads the stop message and returns the other socket's revents, often 0 (867) |
| `transfer`: `ReceiverBlocks = FALSE` | `NothingLost` | on a non-blocking descriptor `receiveAll` never advances `nReceiveTotal` (`tcp_socket.cpp` 234-243): bytes are taken from the kernel and the result is 0 |
| `transfer`: without the case `cut` | `NothingLost` | `receiveAll` of more than an int holds stores the bytes and returns a negative number (227) |
| `transfer`: without `size <= IntMax` | `SentIsPassed` | a size beyond an int sends nothing, or the rest modulo 2^32 (264); the result says so |
| `stpr_descriptors`: without `struck` | `OnePairHolder`, `InterruptReachesPol` | `CloseSockets` keeps the number of `pol` (821); the next close of the object closes whoever has it by then, possibly the very pair that `SetSockets` is given |
| `stopper_data`: `Care = {"sound"}` | `StopIsNotUndone`, and `GetEndsOrStrays` alone | 711 restores a flag word from before a stop, or from before the server ended; a stop during the call ends the loop before the connections are accepted, and 714 waits |
| `stopper_data`: `Care = {"apart"}` | deadlock, and `GetEndsOrStrays` alone | `isCreated` with `hasError`, after a second `CreateServer` failed: the loop of `GetStopperData` ends at once, and 714 waits |
| `stopper_data`: check `GetEnds` | yes | as `v_stopper_data_hangs`, from the start of the server |
| `stopper_data`: check `[][caller # NoTid /\ caller' = NoTid => inside = {}]_sdVars` | yes | a call that runs its own accept loop, because the serving thread is in `ServerAcceptInline`, where it waits (627), deletes the wrapper and the copy of the callback (716-717) while the serving thread is inside that copy for another client (699): a use after free |
| `stopper_data`: `tmp # "wait"` for `permits > 0` | `NotBlockedOnDestroyed` | the temporary thread may still have to make its wait (653) when the semaphore is destroyed (713) |
| `stopper_data`: `ConnectFaults = {"abandons"}`, no deadlock check | `PairsConnected` | a signal ends `ConnectV4` after the kernel has queued the connection; the loop accepts it, recognises it (673) and posts for it |
| `stopper_data`: `ConnectFaults = {"unbound"}`, without `mishaps` | `OwnStayInside` | `ConnectV4` ignores that `bind` failed (`tcp_socket.cpp` 165), and nobody recognises the connection |

By reading alone: `CreateAndStartSyncServerOnThisThread` returns -1 right after
it has created the listener (`cnCrtRes<1`, 359); the action `CreateAndStart`
does so too. The destructor of a server that was moved from calls its members
through a null pointer (201-206, 260-264). Of two threads that wait on one
`CStprSocks` and are told of one message, one blocks in the read, since the
temporary `tcp_socket` makes `pol` blocking (859).

## Bounds

- Threads: one or two application threads and one identity for server threads.
  A server owns one `std::thread`, and with one owner a new one starts only
  after the old one was joined; an identity is used again. A start beside a
  thread that the callback detached is left out. The proofs have no such bound.
- `MaxClients` 1 or 2: the loop handles one connection per turn, so two are
  enough for "one more is waiting".
- `PolCap`: the largest value stands for "that many or more" and a read may
  leave it unchanged; only `SendMayBlock` takes it for the real size.
- `CreateServer` and the closing part of `DestroyServer` are one step each: that
  two threads which both call `DestroyServer` (516-534) close the same numbers
  twice is not seen. An
  application creates a server only while no server thread is left and none was
  asked for. Of `GetStopperData` inside `CreateServer` these modules have only
  its result: the pair is open, with zero or one message unread.
  `PairsConnected` of `StopperData`, where the call is modelled in its steps,
  says the same of them.
- `StopperData`: one `GetStopperData` call at a time, for one or two pairs
  (`Count`) over two ports; a place in the accept queue is left for the server's
  own connection. Nothing orders the temporary thread (641) and the store of the
  wrapper (695), as in the code: where that race is lost the call never returns,
  and `GetEndsOrStrays` says that nothing else keeps it from returning. `Care`
  names what the application takes care of: no start, end, stop or
  `ChangeAcceptCallback` meanwhile ("apart"), and no call after a `CreateServer`
  that failed ("sound"). A copy of a `std::function` is one step.
- The accept of a connection that is still waiting succeeds; a connection that
  is gone is `ClientAborts`. The server thread's signal handler has no effect
  but `PollInterrupted`.
- `async_callback_stop` starts in a running server, a state that the start of
  `async_owner` reaches; so does `v_stopper_data_hangs` in the synchronous one.
- `Discipline` in `TcpServerSync` names what an application must keep to for
  the stop to work from another thread (stop only when it runs, and not beside
  a stop of the callback; restart only after the stop has returned), and what
  create-and-start needs (a server without error). `stopper_data`, in which
  only the callback stops, needs none.
- `Transfer`: three send calls (`Messages`), failed ones counted, so that one
  that fails is followed by one that passes everything and one behind that; two
  bytes of buffer, so that a message of three is split and the next starts
  behind an unread one. An int has three bits, so that a size of `send` can be
  negative (5) or too small (10) after the cast, and a `receiveAll` can ask for
  as much as an int holds (3) or more (5); `MAX_NUMBER_OF_ITERS` is 2 instead of
  100000.
- `StprDescriptors`: four descriptors are a pair for each object, or one pair and
  two of somebody else's that reuse a closed number. `FewStruck` follows no
  behaviour beyond its second struck descriptor; the proofs do.
- `TcpSocket`: three descriptors for two objects and the rest of the program
  make every reuse of a number possible.
- Moves of servers are not modelled, nor memory layout (`FD_SET`, widths).

## Fairness

Weak fairness of every thread's own next step: the operating system runs every
thread that can run. Strong fairness of `PollReady`: signals do not interrupt
every single `poll` that has something to return. Strong fairness of
`CallbackReturns`: the application's callback returns, even if it may also call
the server first; in `StopperData` separately inside and outside a
`GetStopperData` call, so that calls of the callback's own cannot keep it from
returning. Strong fairness of the temporary thread there, whose connect has to
find a free place in the accept queue: the kernel repeats it. No call, client,
signal or peer's answer is assumed to come. In `Transfer` only the sending thread is fair; nobody is made to read.

## Proofs

Each theorem holds for any sets of threads, objects, descriptors and ports and
for any bounds. Where it needs a hypothesis, this is a constant formula with a
name, and the runs and the table above show for each part what goes wrong without it
(for lost stores in the asynchronous server and for `Care` that is liveness or
`StopIsNotUndone`, and the theorem itself may still hold; for `NoFaults` it is
`PairsConnected`, and with both faults TLC finds `NotBlockedOnDestroyed`,
`WrapperGone` and `PolledStayOpen` true in `stopper_data`). That the calls of the
server come from one thread is, for `Careful`, taken over from the servers.

| Module | Theorems | Hypothesis |
|---|---|---|
| `TcpServerAsyncProofs` | `TypeCorrect` (`TypeOK`) | none |
| | `OwnerInvariant`, `ThreadSafe` (`NoThreadFault`), `SocketsSafe` (`SocketsOpenInAccept`), `DeleteSafe` (`NoUseAfterFree`), `StopWaits` (`StopReturnsStopped`), `KeepsContract` (`ImplementsContract`) | `SingleOwner` |
| `TcpServerSyncProofs` | `SyncTypes` (`TypeOK`) | none |
| | `SyncInvariant`, `SyncSocketsSafe` (`SocketsOpenInAccept`), `SyncStopWaits` (`StopReturnsStopped`), `SyncKeepsContract` (`ImplementsContract`) | `Managed` |
| `StopperDataProofs` | `SdTypes`, `PairsAreConnected`, `NotBlocked`, `WrapperIsGone`, `PolledAreOpen` | `Careful`, `NoFaults` |
| | `OwnAreKept` (`OwnStayInside`) | `Careful` |
| `TcpSocketProofs` | `SocketTypes` (`TypeOK`), `DescriptorsHeld` (`OneHolder`), `ModeKept` (`FlagIsMode`) | none |
| `StprDescriptorsProofs` | `PairTypes` (`DTypeOK`), `OnePair` (`OnePairHolder`), `InterruptsArrive` (`InterruptReachesPol`) | none |
| `StprSocksProofs` | `StopsAreReported` (`TypeOK`, `StopReported`) | none |
| `TransferProofs` | `TransferInvariant`, `TransferTypes` (`TypeOK`), `SendTells` (`SentIsPassed`), `KeepsStream` (`ImplementsStream`) | none |
| | `BlockingLosesNothing` (`NothingLost`) | `ReceiverBlocks` |

The theorems are about `Spec`, without fairness, and so hold of every `FairSpec`.
The assumptions on constants that they rest on (`BaseAssumption`,
`AsyncAssumption`, `SocketAssumption`, ...) say that bounds are positive
numbers, that descriptors are numbers, and that "none" is none of them.

**Asynchronous server.** `SingleOwner` says: one application thread makes the
calls, the callback makes none, no bit-field store is lost, no semaphore fails.
Clients, signals, failures of `CreateServer` and the order of the calls are
arbitrary. `v_delete_after_callback_stop` shows why the callback is excluded.
`StopReturnsStopped` is not inductive: it needs that the `std::thread` object,
the thread it owns and `shouldRun` agree whenever the owner is between two
calls, and how far apart they may be at each statement of a call;
`SocketsOpenInAccept` needs that a thread which may use a socket has set
`serverRunning` and that nobody else clears it. `SingleOwnerInv` says this in
two parts, `OwnerInv` by where the application thread is and `ServerInv` by
where the server thread is. The proof goes action by action; `ServerJump`,
`OwnerJump` and `LonelyJump` are the frames that let each action show only what
it disturbs. For the refinement each step is matched with the step of
`ServerContract` it stands for (`ServerSimulates`, `OwnerSimulates`): the spawn
goes up, the clear of `shouldRun` is the request, the end of the thread is the
going down, the join is the answer.

**Synchronous server.** `Managed` says: one thread starts, destroys and deletes,
any number of others stop, the application keeps the whole `Discipline`, no
bit-field store is lost. The callback may stop and destroy. What is hard here is
that a stop of another thread looks at `serverRunning` only, while the thread
that serves sets and clears it, and the callback's stop clears it in the middle
of the loop. `SyncInv` says by the position of the serving thread what the flags
are (`OwnerInv`: while `serverRunning` is clear inside the loop, both run flags
are clear too, so that the loop is on its way out), and by that of a stopping
thread that it is alone and that nobody is on the way into the loop
(`StopperInv`). From the two parts follows that a stopping thread which finds
`serverRunning` clear finds nobody in `RunServer` (`NotRunningIsOver`), which is
`SyncStopWaits` and the answer in the refinement. Here the last store before the
loop goes up, and `Unmark` goes down; the callback's stop is a request that
waits for nothing.

**`GetStopperData`.** `Careful` says: one thread makes the calls of the server
(any thread may call `GetStopperData`) and the application keeps `Care`.
`NoFaults` says that `ConnectV4` meets no signal and no failed `bind`. When the
wrapper is stored, and who accepts before, is arbitrary. None of the properties
is inductive. What carries them is `LinkInv`: at most one connection of the
server's own is on its way (`OneOwn`), it comes from the address that the
temporary thread has bound, and where that thread is tells how far the two lists
of ends are apart: `pols` is one longer than `stps` exactly between the accept
and the store of the other end; a connection that strayed to the application's
callback leaves the temporary thread waiting for ever, and the lists as they
were. `CallInv` and `PlaceInv` tie the position of the caller, of the accepting
thread and of the temporary thread to the callback in place (`clbk`) and to the
saved flag word; `ListenInv` and `CreateInv` say what is open while the server
has no pair yet. `InsideInv` is for `WrapperGone`: nobody enters the application's
callback through the wrapper unless a call is under way, and when the serving
thread posts (680-681) it is itself the one that could have. `SdStep` has one
lemma for each kind of step: `InnerStep` for the loop inside a call, `OuterStep`
for the steps of `TcpServerSync`, `GetStep` for the statements of the caller,
`DispatchStep` and `WrapperStep` for the wrapping callback. `OwnAreKept` has no
`NoFaults`: until the first fault the behaviour is one without faults
(`UntilFault`), and after it the property promises nothing.

**Descriptors.** For `OneHolder` of `TcpSocket` one thing has to be added to be
inductive: `ConnectV4` closes its descriptor without a test, so an object inside
`ConnectV4` must hold one (`ConnectHolds`). The argument is by the kind of step:
one that leaves `sock`, `hand` and `other` alone and opens or closes nothing
(`KeepsHolders`), one that closes (`CloseKeepsHolders`), one that takes a
descriptor from the application or gives one back, one that exchanges two.
`ModeKept` needs `OneHolder`: the mode is the descriptor's, the flag the
object's, and they stay in agreement, or in the disagreement that `Reset` and
`ReleaseFrom` can start, because nobody else holds the descriptor; `ModeInv` says
where inside `ConnectV4` they may differ. For `CStprSocks`
`OnePairHolder` and `InterruptReachesPol` need one another: a descriptor is
closed once only if the two of an object are the ends of one connection, and
they stay so only if nobody else closes one. `PairHolders` says who holds what
when an object keeps the number of a closed `pol`; `PeerApart`, that no
descriptor is connected with itself, is what `SetSockets` relies on. There is no
hypothesis on who opens descriptors when: what a second close strikes is in
`struck` from then on, and the theorems say that the damage does not spread to
any other descriptor.

**Waiting.** `StopReported` looks at a returned call only; `DrainInv` follows it
from `poll` on: what decides the result does not change after the read. For
`waitForAction` on a socket it says exactly how the stop gets lost.

**Transfer.** `TransferInv` says that the bytes handed out, stored by
`receiveAll`, in the kernel and not yet taken are one unbroken run of numbers,
and where it is cut; what the call of `send` in progress has passed is counted
from where that call began (`first`), so that calls that failed before do not
matter. No size is assumed to fit into an int. On a non-blocking descriptor
`receiveAll` loses what it took, so `NothingLost` needs `ReceiverBlocks`.
`KeepsStream` needs no hypothesis: `ByteStream` lets bytes be missing at the end,
that loop hands out nothing at all, and after a result that was cut nothing
counts as handed out.

Only model-checked: liveness, all of it, and the fair form of the contract (the
prover has no `ENABLED`); `StopIsNotUndone`; the asynchronous server with two
callers, with a callback that calls it or with split stores.

## Not modelled

Address helpers and the library initialisation keep no state. Moves of servers
exchange one pointer, and what is wrong with them shows by reading. `SetTimeout`,
keep-alive and `getPort` set or read one kernel option. The SIGPIPE action that
`RunServer` saves and restores is process-wide and matters with two servers.
Memory layout (`FD_SET` beyond `FD_SETSIZE`) and a `std::function` assigned
while it executes (695, 236) are undefined behaviour without a state to follow.

## Plan

1. `StopReturnsStopped`, `SocketsOpenInAccept` and `NoUseAfterFree` of the
   asynchronous server proved with split stores and failing semaphores, as
   `async_split_stores` checks them; `SocketsOpenInAccept` with a callback that
   stops and destroys, as `async_callback_stop` does.
2. `StopIsNotUndone`, as far as it is safety: the flag word that
   `GetStopperData` restores is not older than a stop.
3. The server's descriptors over repeated `CreateServer`, on top of `TcpSocket`.
4. `SigpipeActions`: the save and restore of the SIGPIPE action around
   `RunServer` in two servers.
