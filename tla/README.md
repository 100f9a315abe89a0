# A TLA+ model of mineQtScrpy

mineQtScrpy is a Qt program that finds Android devices in the local network,
speaks the ADB protocol with them over asio sockets and runs commands (push,
shell) on them. This directory models the session with a device, what is built on
it and beside it, and the registry of devices. The code is in the middle of a
rewrite from blocking transports to coroutines; what has no source (`WaitCommandAwaitable`, `waitConnectCommand`, `getStreamDeque`)
is modelled from how the code uses it and marked external; where two names stand
for one thing in the middle of a renaming (`currentState` and `deviceState`,
`connectDevice` and `asyncConnectDevice`, the ids `pushFile` gives to
`generateDATA`), the model takes the newer one.

## The system

| Component (source under `src/`) | State | Operations | Talks to |
|---|---|---|---|
| Session, out (`adbServer/context/DeviceSession`) | `sendQueue_`, `sendMutex_` | `send`, `doWrite` and its handler | socket; any thread calls `send` |
| Session, in (`DeviceSession`, `protocol/AdbProtocol`) | `recvBuffer_`, `tempBuf_` | `doRead`, `parseAdbMessage` | socket, dispatch |
| Session, dispatch (`DeviceSession`, `AdbStreamContext`, `wait_command_async`) | `streamContexts`, `pendingMessages`, `streamWaiters` | `dispatchToContext`, `checkWaiters`, `coWaitCommand`, `addWaiter`, create and remove a context | handler coroutines, handshake callbacks |
| Push (`handlers/pushHandler`) | local and remote id, `openedServices` | `CommandHandler`, `openSyn`, `pushFile` | session |
| Shell (`handlers/shellHandler`) | flags of the device context, shared by the client threads | `openShell`, `execShell` | blocking transport |
| Handshake (`server/WifiServer`, `states/*`) | `deviceState`, `authInfos` | `startConnect`, `handleAuth*`, the states' `handle` | session, keys |
| Server (`code/AdbServer`, `utils/ThreadPool`) | `deviceContextMap`, task queue, `stopFlag` | register, connect, disconnect, accept, `handleClient`, `submit`, `shutdown` | states, pool threads |
| Scanner (`scanner/WifiScanner`, `utils/NetWorkUtils`) | `scanned_targets`, timers | `startScan`, periodic scan, address ranges | callbacks |
| Keys (`utils/CryptoUtils`) | the pair in memory, two files | load, generate, save, sign | handshake |
| Remote session, bridge (`RemoteSession`, `ForwardBridge`) | a socket and a buffer each | read, write | client programs |
| GUI (`CustomWidgets`, `Manager`, `Device`) | `showLayout`'s bracket, device lists | `adjustLayout` | scanner, server |

What is hard here: `send` runs on pool threads while completion handlers run on
the thread of the io_context; TCP cuts the stream anywhere; a callback of
`checkWaiters` resumes a coroutine that waits again in the list that is being
walked; answers race timeouts; the connection may break in the middle of a
packet; states go on before what they started is over. PROJECT.json lists every
such place with its line.

What makes each component correct: out, the bytes are the packets in order and
each whole, none is forgotten; in, the messages do not depend on the cuts;
dispatch, a waiter and its message never miss each other and every message goes
to one right client once; push, a block is sent after the previous one was
acknowledged, to the stream the device opened; handshake, commands follow
authentication; server, every task runs and contexts are not used after their
removal; scanner, a target that appears is found; keys, the two files belong
together; grid, the bracket holds the number of devices.

## Modules

The session and its clients:

- `SessionSend`: `send()` and `doWrite()`. Every thread goes through the
  mutex, the emptiness test, `push_back` and the start of a write as separate
  steps; every `async_write` ever started moves its bytes on its own, so that
  two overlapping writes would be visible. A packet is its rank of acceptance.
- `OutboundChannel`: what `send` promises, a byte channel that breaks at most
  once. `SessionSend` implements it: `broken` is "some write failed".
- `Framing`: `doRead()` and `parseAdbMessage()`. A byte is known by its
  message and offset; the length field is read where the code reads it, at a
  fixed offset of whatever the buffer starts with.
- `Packets`: the bytes themselves, in the other direction. The fields, headers and
  sync records of a push, the buffer `pushFile` reads every block into, ids that
  are unsigned in a packet and int in the handler, and a device that takes all
  of it apart again.
- `DeviceSession`: from `handleMessage()` on. One stream and one coroutine per
  handler, client 0 for the handshake. `checkWaiters` is a loop of steps with
  its iterator; in its callback the resumed client may wait again before the
  loop goes on, or later. Time is an action that lets a wait expire. What is in
  no source, the look into the queue before a wait and the end of a wait that ran
  out of time, is modelled from its use. `checkWaiters` does not end such a wait:
  it erases the waiter without a call, and the comment above it
  (`DeviceSession.h:84`) says that the wake-up by a timer is to be added later
  ("后期添加"). So an overdue client may come back in the model, and need not.
- `PushHandler`: `CommandHandler`, `openSyn` and `pushFile` on top of
  `DeviceSession`. A step of a handler is a step of the session with the
  handler's own variables beside it; `at` is the wait a handler is in, `sent`
  what it sent. The device answers OPEN, and what is addressed to the id it
  gave, once each.
- `WifiAuth`: the states that lead to the handshake and its callbacks, as client
  0 of `DeviceSession`, with a device that knows our key, asks its user (who
  accepts or does not), or wants no authentication. `at` is the answer the
  handshake waits for.
- `ShellHandler`: `openShell` and `execShell` on the blocking transport, which
  drops what a wait does not expect. The device answers in order and writes its
  output in pieces, each after the OKAY of the one before, and may cut the prompt
  at the end in two, which `execShell`, which looks at one WRTE at a time, does not
  find then. A wait of `execShell` that gives up makes its result false and
  nothing else: `CommandHandler` returns true. `clean` is history: no wait gave up,
  no two threads were in the handler at once, and of each output the last WRTE,
  and no other, looked like one with a prompt.
- `ClientThreads`: the threads of `AdbServer`'s clients on top of `ShellHandler`.
  `handleClient` notes the command in the context all threads share and executes
  what is noted by then; a message that is no JSON ends the process.

The server and its surroundings:

- `AdbServer`: the registry, and the jobs that connect to a device. A context is
  known by its place in memory, so that a job's pointer can outlive it, and
  `setState`, which looks the device up again, can meet another or make one.
- `DeviceManager`: the slots of the GUI thread on top of `AdbServer`, for
  `androidManager` and `DeviceManager`. `cut`, `removed` and `raced` are history.
- `ServerSocket`: `start()`, called twice, and `acceptSocket`.
- `ThreadPool`: `submit`, `workerLoop` and `shutdown`, each a step under the
  mutex and a notification outside it; `condVar.wait` is two steps, the look at
  the predicate and the sleep, and may wake up for no reason. `acceptSocket` is
  the task that never returns. `finished` and `early` are history.
- `IpRange`: `getIpRange` and the loops of `scanFromIpRangeAny`. A mask is the
  size of the block of addresses it leaves; counters wrap around; an address
  goes through its text.
- `NetworkScanner`: the periodic timer, sweeps, and for every target an attempt
  to connect that races a timer. A sweep is one handler of the io_context, but
  `start` and `stop` come from another thread in the middle of it. `due` counts
  the handlers of the periodic timer that can no longer be cancelled.
- `KeyStore`: `CryptoUtils` from run to run of the program: the two files, what is
  in memory of them, and what the device knows. Opening a file for writing
  empties it, and the program can die between any two steps. `promise` is the
  pair of this run if nothing failed since it was made.
- `ShowLayout`: the number of devices, the bracket it is taken to be in, and the
  grid.
- `MC*`: the instances for TLC. `*_proofs`: theorems and proofs.

`MCFraming`, `MCScanner` and `MCAdbServer` check two modules each that share no
variable, `MCLocalState` three: a behaviour of the instance is a behaviour of one
of them, while the others stay as they began.

Names follow the code; `pc`, `loop` and `status` say where a thread, the read
loop or a client is. Definitions under "What-if" are the model with a plausible
bug; no specification uses them, and each makes one property fail.

## What the runs check

- `session_send`: two threads, two packets each, of one and two bytes. Two
  senders and the io thread are all the parties there are, and two packets each
  put up to four in the queue while a write is under way or has failed. No
  packet is forgotten (`QueueIsServed`), nothing follows a torn packet
  (`SilentAfterFailure`), and the session implements the channel with its
  liveness (`ImplementsChannel`): what is on the wire is the packets in order.
- `framing`, in: three messages of 0 to 2 payload bytes after a header of 2, reads
  of 1 to 5 bytes: reads end inside a header and inside a payload, bring a whole
  message and a part of the next, or two messages (`MessagesIntact`,
  `EventuallyDispatched`). Out: every file of up to five bytes of two values in
  blocks of two, fields of four bytes of four values, and ids with the highest bit
  of a field set and without. The device ends up with the file (`FileIntact`), in packets it
  reads as they were made (`PacketIntact`).
- `device_session`: the handshake and two handlers, three messages of four
  commands. The largest payload the device announces equals the id of a stream,
  so that a CNXN could be mistaken for a stream's message. Every message goes
  to one client of its stream, once and in order, waiter and message never pass
  each other, nobody is resumed after its timeout, the read loop survives, and
  who waits for a message that is there is resumed.
- `push_handler`: two pushes of files of up to one block, answers late or never,
  waits that expire. At most one packet is unanswered (`OneInFlight`), success
  means that the device acknowledged DONE (`SuccessIsAcknowledged`), a stream
  that was opened is addressed by the device's own id (`OwnStream`), and with a
  device that answers in time every push that opened its stream ends (`PushEnds`):
  no answer that was given is waited for. Nothing is said of a push whose wait ran
  out of time, which may stay suspended for ever. Eight messages are all the answers two pushes of one block
  can get, with one message to spare.
- `push_second`: a finding. The second push of a session finds the service
  marked as open, binds its initial remote id -1 and sends to it: the line that
  would fetch the bound id is commented out.
- `wifi_auth`: every kind of device, one command handler beside the handshake,
  waits that expire. A rejection and an acceptance are never confused
  (`VerdictUnderstood`), a success leaves no message of the handshake in the
  queues (`NothingStale`), and with a device that answers in time the two sides
  never wait for each other (`HandshakeCompletes`). A device without
  authentication answers the first CNXN with CNXN, which nobody waits for: its
  handshake ends with the expiry of the first wait, without a retry.
- `wifi_auth_state`: a finding. Authentication is logged as successful, and the
  executing state entered, before the device has answered anything.
- `adb_server`, registry: two devices and two jobs, so that a device is connected
  to twice or beside another, while slots announce, add, remove, connect and
  disconnect them; one worker less than jobs would hide races, so there is one for
  each. A device is registered with all it needs or not at all, and no job follows
  a dead pointer, except for a device that was unregistered while a job had looked
  it up (`RegistrySound`): the exception is real, and the model reaches empty
  contexts and dead pointers there. A device that is announced again keeps its
  context (`ContextKept`), and every connection begins its handshake unless the
  device is unregistered (`ConnectStarts`). Clients: two threads, two commands,
  outputs of up to two pieces, waits that give up, prompts that are cut. `execShell`
  collects the device's output for a command, all and nothing else (`OwnOutput`),
  and no WRTE is left unanswered or behind (`WritesAcked`), as long as the history
  is clean; commands always end (`CommandEnds`). Two threads in the handler at once
  do mix their outputs; so does a command after one whose wait gave up.
- `shell_report`: a finding, on the same instance. A command whose wait gave up is
  reported like one that was executed (`ReportedIsExecuted`).
- `server_socket`: a finding. The second `start()` replaces the listening socket
  by one that cannot be bound, and `acceptSocket` never accepts again.
- `scanner`, range: sixteen addresses of four parts, networks of every size at
  every place, the last one included, and ports in either order. A sweep tries
  the hosts and nothing else (`SweepCovers`) and ends (`SweepEnds`): the counter
  of addresses would wrap around if `getIpRange` did not leave out the broadcast
  address, the one of ports wraps around when `endPort` is 65535, which
  `PairsAssumption` leaves out (the default is 5555). Timer: two targets, so that
  attempts overlap, and up to two queued handlers of the periodic timer, as many
  as a `start` beside an expiry makes. A socket reported before its timeout is not
  closed by it, and later sweeps leave it alone (`FoundStays`); after `stop` no
  sweep begins (`StopHolds`); the scan goes on until then or until it finds no
  network (`ScanGoesOn`); no attempt hangs (`AttemptEnds`). A connection reported
  while the handler of its timer is queued is closed afterwards: the model
  reaches that, and `FoundStays` says where it stops.
- `local_state`, keys: any number of runs of the program with up to two faults
  (a crash, a file that cannot be opened, read or written, an OpenSSL call that
  fails), and pairs enough for them. With one fault the device is never offered
  another key than the one that signed (`PairMatches`), and there is always a
  later moment when it knows the key the program signs with (`KeysLearned`);
  without any the pair stays the same from run to run (`IdentityKept`). Two
  faults are one too many: the files can then hold halves of two pairs, and no
  later run notices. Grid: the table of the code, every number of devices from 0
  to 32, changed at will. If the number stays in one bracket and goes on to
  change, the layout gets there and has a cell for every device (`GridSettles`);
  one change is not enough, since it moves one entry of the table only. Pool:
  two workers and three tasks, of which one never returns: the smallest pool in
  which one worker is lost to the accept loop and another has to do the rest,
  with more tasks than workers. Tasks are submitted before, between and after
  the steps of `shutdown`. No wake-up is lost (`WakeUpsSuffice`), workers leave
  only when what was submitted before is done (`DrainedBeforeExit`), every task
  runs and `shutdown` returns unless endless tasks hold the workers
  (`EveryTaskRuns`, `ShutdownReturns`): with the accept loop running, `shutdown`
  never returns.

Deadlock is checked in `adb_server`, `shell_report`, `scanner` and `local_state`,
which never stop, but for a pool that is being shut down, which a step of its own
(`PoolRests`) lets rest. It is off in the others: the device may stop sending and
callers may stop calling, a push is over, and every client of the server has its
thread.

Fairness. `SessionSend`: a thread inside `send` goes on (it holds a mutex for a
few statements) and an asynchronous write moves on or fails (asio completes
every operation). `Framing`: the loop inside the read handler goes on, and bytes
that arrived are read. `DeviceSession`: `checkWaiters` is a loop of one thread.
Nothing is assumed of callers, the device or the clock. `PushHandler` adds that
a resumed handler goes on and that the device answers what it has an answer for
(strong fairness: the io_context serves its handlers in turn, also between
messages, and both become possible again and again between other steps). Its clock
is free, and no timer brings an overdue wait back, because none is in the source.
`WifiAuth` adds to `DeviceSession` that the worker leaves `auth()`, that a callback
that is due runs, and that the device answers what it has an answer for; its clock
is free.
`ClientThreads`: a thread inside `handleClient` goes on, and its waits give up
(they count their attempts); nothing of clients or the device. `DeviceManager`: a
slot that was entered is left and the threads of the pool go on; nobody has to
call a slot. `ServerSocket`: both jobs are on workers of their own and go on.
`ThreadPool`: threads that can run do, a mutex that becomes free again and again
is acquired in the end (strong fairness of a worker's steps), a task that is
not endless returns; nobody has to submit or to shut down.
`IpRange`: a sweep is one call. `NetworkScanner`: queued handlers run, also
between sweeps that follow each other (strong fairness), and timers expire; a
host need not answer. `KeyStore`: the program is started and closed again and
again, and while it is up the device is connected to and its user asked in the
end, though not in every run. `ShowLayout`: none; `GridSettles` says what it
needs of the changes.

## What is proved

`SessionSend_proofs`, for every set of threads, packet size and number of calls:
types, `OneWrite`, `BufferAlive`, `WireInOrder`, `QueueIsServed`,
`SilentAfterFailure`, and that every step is a step of `OutboundChannel` or a
stutter. The invariant says more than the properties: who holds the mutex, that
the queue is the interval of ranks behind the last popped packet, that the
write under way belongs to its front, and that the end of the wire is that
write's offset. Without the last two neither the order of the bytes nor the
refinement is inductive.

`Protocol_proofs`, in, for every header and read size: types, `MessagesIntact`,
`DrainedBeforeRead`. The invariant ties the buffer to the stream: it is the
stretch from the end of the last message dispatched to what was read. Out, for
every file, path, block size and pair of ids: `parseAdbMessage` reads what
`generateMessage` made as it was made (`MessageRead`), `PacketIntact` and
`FileIntact`. The fields come first: `Extract` reads what `Field` wrote, by four
divisions with remainder, wherever it stands in the bytes (`FieldRead`). The
invariant (`PacketsInv`) then names the records of the push: the k-th is made of the
file between two positions, where the one before ended; the device has used the
first r of them, what it holds is, byte for byte, those up to s, and the one at s
is the payload of the packet on the wire, if one is. `FileIntact` follows when
r, s and the number of records are the same; it says nothing of the records in
between, which is why it is not inductive.

`DeviceSession_proofs`, for any streams, commands and number of messages: types,
`NoMissedMatch`, `RightStream`, `ReadLoopSurvives`, `ResumedOnce`, `ExactlyOnce`
and `OrderKept`. The invariant has one part per reason: a context is always
listed among the waiters (so `findWaiters` cannot throw), a client has at most one
wait that has not expired, and only while it is suspended (so a callback that
waits again never meets its own older wait), only a stream with a context has a
client that may go on (so nobody takes from `pendingMessages` what was meant for
a stream), and inside `checkWaiters` the part of the list behind the iterator has
no match. For the last two properties a ledger of the messages is added
(`Ledger`): every queue is in the order of arrival, `pendingMessages` holds nothing
for a stream that has a context, what a client was given came before what it can
still get of the same command, and what is nowhere went with its context.
Neither property is inductive alone: a message that moves from
`pendingMessages` to the queue of a new context must come before what is there.
`NobodyForgotten`: whoever waits in time is in the list of waiters, for one of
the sets of commands it waits for, although the loop erases entries and callbacks
add others under the iterator. With `NoMissedMatch` it is what the clients build on.

`PushHandler_proofs` and `WifiAuth_proofs` show that every step of a push and of
the handshake is a step `DeviceSession` allows its clients, which carries those
invariants over to them, for any number of pushes and blocks. On top of that:

- `OneInFlight`, `SuccessIsAcknowledged`, `OwnStream` and types. The invariant
  (`PInv`) counts: the device never answers more packets than ask for it, and a
  handler that goes on was given as many answers as it asked for, of which there
  are not more than the device sent because, by the ledger of the session, each
  was given once. Beside it, a push is in one of three courses: not begun,
  opening a stream of its own, or finding the service marked as opened; in the
  second the id it sends to came with an OKAY for its own stream.
  `NoPushStandstill`: while such a push waits in time, the device still owes it
  an answer or the answer is in its queue and found by the waiter, so that the two
  never wait for each other. It counts the other way than `OneInFlight` (no
  answer is short) and needs `NobodyForgotten`.
- `VerdictUnderstood`, `NothingStale` and types. The invariant (`HInv`) says that
  the k-th message the handshake was given answers the k-th packet it sent, and
  that at most one more is on the way, in `pendingMessages`, which answers the
  next. What the device answers shows what it is, so that the place the handshake
  is at tells what kind of device it may be, and of the two answers that may be
  waited for at once only the right one can come. `NoStandstill` is the same for
  the handshake, with a device that has the key or asks its user for it.

`ThreadPool_proofs`, for every number of workers and finite set of tasks: types,
`WakeUpsSuffice` and `DrainedBeforeExit`. What a worker saw of the predicate
stands until it acts on it, because it holds the mutex; a task is in one place
at a time; and what was queued before the flag is queued, running or over.
`WakeUpsSuffice` counts: a notification consumed is a worker on its way.

`Scanner_proofs`, for every width of addresses and ports and every network:
`SweepCovers`, and that an address survives its way through text; the invariant
keeps the counters inside the range, one below their largest value. For any
targets: types, `FoundStays`, `StopHolds` and `ScanGoesOn`. A socket is closed only by a
timer that went off, so that one handed over while its timer ran, which ended
the timer, is never closed; and a sweep under way is what sets the timer again,
also when `stop` and `start` came in the middle of it. `SweepIsFinite` gives the
variant of the two loops, the pairs of address and port that are left: it is a
number and every step lowers it, so that no counter that wraps around starts
the sweep over.

`Server_proofs` has four parts of the program that share no variable, for any
number of devices, workers, clients, commands, keys, faults and entries of the grid:

- `RegistrySound`, `ContextKept` and types. `ManagerInv` follows a device through
  the places that hold something of it: the map, the slot of the GUI thread that
  looked it up and has not put it yet, the list, and the jobs with their
  pointers. A job that was handed a context finds it in the map, filled in and
  with a state, unless the device is in `raced`; a slot that found no context may
  meanwhile meet one a job's `setState` has made, but only an empty one. Every
  step is reduced to the set of devices it takes something away from: the jobs
  of all the others keep what they have.
- `OwnOutput` and `WritesAcked`. `ShellInv` says, as long as the conversation is
  `clean`, that one thread at most is in the handler, that only the last shell
  opened has something to say, and that this thread and that shell are at the
  same place: which of OKAY and WRTE it has still to send, to be told to send, or
  has in the inbox, and how many pieces the thread has.
- `PairMatches`, `IdentityKept` and types. `KeyInv` says where the promised pair is
  at every step of loading and saving (in the files, in memory, half in each),
  and that before the first fault there is no key of another pair anywhere. The
  first fault takes the promise away but adds no key; only a new pair does, and
  it comes with a promise of its own.
- `TableSuffices`: `adjustLayout` finds in the table what it looks for. And
  `GridGetsNearer`: with every change to a number of one bracket the layout
  is in that bracket, with a cell for each device, or gets nearer to it, and one
  that has arrived stays. The invariant names the three brackets there can be,
  one of them empty, half way down, which is why the distance is measured by both
  ends.

Assumptions: a byte has more than three values (the commands and tags of
`Packets` are told apart by one), a block and a path fit, as a record, into a
packet whose length is an unsigned; packets are not empty (every caller builds them with
`AdbProtocol`), and a message does not overflow the unsigned length (the device
honours `CONNECT_MAXDATA`); masks are contiguous and the larger port is not the
largest there is; the ids of streams are not 0 (`StreamIdAllocator` counts from 1
and wraps around after 2^32 handlers); every wait of a push includes OKAY; the
table of the grid has an entry for 1, where it begins, and the first grid a cell.

The type invariants, `OneWrite`, `BufferAlive`, `WireInOrder`, `RightStream`,
`UsesSession`, and what is proved of waiters, standstills, the sweep's variant and
the grid are not among the properties of the runs, which are for what is not,
or not only, proved.

Model-checked only: all liveness properties (out of the prover's reach, with
the fairness they need), so also the liveness of `OutboundChannel`. Of `PushEnds`,
`HandshakeCompletes`, `SweepEnds` and `GridSettles` the part that is safety is
proved: that nobody waits for nothing, or that there is less left to do; TLC
checks that the steps are taken. The checksum is a fold over
the payload, and what a fold computes is by induction; nothing in the code compares
it, and the theorems ask no more of it than that it takes one field.

## Plan

Every safety property the passing runs check is proved. What is left: the
refinement of an abstract registry, which would say in one place what
`RegistrySound` and `ContextKept` say of its parts; and `RemoteSession`, once
something in the program makes one.

## Not modelled

- `RemoteCommandSession`, `ForwardBridge` and the two device workers: nobody
  makes one, so that what their code would risk has nowhere to happen.
- `ScannerManager` and `ConfigCenter`: two maps filled once at the start, and loops
  that forward start and stop.
- `StreamIdAllocator`: one counter. The models take the ids as distinct and not 0.
- The widgets other than the grid: layout and styling.
- Of `AdbServer`: `readMessage`, `processCommand` and what they send (called by
  nobody); of `DeviceManager`: calls of functions `AdbServer` does not have, and its
  mutex, which one thread alone takes; of the shell: `extractShellResult`, which
  picks a line for the log, and commands that never end.
- Data races: the map of waiters between a pool thread and the io thread, and
  `deviceContextMap` and a context between the threads that use them. They are
  listed as hazards; the models take such a step as atomic. A thread that follows
  a dead pointer is followed no further.
- Cryptography (OpenSSL) and logging.
