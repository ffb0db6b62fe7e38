# CTPServer: models, checks and proofs

CTPServer is a quote and trade front end in C++: a small server
(`Src/CTPServer`, `Src/CTPSample`) over a framework (`Src/Framework` in intent,
`Src/Framwork` on disk) of queues, threads, sockets and management functions.
This directory holds TLA+ modules of the parts whose correctness depends on
interleavings and failures, the TLC configurations that check them, and TLAPS
proofs of the theorems that matter most.

## 1. The system

| component | state | operations | what is hard | what makes it correct |
|---|---|---|---|---|
| **XQueue** (`XQueue.cpp`): one-way queue in shared memory | free list, used list, their counters, blocks, two named mutexes, two named semaphores | `Create`, `Open`, `Write`, `Read` | several client and server threads and processes, blocks handled outside the locks, timeouts, death of a process | no block lost or shared, whole messages in FIFO order, no waiter forgotten |
| **XQueueIo** (`XQueueIO.h`) | a deque, an open queue, the end flag | `Enque`, writer thread, reader thread, `Start`, `Stop` | producer and writer thread share the deque; retries, overflow, shutdown | no message sent twice or dropped silently before overflow |
| **Connections and routing** (`protocolcomm.cpp`, `ProtocolCommSelector.h`) | registered sockets, accepted endpoints, routes by key, the closing worker's deque | accept, receive, send, request to close, close, stop | listener, selector, sender, worker and stopping threads; deletion of endpoints in use | every endpoint reachable by the keys it registered, closed once, not used after |
| **Framing** (`ProtocolProcess.cpp`) | buffer, index, expected length | `OnRecvTcp` | packets cut anywhere, errors in the middle, reconnection | the packets delivered are those of the stream |
| **Selector, connector, listener** | registration map, stages of `CAction`, connection thread | `Register`, `UnRegister`, `NotifyConnect`, `Start`, `Stop` | wake-ups lost between check and wait; one handler and one number for successive connections | one connection at a time, and there again whatever broke the last |
| **Interface processes** (`FramworkAp`, `FramworkApSampler`) | counters of silence and of unanswered heartbeats | `OnPacket`, `HandleTimeout`, `SendPacket` | answers race the timer | a live peer is not closed, a dead one is |
| **NetMgr** | items, conditions, alarms, events | `Register`, `Report`, confirmation | the table, the timer that confirms and the subscriber are told under different locks; modules unregister while alarms wait | the table tells the truth; an alarm is announced once, in its time, and ended once |
| **Timers** (`GessTimerMgr.cpp`) | table of timers, current interval | `CreateTimer`, `DestroyTimer`, the timer thread | callbacks change the table | every live timer fires, no destroyed one does |
| **Watchdog** (`MemShareAlive.cpp`) | heartbeat and quit flags in shared memory | `IamAlive`, `IsAlive`, `YQuitCmd` | read and clear are two steps | a beating program is not called dead (not modelled, see section 7) |
| **CTP sessions** (`MyCTPQuote.cpp`, `MyCTPTrade.cpp`, `TradeManager.cpp`) | login and query flags of two sessions | callbacks of the API, login loop | callbacks in any order, reconnection | subscription after a complete instrument list, again after each login |
| **Logging, configuration, strings, dates, encodings, BlockMsg, samples** | - | - | - | not modelled, see section 7 |

The interface processes send through connections, which receive through the
selector and frame with `OnRecvTcp`; sessions and processes hand messages to
XQueueIo, which writes them to an XQueue read by another process. Timers and
threads drive all of them: the same timer thread asks for connections to be closed and
confirms alarms, and connections report their state to NetMgr.

## 2. Plan

Done, in this order:

1. **XQueue** with its abstract specification **FifoQueue** and the level below it,
   **XQueueLinks**; proofs in XQueueProofs and XQueueLinksProofs.
2. **TcpHandler** with **PacketStream**; proofs in TcpHandlerProofs.
3. **Endpoints** with **Routes**; proofs in EndpointsProofs.
4. **XQueueIo** with **LossyQueue**, over what FifoQueue promises; proofs in XQueueIoProofs.
5. **CtpSession**; proofs in CtpSessionProofs.

6. **ClientLink**: the client's end of a connection, with its thread, its heartbeat, the timer
   and the closing worker in one module, since what is hard lies between them; proofs in
   ClientLinkProofs.
7. **Alarms**; proofs in AlarmsProofs.
8. **XQueueCrash** over XQueue; proofs in XQueueProofs.

The suite stays at twelve runs, so that all of it is run after each change: what a run found
to be violated is told in section 6 and has given its place to a component. What could come
next: the way of the quotes from `OnRtnDepthMarketData()` to the queues, over XQueueIo;
deaths inside a section of XQueueLinks; several timers with intervals. Every invariant, action property
and refinement that a run checks is also a theorem; what is left to the runs alone is liveness.

## 3. Modules and code

| module | extends / implements | models |
|---|---|---|
| FifoQueue | - | what `XQueue.h` promises its callers: whole messages, FIFO, at most once |
| XQueueData | - | constants, blocks, messages, refused sizes, counts shared by the next two |
| XQueue | XQueueData; implements FifoQueue | `CXQueue::Write`, `Read` and what they call, one mutex section per step |
| XQueueLinks | XQueueData; implements XQueue | the same with heads, tails, links, counters and the two mutexes |
| PacketStream | - | what the receiver of a stream promises |
| TcpHandler | implements PacketStream | `CTcpHandlerLong`: `OnRecvTcp()` over the receive buffer, with `RecvData()` |
| Routes | - | what `SendPacket()` relies on until `Stop()` |
| Endpoints | implements Routes | server side of `protocolcomm.cpp`, `ProtocolComm.h`, `ProtocolCommSelector.h` with the selector it uses |
| LossyQueue | - | what `CXQueueIo` promises at both ends of a queue |
| XQueueIo | implements LossyQueue | `CXQueueIo` with its two threads, over a queue as FifoQueue has it |
| CtpSession | - | `MyCTPTrade`, `MyCTPQuote` and the loop of `TradeManager::InitCTP()` that starts them |
| ClientLink | - | `CConnector`, `CProtocolCommClient`, `CProtocolCommClientImp`, with `CProcessInterfaceZC`, the timer manager and the closing worker |
| Alarms | - | `CNetMgr` and `CCondition`: items, conditions, alarms, their confirmation and their subscriber |
| XQueueCrash | XQueue | XQueue with threads that die and a server that calls `Create()` again |
| MC* | the module of that name | instances for TLC |
| *Proofs | the module of that name, TLAPS | theorems |

PROJECT.json maps every definition to the lines it stands for. The correspondence in
words:

**XQueue.** `free`, `used` are the two lists in shared memory; `nFree`, `nUsed` the
counters `FreeDataBlocks`, `UsedDataBlocks`; `block` the block headers and what is in
them; `writeSem`, `readSem` the counts of the named semaphores. `pc`, `chain`, `msg`,
`buf`, `got`, `owed` are the locals of one call per thread. Each wait on a semaphore, each
section under `WriteLock` or `ReadLock`, each `ReleaseSemaphore` and each piece of work
on blocks a thread owns is one action. The mutexes are not variables here: no
section nests and none waits inside. That this is right is checked, and proved, one level down,
in XQueueLinks, where a section is two steps, `Enter...` (acquire, read the list's head or
tail) and `Leave...` (write links and counter, release), between which any thread may
run. The bytes of a message are its part numbers.

**TcpHandler.** `szBuf`, `nIndex`, `nLength`, `pBuf`, `uiLen` are the members of the handler;
`pszPos`, `nLeave` the locals of `OnRecvTcp()`; `received` and `delivered` are histories of
one connection. An action is one `recv()`, the part of `OnRecvTcp()` before its first
`OnPacket()`, or one `OnPacket()` with what follows it in the loop. `OnPacket()` may fail,
which leaves the handler as it is. The sum of a length and `FixHeadLen` wraps around at `SizeRange`, as a
`size_t` does. The constant `Reuse` says that the handler is a
client's, which is kept over connections; `CopiesDown` that `memcpy()` between regions
that overlap may copy from the last byte down.

**Endpoints.** One variable for each table (`mapRegisted`, `lstEpAccepted`, `mapEpNormal`,
`mapNm`, `lstKeys`, `mapRead`, `dqClose`), one for each thread's place: the listener
(`acc`), the selector thread of each endpoint (`io`), senders (`snd`), the two that may
close an endpoint (`clo`: worker and stopper), the worker's loop and `Stop()`. The
number of selector threads is `cpu_num` in the code; the model has one for each
endpoint, which allows every interleaving a smaller number has. A section under one
mutex is one action; a mutex that is held while another is asked for is in `lock`. An endpoint
that has been deleted keeps its members, as freed memory may, so that threads that
still have a pointer go on and NotInUse can see them. `CSelector::Stop()` ends no thread:
the selector threads go on while `Stop()` closes endpoints. The
tables are sets of endpoints where the code has pointers; `mapNm`, whose keys are made of the
socket's number, is a function of numbers: `sSocket` is the number that each endpoint is
going to get, and a number is used again as soon as its socket is closed, so that
`RemoveEndPoint()` may take the next connection's entry away. `m_nFds` is the size of `mapRead`, since no
socket is registered twice.

The flags are constants so
that one module serves several questions: `Early` (data may come before `OnAccept()` has
returned), `SendsFail`, `Stops`, `MaxFds` (room in the selector), `KeysOf` (the keys each peer
sends, the same or not) and `Paused`. The worker closes an endpoint four seconds after
it was put into the deque (`ProtocolComm.h:115-119`; `_msleep(n)` is `Sleep(1000*n)`, `osdepend.h:46`), to let
whoever uses it finish. `Paused` says that the listener and the selector threads are through with it by then,
and changes nothing for senders, which may take any time, for the worker when it empties its deque
at the end, and for `Stop()`, which do not pause. The broadcast mode is
read from the configuration once, so it is chosen in `Init`.

**Routes.** An endpoint that is open may take any route of a key that its peer sends, also
from another. One that leaves takes all its own routes with it, and is never given one
again; with them may go routes that others have of keys that its peer sends, too, since the code
erases by key and does not look whose the route is. Nothing else changes the table, until `Stop()` begins to
close what is registered.

**XQueueIo.** `deqMsg`, `oMsg`, `nSize`, `sWriteVal` are the deque and the locals of the writer's
thread, `writer` and `reader` the places of the two threads, `bEndThread` and `stop` the two
calls of `Stop()`. A section under `m_deqCondMutex` is one action; `Wait()` gives the mutex up
and sleeps in one step, and `End()` signals under the mutex, so between the writer's look
at the flag and its wait nothing comes. `Write()` succeeds when there is room, within its
timeout, and fails when there is none; `queue` is `queue` of FifoQueue, message by message, with a mark on
the last message of each packet: `Recv()` decodes the first message of a packet and drops the others. The
permits are those that `Init()` reads from the configuration, without bounds of their own. `SlotReused`
says that the memory of an element that was popped off the deque may hold another message before
`Send()` has encoded it: the code uses a reference to it after the pop.

**CtpSession.** `main`, `loginNum` are the locals of `InitCTP()`; `m_reqApi` numbers the APIs
of each side, since each `Init()` makes a new one and the earlier ones stay alive with their
threads, which call back the same object; `thread` is where each of these threads is. The two
exchanges of `OnRspUserLogin()`, the flag it sets at its end, and the two halves of
`FinishQryInstrument()` are actions of their own; the last answer to a query keeps
`m_getInstru` through them, as the code does. `mapInstrument` and `mapSubscribed` are the maps of
the two sides. The rest of the variables are external: connections, what was asked and is not
answered, what is subscribed to, the calls on their way. Of the API and the exchange it is
assumed that they answer in any order or refuse, that a connection that is lost comes again
by itself (`MyCTPTrade.cpp:61` says so) without what was subscribed to through it, that a second
query while one is under way is refused, and that no front answers before `InitCTP()` has
made both APIs, without which `FinishQryInstrument()` would use an API that is not there. The exchange
has instruments: a query that is answered without one (`MyCTPTrade.cpp:184`) would leave `m_bQryIns` set and
subscribe to nothing. No list
has more than the 1024 instruments that the code subscribes to, and the copy of a list that is
being filled is the list before or after an insertion.

**ClientLink.** `at` is where each thread is: the connection thread, the timer thread, the
application's sender, and the selector thread of each socket; `worker` and `main` are the closing
worker and the caller of `Start()` and `Stop()`. Numbers of sockets are used again once closed, and one
`handler` serves all connections, as in the code: `key` is the registration that a thread which asks to
close has found, by the handler and not by the number. A section under one mutex is one action; that a
mutex is held over several (`m_condMutexConnect` through `connect()` and `OnConnect()`, `m_csTimes` through
a timer's callback, `m_csComm` through `Stop()`, the worker's through its last requests) is told from where
its owner is. A `Signal()` wakes a thread only if it waits. `noAlive`, `sended`, `noQuote` are the counters of
the heartbeat, of which the first only counts up to 1, since the code only asks whether it is 0;
`unheard` is a history for Patient. `Send()` may also take some of the bytes, after which the peer has lost the
boundary of the packets and is silent. `Paused` says that a thread that reads or sends with a
handler is through when the worker's pause of 4 seconds (`ProtocolComm.h:116`) is over. `OnPacket()` is up to three
actions: its two sections under `m_csZC` and, after a login, the subscription it sends. Spurious wake-ups are
not modelled, nor an exception out of `OnConnect()`, see section 7.

**Alarms.** `grade` is `m_pActiveSubCond` of each condition, `pend` is `m_mapAlmNoConfirm` with its key, the
item alone; `open` is the condition's latest row in `m_vAlarmTbl`. `rep` is the `Report()` that holds
`m_mutexNetMgr`, with the conditions it has still to ask; that mutex is recursive and held over
everything `Report()` calls, the subscriber included, whereas the timer tells what is in `vAlm` after it has
released it. Time is `Tick`, and an age is counted as far as the time to keep. `told` and `dropped` are
histories. The number of a condition is made a character of a string (`Condition.h:614`) and so loses all but
eight bits: conditions of one item here have numbers that differ in these. Sub-conditions are compared by
address in the code (`Condition.h:631`) and by grade here: those of one condition have different grades.
A condition has exactly one item because `CondInsComb()` makes no combinations of more
(`NetMgr.cpp:529-571`).

**XQueueCrash.** `Die` takes a thread out of any step of XQueue: shared memory and semaphores stay
as they are, the thread starts over. `Create` is the server's restart on memory its clients have open: lists
and blocks are written anew, and named semaphores that exist keep their counts, whatever count
`CreateSemaphore()` is given. `FifoButForRestarts` is FifoQueue with one more step, in which the queue forgets
messages; it may be taken only together with `Create`.

## 4. Runs

| run | asks | bounds | states |
|---|---|---|---|
| xqueue_mixed | blocks, messages, counters, tokens, and that XQueue is a FIFO | 2 writers, 2 readers, 3 blocks, messages of 1, 2, 3 blocks and sizes refused, buffers too small and large enough, 2 messages per writer, everybody may time out | 580340 |
| xqueue_waits | both semaphores exact, every message read, every write returns | 2 writers of whom one writes long messages, 1 reader, nobody times out | 11101 |
| xqueue_links | the links under the mutexes are the lists | 2 writers, 1 reader, 3 blocks, 2 messages per writer | 372382 |
| xqueue_io | nothing lost below the permits, nothing twice or out of order above them, everything received, `Stop()` returns | 1 producer, 6 messages, room for 2, packets of 1 or 2 messages, overflow at 5, either side is MAIN, each stopped at any time | 228206 |
| tcp_server | packets are those of the stream | packets of at most 7 bytes, streams of at most 7 bytes in all pieces, 2 connections, sizes below 16 | 8177245 |
| ep_general | closed once, routes known | 2 connections with one key and any numbers of sockets, mode 0, early data, no pause, room for 1, `Stop()` at any time, sends do not fail, 1 sender | 1703914 |
| ep_routes | nobody uses a deleted endpoint, routes change as they should | 2 connections, one with two keys and one with the first of these, modes 0, 1 and 2, sends that fail, early data, `Paused`, room for both, no `Stop()` | 1269393 |
| ep_reconnect | no table keeps a deleted endpoint, every idle socket is watched, closing ends, `SendPacket()` returns | 2 connections with one key and one or two numbers, modes 0 and 1, sends that fail, no early data, `Paused`, room for both, no `Stop()`, fair | 95596 |
| ctp_session | the flag of the quote side, a complete list subscribed to, every quote in the end | 2 instruments and one that is filtered out, 2 APIs on each side, 1 fault: a loss, a refusal, a late answer | 220282 |
| client_link | one connection at a time, with its timer; a peer that answers is not closed; there again in the end | 2 numbers of sockets, 1 hello, 1 timeout without service packets, 1 thing that goes wrong anywhere, `Stop()` at any time, fair | 1077274 |
| alarms | the table is true, each alarm told once, one that stays is announced | 2 items with a condition each, of two grades and 2 ticks to keep, and of one grade and none, fair | 110832 |
| xqueue_crash | no block shared, messages whole, once and in order | 2 writers, 1 reader, 3 blocks, 2 messages per writer, 2 deaths, 1 restart of the server, everybody may time out | 610267 |

Why the bounds are enough. Three blocks make the shortest list that has a head, a
middle and a tail, and let one message fill the queue. Two writers compete for each
list and semaphore, and their messages may be mixed; two readers may overtake each
other between detaching a message and freeing it. Seven bytes hold two packets and
the beginning of a third, and the byte values stand for the lengths none, one, as
many as fill the buffer, one too many, and one with which the sum wraps around to a packet
shorter than its header. Two connections with a key in common are what the
takeover of a route needs, a third adds only another order of the same steps; that one of the peers has another key
tells routes of its own from those it shares. Room for
one makes every later registration a matter of luck. With one hello and one timeout the limit of
service packets is always reached first; with two hellos and four timeouts, where each of the two limits is
reached alone, and without `Stop()`, Patient was checked apart (2430631 states) and left out of the suite, and its
theorem holds for any limits. Six messages reach an overflow at five
with one more behind it, and fill a queue of two and the string of a batch on the way. Two instruments
are the least with a list that is not complete, and a third that is filtered out ends the query
although it is not inserted; two APIs on each side are an old one and a new one, and one fault makes a session log in
twice. Two numbers of sockets are the old connection's and the new one's, and the first is free again for a
third connection, of which there is no bound; one fault is enough, since each
connection after it is as the first was. A condition that waits two ticks can change, end and begin again
while it waits, and one of another item is told in between. Two deaths are one on each side
of the queue, or a writer's and the same writer's again, before and after a restart. The number of messages, bytes,
connections of Endpoints, APIs, faults, deaths and restarts is bounded because they are counted; nothing else is.

`CHECK_DEADLOCK FALSE` is in every configuration but that of alarms, where time goes on and modules report for ever, because the system may stop: the messages
have been written and the servers wait for ever, the bytes have arrived, the
connections have been closed. Where a thread must not wait for ever, a liveness
property says so.

What a run of Endpoints leaves out is in its bounds, and what happens then in section 6.

The type invariants of XQueue and Endpoints are checked in the runs; those of the other modules were checked
with the same configurations (add TypeOK to them) and left out of the suite, since the properties are about
more. TypeOK of CtpSession, Alarms, ClientLink and XQueueIo are theorems.

Every property of a run has a mutant in PROJECT.json: a definition changed as a
plausible bug would change it, with which TLC finds the property violated.

## 5. Fairness

- XQueue: weak fairness of the next step of each write under way and of each server,
  which calls `Read()` again when it has returned (`CReader::ThreadEntry` loops). Nobody has
  to call `Write()`. A thread that waits on a semaphore with others is not promised its
  turn beyond that: one reader is enough for xqueue_waits, and its two writers can
  only overtake each other a bounded number of times.
- XQueueIo: weak fairness of each thread, of a producer that has put its message down and not
  yet signalled, and of a `Stop()` that has begun. Nobody has to call `Enque()` or `Stop()`.
- CtpSession: weak fairness of `InitCTP()`, of each API's thread, and of the answers of the fronts.
  Nothing has to fail; that an answer takes longer than the 7 seconds of the loop is one of the
  faults, so that a loop whose APIs answer ends with success.
- ClientLink: weak fairness of each thread, and strong fairness of the worker's close, whose pause outlasts
  a send that is under way (`Paused`). Nobody has to send, refuse, break or stop anything; UpAgain is claimed as
  long as nobody stops, and unless `RegisterAio()` has failed.
- Alarms: a `Report()` runs to its end, time passes, what has been moved is told; strong fairness of
  the timer's look at the table, since reports keep taking the mutex it needs. Nobody has to report.
- TcpHandler, XQueueCrash: none, their properties are safety.
- Endpoints: strong fairness where a thread asks for a mutex that others take again and again, since the
  system hands it to a thread that keeps asking: `OnAccept()` at the accepted endpoints, a
  selector thread, the worker; strong fairness of
  the end of a read, since a read holds finitely many packets. Weak fairness of senders, which ask for
  `m_csComm` only, that nobody keeps but `Stop()`. Nobody has to connect, send, hang up or stop.

## 6. What is proved

The theorems hold for every value of the constants that satisfy the assumptions
`QueueAssumption`, `NoMsgAssumption`, `HandlerAssumption`, `EndpointsAssumption`, `XQueueIoAssumption`,
`CtpSessionAssumption`, `ClientLinkAssumption`, `AlarmsAssumption`, `NoneAssumption`, `NilAssumption` and
`CrashAssumption`, which
say no more than that the constants have the type the code gives them (at least one
block, a block larger than its header, a length field inside the packet, ...). Some hold under
further conditions, in the column "if"; what happens otherwise is told below.

| theorem | says | if | argument |
|---|---|---|---|
| XQueueProofs `TypeCorrect`, `BlocksOwnedOnce` | TypeOK, Ownership | | the lists and the chains are disjoint; each action moves blocks from one to another |
| XQueueProofs `NoBlockLost`, `TokensBacked` | Conservation, WriteTokens | | `Safe` is Typed, Ownership, Conservation, WriteTokens and Counted, and only together inductive |
| XQueueProofs `ImplementsFifo` | XQueue implements FifoQueue | | `Ordered`: the used list is made of whole messages (Framed), a client holds the first blocks of its message (Filling), a server all blocks of one (Emptying) |
| XQueueProofs `TokensReadable` | Readable | | `Backed` is Ordered, and that the tokens of m_hReadSem, with the threads between the semaphore and the list, are no more than the messages |
| XQueueProofs `TokensExact` | SemaphoresExact | no writer times out, every buffer has room for what `Write()` takes | `Exact`: with Backed and Safe, the balance of each semaphore is an equation |
| XQueueProofs `OwnedOnceDespiteDeaths` | Ownership | no client holds a block when the server comes back (~MidWrite) | `Typed` and Ownership of XQueue, kept by Die, which empties a chain, and by Create, which makes one list of all blocks |
| XQueueProofs `OrderDespiteDeaths` | FifoButForRestarts | ~MidWrite | `Ordered` of XQueue, which a death keeps since the lists change in sections only; a restart forgets what was there |
| XQueueLinksProofs `LinksMirrored`, `TypeCorrect` | LinksMirror, TypeOK | | `Wired`: the links make the two lists and the chain of each thread (Linked), a long message on its way ends where its links end (Loose), a thread in a section has the mutex and has read an end of the list that is still its end (Sections), each thread is in its own operation (Stages); with `Above`, the invariants Safe and Ordered of XQueue of the lists that the links make |
| XQueueLinksProofs `ImplementsLists` | XQueueLinks implements XQueue | | step by step under Wired and Above: leaving a section is the step of XQueue, entering one is none; the block a writer copies to counts as filled from the moment it is off the free list |
| XQueueLinksProofs `LinksKeepOrder` | XQueueLinks implements FifoQueue | | from the one above and `ImplementsFifo` |
| TcpHandlerProofs `BytesKept`, `NeverFull`, `NoPacketWaits` | Kept, RoomLeft, Eager | ~Reuse, ~CopiesDown | `Inv` is TypeOK, Kept, RoomLeft, Eager and Scanning |
| TcpHandlerProofs `Framing` | TcpHandler implements PacketStream | ~Reuse, ~CopiesDown | step by step under `Inv` |
| EndpointsProofs `TypeCorrect` | TypeOK | | `Typed` adds that a thread in the middle of something has an endpoint |
| EndpointsProofs `ClosedOnce` | OneOwner | | `Owned`: at most one of table, threads and deque has an endpoint, and whoever has it has it alive |
| EndpointsProofs `RoutesKnown` | RouteKnown | | `Routed` adds that an endpoint on its way to a route already has the key |
| EndpointsProofs `WatchedWhenRoom` | Watched | no early data, room in the selector for all connections | `Guarded` is Owned, Watched, and who may read a socket (Sockets); with sends that fail, too |
| EndpointsProofs `TablesAreLive` | TablesLive | Paused, no early data | `Kept` is Going, and Calm until `Stop()` begins to close; see below |
| EndpointsProofs `NoUseAfterDelete` | NotInUse | Paused | `Kept` |
| EndpointsProofs `ImplementsRoutes` | Endpoints implements Routes | Paused | step by step under `Kept`: the worker's erasing is the leaving of an endpoint whose keys it has, and the rest of its steps are none |
| XQueueIoProofs `TypeCorrect`, `FrontIsThere` | TypeOK; `pop_front()` never finds the deque empty | | `Typed` adds that the writer leaves on the deque what it has in hand (Turns), and that the deque holds the messages made last (Newest) |
| XQueueIoProofs `NoneIsLost` | NothingLost | | `Kept`: the queue, the string and the deque hold the messages made last without a gap (InLine), as long as no permit is reached and nobody stops the writer |
| XQueueIoProofs `ImplementsLossy` | XQueueIo implements LossyQueue | ~SlotReused | `Orderly`: the messages on their way rise from the queue to the deque, and what the writer holds is not behind the deque's front (Aligned) |
| CtpSessionProofs `TypeCorrect` | TypeOK | | `Typed` adds that each turn of the loop makes one API of a side at most (Counted), and that nothing is called back before both sides have one (Started) |
| CtpSessionProofs `FlagIsRight` | FlagRight | | `FlagInv`: a thread that handles a login has a connection that is logged in or a loss among the calls to come (Busy), and every login among these calls has a loss behind it unless the connection is logged in (Ordered) |
| ClientLinkProofs `TypeCorrect` | TypeOK | | `Keyed`: a thread has a socket in hand exactly where it needs one; `Counted`: the handler's counts are those of what has been heard |
| ClientLinkProofs `OneLinkCorrect` | OneLink | | `Baton`: Start(), the connection thread, the table, a thread that asks to close, the queue and the worker exclude each other, and each hands over to the next; `Opened`: what they have in hand is open |
| ClientLinkProofs `SupervisedCorrect` | Supervised | | `Watching`, with `Baton`: whoever destroys the timer has the baton, and so nothing is registered |
| ClientLinkProofs `PatientCorrect` | Patient | | with `Counted`: only `Timeout` lets the timer ask, and its counts are what the peer was silent for |
| AlarmsProofs `TypeCorrect` | TypeOK | | each operation for each variable |
| AlarmsProofs `HonestCorrect` | Honest | | inductive with TypeOK: a condition that has its item to itself is the only one to change what waits there, and its wait is as old as the condition |
| AlarmsProofs `BalancedCorrect` | Balanced | | with Honest: the row and what is about to be told change together, by the same amount |

Why the parts need one another. In XQueue, `Add()` drops a block when the counter says
that the list is full: that no block is lost rests on the counter being the length, this
on no block being on a list twice, and this on a writer with a token finding a block,
which is WriteTokens; WriteTokens rests on Conservation, since a reader's tokens must be
matched by blocks it put back. In TcpHandler, that the loop ends with less than a packet
(Eager) is what leaves room for the next `recv()` (RoomLeft), and that the bytes in
the buffer are the end of the stream (Kept) is what makes the lengths read there the
lengths of the stream. In XQueue again, that a message comes whole and in order (FifoSpec) needs every block
of a chain to be in one place (Ownership), and the counter to be the length, by which
`AddUsedList()` decides; Readable adds the tokens to this, and only if nobody gives up is the sum exact. In
XQueueLinks, a section changes links of blocks that it reaches through pointers, and that no other thread's list or
chain has one of these is Ownership of the lists the links make; but these are the lists of XQueue only if the links
are in order, so that Wired and Above hold together or not at all: a step keeps the links in order by what is above,
is then a step of XQueue, and keeps by this what is above. That `ReadMultiBlock()` follows flags and links anew,
outside the lock, and finds the message it has detached, needs the message to be whole (Ordered) and its last link
to be cut (Loose). In XQueueIo, the
reference that the writer keeps over an overflow is what makes the order hard: its message is no longer on the deque, and
is sent before the new front; Aligned says that it is older than that. In Endpoints, `UnRegisterAio()` lets one of several requests to close
win; that the deque, the worker and the threads in between never have the same endpoint
follows from the table having had it, and that it is alive from nobody else having it (Owned). That
nobody uses what the worker deletes takes the rest of `Kept`. What holds in any case is `Going`: besides Owned, that an
endpoint with a route, or on its way to one, has the key (RouteKnown, OnItsWay), that there are no routes where the
configuration has none (Plain), and that a thread in the middle of `SendPacket()` holds the mutex of its table and
has only endpoints of this table (Serving). What holds until `Stop()` begins to close is `Calm`: nobody but the
worker deletes (Busy); the keys that an endpoint has or asks for are its peer's (OwnKeys); nobody is in an endpoint
that is gone or that the worker has begun to close, because of the pause (Out); such an endpoint has left the tables
that the worker is through with (Parted), under the number by which `m_mapNm` knows it (Numbered); and, where no data
comes before `OnAccept()` has ended, an endpoint gets its keys after it (Fresh). `Stop()` deletes without a pause and under
other mutexes than those of the tables, which ends `Calm`, as it does in the code. In
ClientLink, that a request takes the registration it was meant for, although the table is searched
by an object that all connections share, follows from there being one connection, and this
from `connect()` being called only on a signal of `Start()` or of the worker that has closed
the connection before. In
CtpSession, the flag is set at the end of `OnRspUserLogin()` and not when the login is answered; that it
is not set for good after a loss in between follows from the loss being called back by
the same thread, later.

The conditions are those under which the code does what the theorem says, and what happens without each
is told below: a handler per connection (`~Reuse`) and a `memcpy()` that
copies upwards (`~CopiesDown`); writers that do not time out and buffers that are large enough, for the
semaphores to be exact; data only after `OnAccept()`, and room in the selector; listener and selector threads that are
through with an endpoint within the worker's four seconds (`Paused`); a slot of the deque that is not used again during
one `Send()`. The first three theorems of Endpoints assume nothing: they hold with
data before the end of `OnAccept()`, failing sends and `Stop()` at any time, together, which
no run has all at once. The last two of its theorems assume the pause alone, for peers with any keys, failing sends, early
data and, up to the first endpoint it closes, `Stop()`.

Only model-checked: every liveness property, which is EventuallyRead and WriteReturns of XQueue,
Received and StopReturns of XQueueIo, ClosedInTheEnd and SendReturns of Endpoints, WholeInTheEnd and
ListSubscribed of CtpSession, UpAgain of ClientLink, Announced of Alarms. Liveness under fairness,
ENABLED, induction over data and recursive operators are out of the prover's reach.

### Disagreements between code and comments

Each shows when a constant is changed or a property is added:

- A long write that times out gives back its blocks but not its tokens (`XQueue.cpp:1887`): SemaphoresExact
  fails with writers that time out, and a writer waits although the blocks it needs are
  free, although "When enough blocks become free, waiting client can complete write"
  (`XQueue.cpp:130-132`).
- StreamSpec fails with `Reuse`: a client's handler keeps half a packet of the old connection in front
  of the new one's first bytes (`ProtocolCommSelector.h:71`), and hands up a packet that nobody sent.
- A second login of the quote side subscribes while the instruments are queried (`MyCTPQuote.cpp:99`):
  nothing sets `m_bQryIns`, although the comments on it (`MyCTPTrade.cpp:15`) say that the quote side leaves the
  list to the query then.
- Ownership fails with `MidWrite`: a server that comes back while a client fills a block puts that
  block on the free list (`XQueue.cpp:418-466`).
- After a death, Conservation and the liveness properties of XQueue fail: nobody looks for the blocks
  (`TryFindLost()` is not called), and one death between `AddUsedList()` and `ReleaseSemaphore()` leaves every later
  message waiting for the one after it.
- `Stop()` of a client may never return: `End()` signals without the mutex (`Connector.cpp:245`,
  `ProtocolComm.h:148`), between the check and the wait of the thread; and it holds m_csComm while it
  asks for m_csTimes, which a timer that asks to close holds in the other order. After it a request to close may be left in
  the deque, a connection that was just made is not closed (`ProtocolCommSelector.h:61`), and the
  handler's socket is closed twice.
- A send that fails on a connection already closed may close the next one, since `UnRegisterAio()` finds
  it by the handler (`protocolcomm.cpp:115`), and the counts of a heartbeat go over to the next connection.
- After a `RegisterAio()` that fails nobody connects again: `Connector.cpp:212` does not look at the result.
- Honest and Announced fail for conditions on the same item (`NetMgr.cpp:742`): the second one's alarm takes the
  place of the first one's, or is ended with it.
- An alarm whose condition is deleted while it waits comes into the table nevertheless, and one that is open
  stays there (`NetMgr.cpp:659`); of threads that quit this is meant (`WorkThreadNm.cpp`, `OnStop()`).
- The end of an alarm may be told before its beginning (`NetMgr.cpp:839`): Balanced counts, and has no order.
- WriteReturns fails for two writers of long messages: each holds blocks while it waits for
  more (`XQueue.cpp:1811`).
- A route that a new connection of a peer takes over from the old one is erased when the
  old one is closed (`ProtocolCommSelector.h:718`): `RemoveEndPoint()` copies the keys before
  it takes the mutex. The new connection does not get it back, since `Is1stPacket()` knows its key, and
  `SendPacket()` finds nobody for it until the peer connects again. RouteSpec allows this and nothing worse. In the same
  way `RemoveEndPoint()` may take the entry of the next connection off `m_mapNm` (line 714), when the number of the socket,
  closed before, is used again; nothing dangles by this.
- Quotes come twice when a login is answered between the loop's look at the flag
  (`TradeManager.cpp:149`) and `Init()`: both APIs log in and subscribe. The flag of the trade side
  stays set when its connection is lost (`MyCTPTrade.cpp:68`), so that it has no FlagRight.
- SendReturns fails with `Stops`: `Stop()` and a send that fails take m_csComm
  and m_csEpNormal, or m_csEpAccepted, in opposite order (`protocolcomm.cpp:52`).
- LossySpec of XQueueIo fails with `SlotReused` (`XQueueIO.h:164-175`): another message is
  sent in place of the first, and again in its turn.
- SemaphoresExact fails when a buffer is too small: the first of the two reads that
  `XQueue.h:111-114` describes uses up the token.
- Kept fails with `CopiesDown` (`ProtocolProcess.cpp:440`: `memcpy()` on regions that
  overlap).
- TablesLive and ClosedInTheEnd fail with `Early` (`ProtocolCommSelector.h:496`,
  `protocolcomm.cpp:87`): a first packet or a close that comes before `OnAccept()` is through
  leaves a deleted endpoint on the list, or is not served.
- NotInUse, TablesLive and RouteSpec fail without `Paused`: the worker may delete an endpoint whose selector
  thread is still in `OnRecv()`, after a send or an answer that failed, if that thread is held up for longer
  than the four seconds of `ProtocolComm.h:115-119`. A route that it claims then points at freed memory.
- Watched fails with fewer places in the selector than connections: the result of
  `Register()` after a read is not looked at (`protocolcomm.cpp:202`). It fails with `Early`, too, when the data is read
  before the socket is in the table.
- The worker may leave its loop with requests in its deque (`ProtocolComm.h:88`), and `End()`
  signals without the mutex, so that `Stop()` may wait for a worker that sleeps
  (`ProtocolComm.h:148`).

## 7. What is not modelled, and why

- **Death inside a section** of XQueue: it leaves a mutex abandoned, which the next thread takes for a
  timeout although it now owns it (`XQueue.cpp:1994`), so that the process goes on with a mutex nobody gives back. Nor
  a client that opens the queue before its header is written.
- **An exception out of `OnConnect()`** of a client (`Connector.cpp:214-220`): the socket is closed and the thread
  dials again, even if the connection is registered already, so that OneLink would fail. In ClientLink no `OnConnect()` throws.
- **Watchdog** (`MemShareAlive.cpp`): three flags, each set or cleared by one call; the program that reads
  them is not in the repository.
- **Several timers** of CGessTimerMgr with their intervals: ClientLink has the one of its handler.
- **The rest of NetMgr**: events, queries (`QueryItem()` evaluates conditions without the mutex,
  `NetMgr.cpp:855`), acknowledgement, an item registered again while it is registered, the rows that each change of a grade adds.
- **The rest of the sampling and interface processes**: what their packets hold, the hello of the peer, `connect()` to
  several addresses in turn.
- **The way of the quotes** from `OnRtnDepthMarketData()` to the queues.
- **XQueueIo beyond one life**: `Start()` after `Stop()`, a `Create()` that fails, a queue that is
  opened while it is being created.
- **Sessions beyond login and subscription**: which front is tried next, the quotes themselves,
  the answers that are only logged, lists of more than 1024 instruments
  (`MyCTPQuote.cpp:281`: `erase(end())`), the torn copy that the data race at `MyCTPQuote.cpp:276`
  allows.
- **XMemmap**: wraps the calls that map memory; no control of its own.
- **The inside of the selector**: Endpoints has it as the set of sockets watched, with its
  limit; the queues of its threads and the signal socket are not modelled.
- **Members of CXQueue nobody calls** since its rewrite (`Lock`, `Unlock`, `ReadMMF`, `WriteMMF`,
  `TryFindLost`), and the performance counters.
- **Pool of key contexts**: a context is its endpoint here; that `FreeKeyContex()` may recycle one
  too early is not seen. Empty route keys are not modelled either.
- **Packet classes, short connections, proxies, logging, configuration, strings, dates,
  encodings**: sequential code over text, or output, with no state that outlives a call.
- **BlockMsg, BlockChainSample, BlcokSample**: not part of the servers (the former is not
  linked into them), or polling without a protocol.
- **Vendored code** (CTP API, OpenSSL, pthreads, OTL): what the program needs of the CTP API
  is stated with CtpSession.
