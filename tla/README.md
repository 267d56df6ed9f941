# AmiPiBorg in TLA+

AmiPiBorg connects an Amiga to a Raspberry Pi over a serial line.  On the
Amiga a *server* task owns the line and multiplexes it between *connections*;
*client* tasks reach the server through a shared library, by Exec messages.
This directory holds TLA+ modules that model the server and its clients, TLC
configurations that check them on small instances, and theorems about them
with proofs for TLAPS.

Paths below are relative to the repository (`src/`).

## 1. The system

| Part | Code | State it keeps | Operations | What makes it correct |
|---|---|---|---|---|
| Connections | `server/connection.c` | list of connections; per connection id, state, packet queue, request queue | create, destroy, client request, packet, time-out scan | a request is on one list at a time and answered once; a READ gets the packets in order, none lost or repeated; no READ waits beside data; requests with a time-out end |
| Dispatch | `server/server.c` 420-661 | next connection id, id of the last packet | take a message off the public port, take a packet off the reader's queue | every message is answered or queued; ids name one connection |
| Main loop | `server/server.c` 310-355, 663-929, `main.c` | server state, retry count, ping counters, timer request | one pass of `APB_WaitForMessage`, one step of `APB_Run` | the server gives up after five attempts, notices a dead Pi, stops when told to, keeps its timer running |
| Packet writer | `server/packetwriter.c`, `buffer.c` | queue of output buffers, list of recent packets, next packet id | allocate, write, resend, release | packets leave in order, once; a buffer outlives its packets and the write in progress |
| Packet reader | `server/packetreader.c` | chain of input buffers with packet counts, queue of packets | append a buffer, cut packets out of it, release a packet | exactly the valid packets are delivered; a buffer outlives the packets that point into it |
| Checksum | `server/protocol.c` | none | sum, complete | detects a changed word |
| Serial remote | `remote/serialremote.c` | read/write-ready flags, pending I/O requests | open, close, read, write, handle signal | one read and one write at a time, none after close |
| Object pool | `library/objectpool.c` | per type a free list and two counters | register, allocate, release, destroy | counters match the lists, at most the maximum exists |
| Client library | `library/connection.c`, `io.c`, `request.c`, `control.c` | a client's connection (status, id), its requests | open, close, read, write, abort, control messages | a request is not reused or freed while the server has it |
| ApbFs | `clients/ApbFs/` | volumes, pending DOS packets, locks, one request per packet | mount, DOS packets, responses | every DOS packet is answered once |
| Small clients | `clients/ApbPing`, `ApbInput`, `ApbDate`, `ApbControl` | local | straight-line use of the library | as the library |
| Logs, statistics, configuration | `library/log.c`, `stats.c`, `server/config.c` | text, counters | | no protocol state |
| Not linked | `server/remote.c`, `event.c`, `log.c`, `server/old/` | | | in no Makefile's program |

**How the parts interact.**  A client fills in an `APBRequest` and posts it on
the public port `AmiPiBorg`.  The server takes it off the port and either
replies to it or puts it on the request queue of a connection.  It asks the
packet writer for packets, which the writer sends through the remote when the
line is free.  Bytes from the line go through the packet reader, which queues
packets; the server hands each to its connection, and the connection gives
its data to the READ at the head of its request queue.  A timer ticks once a
second: it ages the queued requests and counts pings.

**What is hard.**  The server is one task, so its handlers do not interleave
with each other; they do interleave with the clients (which may abort a
request that is on one of the server's lists), with the Pi (which may close a
connection under a queued request) and with the line (which loses packets, and
delivers one sent again behind those that followed it).  The order of events
in one pass of the main loop matters, ids are reused when a 16-bit counter
wraps, and memory is freed by counting packets in buffers.  `PROJECT.json`
lists the hazards at their lines, with the properties that cover them.

## 2. Modules

| Module | Models |
|---|---|
| `Connections` | connections, dispatch of requests and connection packets, the client library, the Pi and the line around them |
| `ServerLoop` | the state machine of `APB_Run`, one pass of `APB_WaitForMessage`, timer, pings, Ctrl-C, QUIT, port and remote |
| `ServerTimeouts` | `ServerLoop` with one OPEN followed from its client to its answer |
| `PacketWriter` | the packet writer over the write half of the serial remote |
| `PacketQueue` | what the writer promises: packets are handed over in order, each once.  `PacketWriter` implements it |
| `PacketReader` | the read half of the serial remote, the loop that reads, the packet reader, packet ids |
| `ObjectPool` | the object pool and the memory behind it |
| `ObjectStore` | what users of the pool rely on.  `ObjectPool` implements it |
| `ApbFs` | the file system client: DOS packets, volumes, locks, requests and responses |
| `ConnectionsProofs`, `ServerLoopProofs`, `PacketWriterProofs`, `PacketReaderProofs`, `ObjectPoolProofs`, `ApbFsProofs` | theorems about the module of that name |
| `ConnectionsQueueProofs` | theorems about `Connections`: buffers of queued packets, and how long the scan misses a request |
| `ConnectionsOpenProofs` | theorems about `Connections` that rest on the life of an OPEN and of the id it is given |
| `MCConnections`, `MCServerLoop`, `MCPacketWriter`, `MCPacketReader`, `MCObjectPool`, `MCApbFs` | instances for TLC |

The modules meet at the calls between the parts they model.  `Connections`
and `ServerLoop` see the writer as a bounded queue whose allocation may fail,
which is what `PacketQueue` keeps of `PacketWriter`; `Connections` sees the
reader as a source of packets in order, which is `InSequence` of
`PacketReader`, and releases packets as `ReleaseHeld` does there; all see the
pool as an allocation that may fail, which is `ObjectStore`.  Each product of
two of them is left out: it multiplies the states and adds no call that one
side does not already see in its most general form.

### Connections

Each action is one complete handler of the server, one library call of a
client, or one step of the Pi or of the line.

| State | Code |
|---|---|
| `nextId` | `srv_NextConnId`, modulo `IdMod` (65536 in the code) |
| `cnnList`, `cnn` | `srv_Connections`; `cnn_Id` and `cnn_State` of each object of the pool |
| `packets`, `reqs` | `cnn_PacketQueue`, `cnn_ReqQueue` |
| `out` | packets allocated in the packet writer and not yet on the line |
| `inUse`, `kept` | `InPacket`s handed to connections and not yet released; packets are numbered in the order they are kept |
| `req`, `port`, `where` | the fields of each `APBRequest`, the public port, and who owns the request: the client, the server, or the client's reply port |
| `phase`, `connId` | what a client is doing with its connection, and `c_ConnId` |
| `in`, `piOpen`, `piSent` | packets on their way to the Amiga; what the Pi serves |
| `accepted`, `delivered`, `skipped` | history: packets a connection queued, packets READs were answered with, ticks in which the scan missed a request |

| Action | Code |
|---|---|
| `OpenConnection`, `CloseConnection`, `FreeConnection`, `GetReply` | `library/connection.c`, before and after its `Wait` |
| `Read`, `Write`, `Abort` | `library/io.c` |
| `HandleOpen` | `server.c` 589-594: create the connection, send Connect, queue the OPEN |
| `HandleClose`, `HandleRead`, `HandleWrite`, `RefuseRequest` | the branches of `APB_HandleClientRequest` |
| `RejectRequest`, `RefuseControl` | a request for a connection that does not exist; one with id 0 that is no control message |
| `HandleConnected`, `HandleNoHandler`, `HandleDisconnected`, `HandleData` | the branches of `APB_HandleConnectionPacket`; `HandleDisconnected` includes `APB_DestroyConnection` |
| `UnknownConnection`, `HandleControlPacket` | the other branches of `APB_HandlePacket` |
| `CheckRequestTimeouts` | one timer tick |
| `PiAnswerConnect`, `PiAnswerDisconnect`, `PiSend`, `PiClose`, `LeaveAmiga`, `LosePacket`, `ResendPacket` | the protocol of `README.md`, outside this repository |

`APB_PushToClient` loops over two queues.  `PushToClient` says what a run of
the loop leaves behind: `n` is how often it runs and `d[i]` how many packets
the first `i` requests have taken, so that each answer, and what is left on
either queue, is a function of `n` and `d`, and the loop's body is the relation
between `d[i-1]` and `d[i]`.

Abstractions:

- A packet is its type, connection and length; its content is the number it
  is kept under.  A buffer is its length.
- The packet writer is a queue of at most `OutMax` packets whose allocation
  fails when it is full, which stands for the pools of buffers running out.
- The server takes one message off the port per action, where the code drains
  the port in one pass.  That allows more interleavings than the code has.
- A freshly allocated connection has an arbitrary state until Connect is
  allocated (`s` in `HandleOpen`), since the code does not initialise it.

Assumptions, each about code that is not modelled:

- A handler of the server is atomic for the clients: no client reuses a
  request inside the server's call of `ReplyMsg`.
- A client closes, and frees its connection, with no request pending, as the
  library's documentation asks.  After a failed open it frees its connection;
  a client in `Careless` may also close it first, as ApbFs does, or read and
  write.  No client opens the same connection object twice in a row.
- Ctrl-C during Open and Close, Abort of a request whose connection was
  destroyed under it, and the exhaustion of the pool of connections are left
  out: in each the code goes on to use memory it has freed or never got, and
  no state after that would mean anything.
- The timer ticks at any time; the code looks at time-outs only in the state
  `SS_CONNECTED`.

### ServerLoop

The server is one task, but a pass of its main loop looks at the world at
several points.  The position in the pass is `pc`, and `got` is what `Wait`
returned, so that a tick, a break or a packet that comes during a pass is seen
by the next one, and a message that comes while the port is drained by this
one.

| State | Code |
|---|---|
| `state`, `retryCount` | `srv_State`; the local of `APB_Run` |
| `pingSend`, `pingTimeout`, `missed` | `srv_PingSendTicks`, `srv_PingTimeoutTicks`, `srv_MissedPingCount` |
| `timer` | `srv_TimerReq`: not sent, sent, or replied to |
| `brk`, `msgs`, `in` | what raises the signals: Ctrl-C, messages on `srv_ClientPort`, packets on the line |
| `port`, `remote` | public port and remote are open |
| `batch` | packets of this pass in the reader's queue |
| `out` | Inits and Pings on their way to the Pi |
| `attempts`, `revived` | history: Inits since the last Hello, a Hello has come in `SS_DISCONNECTED` |

`Start` to `CloseRemote` are the cases of `APB_Run`'s switch; closing the port
is three steps, because `APB_DeletePort` empties it and removes it without
`Forbid`.  `WaitReturns`, `HandleTimer`, `HandleMessage`, `ReceiveFromRemote`,
`HandlePacket` are the parts of a pass in their order.

Abstractions and assumptions:

- A message is QUIT or any other, a packet Hello, Goodbye, Pong or any other;
  what the others do to connections is `Connections`.
- An allocation from the packet writer may fail at any time, the pools being
  shared with the connections; `OutMax` bounds the loop's own packets.
- The ids of packets and the requests to send one again (`server.c` 490-500,
  456-476) are left out: of what this module keeps they change nothing but
  the room in the writer, which is arbitrary already.
- `SS_DISCONNECTING` and `SS_WAIT_FOR_DISCONNECT` are assigned nowhere, so they
  and `APB_SendShutdown` never occur.
- Bytes that complete no packet, and the signal that a write is finished, give
  passes that do nothing and are left out.
- A Pi that stops does not start again; before it stops it answers, stays
  silent or speaks as it likes.

### ServerTimeouts

`Connections` lets the scan of the requests happen at any time, and
`TimeoutFires` says what it does for a request *if* it is made again and again
(`TimerServed`).  Whether it is, the main loop decides: `APB_HandleTimer` scans
in `SS_CONNECTED` only, and only while the timer is sent again, but an OPEN is
put on a connection's queue in every state (`server.c` 591).  `ServerTimeouts`
adds to `ServerLoop` the one request `request` with its ticks `left`
(`ri_TimeoutTicks`), and extends the five steps that touch it: `PostOpen`,
`TakeMessage`, `ReplyMessage` (the port is drained at the stop), `TakePacket`
(its answer, or the end of its connection) and `Tick`.  All others are
`Elsewhere`.  The client neither aborts nor breaks off its wait, and the
request is alone on its connection's queue, so that every scan reaches it.  All
steps of `ServerLoop` with the one message of the run are steps here, so its
properties are checked on this module.

### PacketWriter

| State | Code |
|---|---|
| `queue`, `recent`, `cur`, `nextId` | `pw_Queue`, `pw_RecentPackets`, `pw_OutBuf`, `pw_NextPackId` (modulo `IdMod`) |
| `ob` | `b_Offset`, the packets in the buffer and how many of them lie below `ob_Offset`, `ob_PacketCount`, `ob_CanRelease` |
| `live`, `lost` | the `OutBuffer` objects allocated; those whose `Buffer` could not be |
| `overrun` | a pad byte was written outside a buffer |
| `open`, `device` | the remote; its asynchronous write, which reads from the buffer itself |
| `accepted`, `handed`, `fails` | history: packets accepted, packets given to the device, refused allocations |

| Action | Code |
|---|---|
| `AllocPacket` | `APB_AllocPacket`: with room in the buffer, with a new one, or failing at each of its allocations; it includes the pad byte, the eviction of recent packets and the release of their buffers |
| `ResendPacket` | `APB_ResendPacket` |
| `SendToRemote` | `APB_SrvSendToRemote` with `APB_WriteBuffer` |
| `WriteDone`, `HandleSignal` | the device finishes; `REM_HandleSignal` |
| `CloseRemote` | `REM_CloseRemote` |
| `DestroyBuffer`, `DestroyPacket`, `DestroyForeign`, `DestroyWriter` | the two loops of `APB_DestroyPacketWriter` and the end of it |

A packet is its serial number in the order of acceptance; contents are left
out.  The eviction loop is a relation: `Drops(k)` says when it stops after
`k` packets.  A buffer released under a running write leaves the write with a
flag (`held`), since what the device then sends is whatever the next user of
the memory writes.

`APB_DestroyPacketWriter` frees the buffers of the queue first and then
releases the kept packets, those in the freed buffers too (`packetwriter.c`
108-116): `APB_ReleaseOutPacket` counts down and tests memory that is no longer
the writer's (94-95).  `freed` holds these buffers.  `DestroyPacket` is what
happens while the memory is as it was left; `DestroyForeign` is a step that
finds it in somebody else's use, after which no state means anything, and the
model stops (`open` is `"wild"`).

### PacketReader

| State | Code |
|---|---|
| `sent`, `wire`, `lost` | lengths of the packets the Pi has sent, words on the line, words lost |
| `stream`, `rbuf`, `reading` | the words read, `srv_ReadBuffer`, `r_ReadReady`.  Buffer `b` holds the `b`-th `BufferSize` words of `stream` |
| `pc` | where `APB_SrvReceiveFromRemote` is |
| `chain`, `cur`, `ib1` | the buffers appended, `pr_InBuf`, the local of `APB_ProcessBuffer` |
| `off`, `count`, `canRel`, `live` | `ib_Offset`, `ib_PacketCount` (modulo `CountMod`), `ib_CanRelease`, buffers not given back |
| `queue`, `held` | `pr_Queue`; packets that connections keep |
| `lastIn`, `asked`, `handled` | `srv_LastInPackId`; history: ids asked for again, packets handed on |
| `crossed` | history: a packet was held when another buffer was appended |

| Action | Code |
|---|---|
| `BeginRead`, `NoReadBuffer` | `APB_SrvBeginRead`, with and without a buffer to read into |
| `Receive`, `ReadFails` | a read ends, with words or without; `APB_AppendBuffer` |
| `AcceptPacket`, `BadData`, `LoopEnds` | one iteration of `APB_ProcessBuffer`: a packet, a word skipped, the end of the loop |
| `HandlePacket`, `PassDone` | the loop over `APB_NextPacket` and `APB_HandlePacket`, with the requests for missing ids |
| `ReleaseHeld`, `DestroyPacketReader` | `APB_ReleaseInPacket` by a connection; `APB_DestroyPacketReader` |
| `PiSends`, `LoseWord` | the line |

A word is known by its packet and its place in it.  The header has two words:
the first stands for `pac_Id`, the second for the length and the rest.  A
checksum is right when the words are those of one packet, which takes the
16-bit sum for perfect.  Bytes are lost in pairs.  What the code does to a
buffer that was given back is not modelled: there the model stops.

### ObjectPool

`types` is `op_Types` with the four numbers and the free list of each
`ObjectType`, `mem` the allocated blocks, `held` the objects users have.
`RegisterObjectType`, `CannotRegister`, `CreateInstance`, `ReuseInstance`,
`AllocFails`, `FreeObject` and `FreeObjectPool` are the calls of
`objectpool.c` split by their outcome.  The free list is a set.

### ApbFs

| State | Code |
|---|---|
| `at`, `pkt`, `own` | DOS packets, where they are and what they ask; the locks programs have |
| `vols`, `mounted`, `lockCount`, `locks`, `port` | `fs_Vols`, `v_Mounted`, `v_LockCount`, objects of type `OT_LOCK` in use, `v_Port` |
| `q` | `fs_Reqs` and `fs_SentReqs` as Exec lists with both links of every node, `fs_Writer`, `fs_WriteReady`, and of each request its packet and type |
| `remotePort`, `resp`, `reading` | `fs_RemotePort`, what `fs_ReadBuf` holds, `fs_Reader` |
| `pc`, `sig`, `got` | `FS_Run`, the signals of the process, and what of them a pass has still to look at |
| `connected`, `piReqs`, `parts` | server and Pi |

| Action | Code |
|---|---|
| `Wait`, `NoMoreDos`, `NoMoreRemote`, `BreakSeen` | a pass of `FS_Run` |
| `ReplyAtOnce`, `ActionCopyDir`, `Ask`, `OutOfRequests` | `FS_HandlePacket` with the `FS_Action...` of the packet |
| `WriterBack`, `ReaderError` | `FS_ReceiveFromRemote` |
| `HandleMountVolume`, `HandleUnmountVolume` | the Pi's messages about volumes |
| `AnsweredWhole`, `AnsweredInPart`, `AnsweredTwice` | `FS_ReceiveRemoteMessage` with the `FS_Action...Reply` of the packet |
| `Send`, `Break`, `WriteDone`, `PiAnswers`, `PiSkipsEnd`, `PiMounts`, `LoseConnection` | programs, the server and the Pi |

DOS packets with the same control flow share a type, as the head of the module
says.  The request lists keep their links because a READ answered in parts is
taken off its list once per part: after the first time its links are stale,
and whether that hurts depends on its neighbours.  Once the handler writes
through NULL (`"dead"`), or gives back a packet it does not own or fills in a
lock it did not get (`"wild"`), the model stops.

## 3. Runs

| Run | Instance | Checks |
|---|---|---|
| `Connections` | one client, control request and two I/O requests, two object slots, two packet lengths, two packets from the Pi, two in flight | `OneOwner`, `StreamIntact`, `NoReadLeftWaiting`, `BoundedDelay` |
| `ConnectionsReopen` | one client that opens twice with one I/O request and may go on after a failed open | `QueuedInUse`, `OpenTakesNoData`, `StrandsOnlyNoHandler` |
| `ConnectionsTwo` | two clients with a control request each, one of them careless, `IdMod` = 3 and up to four opens: the counter wraps past 0 to ids in use | `TypeOK`, `UniqueIds` |
| `ConnectionsLive` | as `Connections`, one length, one packet | under fairness `PortServed`, and `TimeoutFires`, which names the ticks it needs |
| `ServerLoop` (`ServerTimeouts`) | two retries, two ticks, one missed ping allowed, three packets of the Pi, one message, one Ctrl-C, a time-out of two ticks | `TypeOK`, `AttemptsBounded`, `PingsStopOnlyMissed`, `TimerRuns`, `Resources`, `OnlyHelloRevives`; under fairness `EndsOrRevived`, `GivesUp`, `AnsweredOrStopped` |
| `PacketWriter` | three buffers of six bytes, at most two packets each, headers of two, lengths 2, 3 and 6, one packet kept, five packets, one failed allocation | `TypeOK`, `KeptInLive`, `WrittenBufferHeld`, `LeaksOnlyLeaving`, `PadInside`, `InOrder`; under fairness `AllHanded` |
| `PacketReader` | three packets of 0 to 3 words, buffers of four, headers of two, a pool of four, one word lost, one failure | `TypeOK`, `InSequence`, `PromptSafe`, `GapsAsked`; under fairness `AllReceived` |
| `ObjectPool` | two types over four blocks, minimum and maximum 0-2, 1-3, 2-2 or 2-1, memory short twice | `TypeOK`, `Accounted`, `Implements` |
| `ApbFs` | two DOS packets of nine types, two volumes, three requests, one lock, two sends, READs in two parts, two mounts, unmounts, breaks or losses | `TypeOK`, `AnsweredOnce`, `LocksKept`, `ListsIntact`; under fairness `AllAnswered` |

The properties:

- `OneOwner`: a request is on at most one list of the server, once, and on
  none when its client has it.
- `StreamIntact`: what a connection accepted is what READs got, in order,
  followed by what is still queued.  A READ that is too small takes nothing.
- `NoReadLeftWaiting`: until the counter of ids wraps, the connection of a
  client whose open succeeded never holds both data and a waiting request.
  (CONNECTED does not call `APB_PushToClient`, so it can when a client reads
  after its open timed out.)
- `BoundedDelay`: the time-out scan stops early after a time-out (see below),
  but misses a request in no more ticks than there are requests.
- `QueuedInUse`: a queued packet has not been released, and is on one queue.
- `OpenTakesNoData`: until the counter of ids wraps, `APB_PushToClient` never
  answers an OPEN with data.  After that the packets of an old connection can
  meet a new one of the same id: with `IdMod` at 3 TLC finds an OPEN answered
  with data, with 2 a READ left waiting.
- `StrandsOnlyNoHandler`: only the branch for NO_HANDLER leaves a packet
  unreleased that no queue holds.
- `UniqueIds`: until the counter wraps, ids tell live connections apart.
- `TimeoutFires`: as long as the time-out scan is made again and again, a
  queued request that has a time-out leaves its queue.  Without that premise it
  fails.
- `PortServed`: every posted request is taken off the port, whatever id it
  names.
- `AttemptsBounded`: at most `MaxRetries` Inits are sent between two Hellos.
  `retryCount` is set once, at the start, and not again after a connection was
  made and lost.
- `PingsStopOnlyMissed`: while connected both ping counters are 0 only after a
  ping was not answered.  (That at most one of them runs, `PingExclusive`, is
  proved and has no run.)
- `TimerRuns`: a server that waits has its timer, unless a Hello came in
  `SS_DISCONNECTED`.
- `OnlyHelloRevives`: nothing else leads out of `SS_DISCONNECTED` but on to
  the end.
- `Resources`: port and remote are open in every pass and closed at the end,
  whichever step of the start failed.
- `EndsOrRevived`, `GivesUp`: a server that was told to stop stops, and one
  that connects succeeds or stops.

- `AnsweredOrStopped` (`ServerTimeouts`): an OPEN that a connection holds is
  answered or dropped, be it taken before the Pi has said Hello, over losses
  and reconnects, unless the server stops first, or is left without its timer
  by a Hello that undid `SS_DISCONNECTED`.  Both exceptions happen.

- `InOrder` (`PacketWriter`): the writer implements `PacketQueue`.
- `KeptInLive`: a packet kept to be sent again lies in a buffer that was not
  given back, and `ob_PacketCount` is exact.  The exception is
  `APB_DestroyPacketWriter`, which frees the buffers of the queue while packets
  are kept in them; a writer in use has freed none.
- `WrittenBufferHeld`: when a buffer is given back under a running write, more
  than `Keep` packets are kept and none of them has been given to the device.
  They were accepted behind those in the buffer, but not all of them during the
  write: ten that were queued before it and one more are enough in the code.
- `LeaksOnlyLeaving`: no packet that is dropped, by an allocation or at the end,
  leaves behind a buffer that nobody will release.  A buffer can only be lost in
  the step in which `APB_WriteBuffer` takes it off the queue, and only if it
  never got a packet or if its packets had all been dropped by then, with more
  than `Keep` behind them of which the device had been given none
  (`packetwriter.c` 277).
- `PadInside`: the pad byte is inside the buffer, unless a packet is one byte
  shorter than a buffer.
- `AllHanded`: every accepted packet is handed to the open remote.
- `InSequence` (`PacketReader`): packets are handed on in the order sent, none
  twice, whatever the line loses.
- `PromptSafe`: while no packet is held across buffers and nothing was lost or
  refused, packet counts are exact, no buffer goes under its packets, and three
  buffers do.
- `GapsAsked`: while no allocation or read fails, what is missing in front of a
  packet has been asked for.
- `AllReceived`: if nothing is lost, refused, held or too long, every packet
  arrives.  These three properties say nothing after a failure: a request for
  missing packets that fails half way (`server.c` 456-476), or a read buffer
  that cannot be had (528), is not checked by them.
- `Accounted`: the pool's counters match its lists and its users' objects.
- `Implements`: `ObjectPool` implements `ObjectStore`.
- `AnsweredOnce` (`ApbFs`): a packet the handler has is being asked for, and no
  answer comes for one it has given back, save for END and long WRITEs; where
  there are requests for every packet at once (`Enough`), only ENDs and WRITEs
  use the others up.
- `LocksKept`: every lock is with a program or on its way back, `v_LockCount`
  counts those of its volume, and the handler does not stop while one is out,
  save what FREE_LOCK of a null key and FH_FROM_LOCK leave behind and volumes
  mounted again.
- `ListsIntact`: `fs_Reqs` always links what waits, `fs_SentReqs` what was
  sent until a READ is taken off it twice.
- `AllAnswered`: every DOS packet is answered, with the exceptions it names.

The exceptions in a property are part of what it says of the code: each is a
way the code goes wrong, found when the property without it failed, and the
property shows that there is no other.

`PromptSafe` excepts lost words because with them it fails: behind a hole the
reader can wait for the rest of a packet that never comes while whole packets
lie behind it, until the next buffer is appended.  When a packet of the earlier one is cut out after all, its
release counts down the later buffer as well.  Simulation of the model with
four lost words and five packets finds the wrong count; the instance checked
here, with one lost word, is too small for it.

Three runs expect a violation: the documentation promises something the code
does not do.

| Run | `README.md` says | The code |
|---|---|---|
| `ConnectionsLost` | a Read is returned with data or when it times out (288) | requests queued on a connection the Pi disconnects are dropped, `connection.c` 112-134 |
| `ServerLoopLoss` | pings check the status of the connection (76); the code logs a "Remote connection timeout" | after one missed ping no other is sent and no timeout counted, `server.c` 676-693: the server stays connected to a Pi that is gone |
| `PacketReaderHeld` | a packet waits on its connection until a Read (319) | `packetreader.c` 389 counts down the next buffer too when a packet is released, and frees it under packets still queued |

Smaller differences between `README.md` and the code, which the models follow
as the code has them: a request may time out later than `r_Timeout` (179), as
the scan ends at the first one that does (`connection.c` 289-304); an Error in
answer to Connect is queued as data (321; `connection.c` 249-261); a Write is
returned when its data is copied, not sent (278; `connection.c` 387-391); a
message posted after the port was drained goes down with it (`server.c`
227-235); Ctrl-C, a tick and a Hello in one pass leave a connected server
without a timer (`server.c` 704-707); no packet is ever sent again, since
`packetwriter.c` 295 compares the wrong field; an OPEN taken before the server
is connected is not aged (179; `server.c` 675-697), and a server that gives up
and stops leaves it unanswered, which is why `AnsweredOrStopped` excepts
`"STOPPED"`.

**Bounds.**  `MaxOpens`, `MaxData`, `InMax` and `OutMax` bound the number of
opens, of unsolicited packets, and of packets in flight each way.  Two I/O
requests and two packets of two lengths are enough for every pairing of a
READ that fits, one that does not and one that times out; two requests
expiring in one tick need a third behind them for nothing.  Two opens let late
packets of a first connection meet a second.  The writer with room for one
packet fails in every operation that allocates.  Time-outs of two ticks
separate "is aged" from "expires".

The constants of the loop that are 5 in the code are 2, 2 and 1, so that
`PING_TICKS` and `MAX_MISSED_PINGS` can be told apart.  Three packets of the Pi
lose a connection and open the next: Hello, a packet that brings pings back
after the first was missed, and a second Hello.  `ServerLoopLoss`
has neither messages nor Ctrl-C, to show the loss by itself.  Deadlock is not
checked: the server stops.

Three buffers of the writer are one being written, one behind it and one being
filled; the lengths are a packet without data, an odd one and one that fills a
buffer, so that buffers end exactly, with a pad and with room to spare.  With
one packet kept the third one evicts; ids wrap at four.  Lengths 0 to 3 over
read buffers of four words put headers and data at every place of a buffer,
and 3 is too long for two buffers at the last one.  Ids wrap at 3.
`ib_PacketCount` counts modulo 5, more than the packets that can lie in a
buffer, as in the code, where 65536 is more than the bytes of a buffer
(`PacketReaderAssumption`).  In the pool a type with its minimum above its maximum, and two
types that compete for four blocks, meet every branch.  Two DOS packets, three
requests and one lock let a request pool and a lock pool run out, and a READ
answered in parts meet a neighbour on its list.  In all four deadlock is not
checked: counters are bounded, and the server or handler may end.

**Fairness.**  In `Connections`, `FairSpec` assumes weak fairness of the server
taking messages and taking packets.  It assumes nothing of the time-out scan,
which the code makes only in `SS_CONNECTED` and with its timer on: that premise
is in `TimeoutFires` itself, and `ServerTimeouts`, with the fairness of
`ServerLoop`, shows what becomes of an OPEN without it.  Nothing is assumed of
the clients, of the Pi or of the line.  In `ServerLoop` it assumes that the server takes the steps it can, and that a
timer that was sent comes back.  The number of messages is bounded there: a
client that posted for ever could keep the loop of `APB_ReceiveFromClient`
going for ever.  In `PacketWriter` it assumes that the server goes on sending
(every pass ends with `APB_SrvSendToRemote`, and the timer makes one a
second), and that the device finishes its writes; in `PacketReader` that the
server takes its steps and a read ends when something has come, with nothing
assumed of the Pi; in `ApbFs` that the handler runs, the server takes what is
written, and the Pi answers what it receives.

## 4. Proofs

`ConnectionsProofs`, `ConnectionsQueueProofs` and `ConnectionsOpenProofs`
prove, for all sets of clients, slots and objects and all values of the bounds
allowed by `ConnectionsAssumption` (and, for `BoundedDelay` to mean anything,
`FiniteAssumption`: there are finitely many requests):

| Theorem | Statement |
|---|---|
| `TypeCorrect` | `Spec => []TypeOK` |
| `Ownership` | `Spec => []OneOwner` |
| `StreamCorrect` | `Spec => []StreamIntact` |
| `IdsCorrect` | `Spec => []UniqueIds` |
| `NothingStranded` | `Spec => StrandsOnlyNoHandler` |
| `BuffersKept` | `Spec => []QueuedInUse` |
| `DelayBounded` | `Spec => []BoundedDelay` |
| `OpensTakeNoData` | `Spec => []OpenTakesNoData` |
| `NoReadWaits` | `Spec => []NoReadLeftWaiting` |

*Types.*  One lemma per group of actions (`ClientType`, `RequestType`,
`ServePacketType`, `ScanType`, `PiType`) over lemmas for the shared operators:
`UnlinkSeq` says what `Remove` does to a list, `PushType` what a run of
`APB_PushToClient` leaves.

*Ownership.*  `OneOwner` is inductive on top of `TypeOK`.  `Own(P, Q, W)` is
`OneOwner` for a given port, queues and owners, and `Thins(v, w)` says that the
list `w` is `v` with some elements gone and order kept.  `ThinOwn` shows that
thinning lists keeps ownership as long as the owner changes only for requests
that left; `AddOwn` that a request that was on no list may be added to one.
Every action is a composition of the two: the scan and the answers to Connect
thin queues, a READ moves the head of the port to a queue, and
`APB_PushToClient` (`PushOwn`) cuts the front off one.

*Streams.*  `StreamIntact` is inductive on top of `TypeOK`.  `PushStream`
shows that a run of the loop moves a prefix of the packet queue to
`delivered`; `StreamMoved` and `StreamExtended` are the sequence facts behind
it.

*Ids.*  `UniqueIds` is not inductive: a new connection could get an id in use.
`IdInv` adds that while the counter has not wrapped, every live id is below
`nextId`, and `nextId` is one more than the number of opens.

*Buffers.*  A step does one of five things to the packets connections keep
(`PacketsStay`, `Created`, `Destroyed`, `Forgotten`, `PushedFor`):
`PacketSteps` looks at each handler once.
`StrandsOnlyNoHandler` then needs `PacketsLive`, that an object not on the
server's list has no packets.  `QueuedInUse` needs `NumberedOnce`, or the next
packet could be numbered like one in use.

*Delay.*  `BoundedDelay` is not inductive; what is, is that a request was
missed at most as often as there were requests in front of it that are gone:
`skipped[x]` plus its place on the queue never exceeds the number of requests.
Each time the scan misses `x` a request in front of it has left the queue
(`Advances`, `Gains`).

*Opens.*  That an OPEN takes no data looks obvious, as it is answered when the
connection becomes CONNECTED, before which nothing is pushed.  It is not: where
Connect cannot be allocated `cnn_State` is never written and may say CONNECTED.
The argument is then that the Pi never heard of such a connection
(`OpenUnreached`), for which every id on the line, at the Pi or in a connection
must be one that was handed out (`IdsKnown`).  `Manners` says what clients do to
requests and when, `OpensFirst` that an OPEN is the first request of its queue.

*Reads.*  `NoReadLeftWaiting` is about CONNECTED, the one transition after
which data and a READ could lie side by side.  Four more invariants exclude it: no
client has the id of another (`OneHolder`), so before its OPEN is answered
nobody can read from a connection (`OpenAlone`), and after that no second
CONNECTED can come, because a Connect is sent once (`OneToken`) and its answer
was the one that answered the OPEN (`OpenedSettled`).  All of them hold until
ids wrap, and the property with them.

`ServerLoopProofs` proves, for all values of the constants allowed by
`ServerLoopAssumption`:

| Theorem | Statement |
|---|---|
| `LoopTypeCorrect` | `Spec => []TypeOK` |
| `Attempts` | `Spec => []AttemptsBounded` |
| `Pings` | `Spec => []PingExclusive` |
| `PingsGoOn` | `Spec => []PingsStopOnlyMissed` |
| `TimerKept` | `Spec => []TimerRuns` |
| `ResourcesClosed` | `Spec => []Resources` |
| `Final` | `Spec => OnlyHelloRevives` |

They share one inductive invariant, `LoopInv`.  `PcInv` says in which states of
the server a pass can be made; without it a Hello could be handled by a server
that is stopping, with no retries left.  `RetryInv` relates Inits to retries
used up, for each state (the type of `retryCount` depends on it), `TimerInv`
says in which states the timer may be off, and `ResourceInv` what is open in
each.  `RunMoves`, `PassMoves` and `OutsideStill` say how a step of `APB_Run`,
of a pass and of the world move the state; the lemma for each part of the
invariant is a case distinction over these.

`PacketWriterProofs` proves, for all sets of buffers, all sizes, lengths and
numbers of packets allowed by `PacketWriterAssumption`:

| Theorem | Statement |
|---|---|
| `TypeCorrect` | `Spec => []TypeOK` |
| `Refinement` | `Spec => InOrder` |
| `KeptCorrect` | `Spec => []KeptInLive` |
| `PadsInside` | `Spec => []PadInside` |
| `LeaksCorrect` | `Spec => LeaksOnlyLeaving` |
| `HeldCorrect` | `Spec => []WrittenBufferHeld` |

*Order.*  That the order holds across buffers rests on `QueueInv`: the queue
has no buffer twice and only live ones, the current buffer is its last; the
packets of a buffer have consecutive numbers from its `start`, the next buffer
starts where this one ends, everything in front of the head has been handed
over, and of the head the first `wrote` packets.  `PutQueue`, `TakeQueue` and
`SendQueue` show that each operation keeps it; what `SendToRemote` adds to
`handed` is then the next slice (`Slice`), a `Hand` of `PacketQueue`, and
everything else an `Accept` or a stutter.

*Kept packets.*  `KeptInLive` is not inductive, because it does not say when a
buffer may be released.  `Kept` adds that a live buffer outside the queue is
marked `canRelease` (`LeftMarked`), that the queue has no lost buffer, and the
exact counts as cardinalities of the places of a buffer's packets in `recent`;
`PlacesShift` and `PlacesAppend` say how these change when packets are dropped
at the front and one is added at the end.

*Pads.*  A packet that fits leaves room for its pad, one that fills its buffer
exactly is even, and only a length of `BufferSize - 1` is neither.

*Leaks.*  `LeaksOnlyLeaving` is about a step, and needs two invariants of the
states before it.  `Ahead` says that no packet behind the first buffer of the
queue has been sent.  `Pending` says that a buffer of the queue still has a kept
packet, unless it never got one, or it is the first and `Crowded` holds: more
than `Keep` packets are kept, none of them sent.  Then `SendLeaks` shows that a
buffer which leaves the queue is marked for release or is one of the two
exceptions, and `PutLeaks`, `AllocLeaks` and `DestroyLeaks` that the last packet
of a buffer that has left takes the buffer along, the packets that
`APB_DestroyPacketWriter` releases included.

*Destruction.*  Once the remote is closed `APB_DestroyPacketWriter` takes the
queue apart from the front while packets are still kept in it, so the
invariants are stated as far as they survive that: `QueueKept` keeps
`QueueInv` while the remote is open and afterwards that what is left of the
queue is live and unmarked, `KeptAll` lets kept packets lie in freed buffers,
and `SequenceKept` and `LeavingKept` speak of an open remote only.
`DestroyQueue`, `DestroyKept` and `DestroyDrops` follow the four steps.

*Running writes.*  A packet is dropped at the earliest when `Keep` others were
put behind it, but those may lie in the buffer that is being written too, so
`WrittenBufferHeld` depends on which kept packets do.  `InSequence` (of this
module) says that the kept packets are in order, that the sent ones among them
are those handed over, and which of them lie in a buffer of the queue;  `Held`
adds that while a write runs, nothing behind the packets of its buffer has been
sent.

`PacketReaderProofs` proves, for all sizes of buffers and headers, all lengths,
pools and moduli allowed by `PacketReaderAssumption`:

| Theorem | Statement |
|---|---|
| `TypeCorrect` | `Spec => []TypeOK` |
| `PacketsInSequence` | `Spec => []InSequence` |
| `GapsAreAsked` | `Spec => []GapsAsked` |
| `PromptReleasesSafe` | `Spec => []PromptSafe` |

*Types.*  `Types` adds to `TypeOK` that words belong to packets that were
sent, and that the loop's local is set only while the loop runs.  `AheadWords`
says where in the stream the words the loop looks at are, `Decided` what holds
when there are enough of them: the buffer a packet reaches into exists.

*Sequence.*  `InSequence` says nothing of where the reader stands, so it is not
inductive.  `LineInv` says that first words of packets come in the order sent
(`SentLine`, `LostLine` and `SameLine` follow the words through a step), and
`ReachedInv` that every first word behind `Reached` belongs to a packet later
than all accepted ones.  That `Reached` never goes back (`StepRoom`) needs
`RoomInv`: only the current buffer's `ib_Offset` can lie behind its end, which
happens when words of a packet were lost, and the loop can be in a buffer in
front of the current one only when that one is all read.  `AcceptRoom` then
shows that a packet begins behind `Reached` and ends no later than the new one.

*Gaps.*  `GapInv` adds that `srv_LastInPackId` is the id of the packet handled
last; `Between` is the fact about remainders.

*Prompt releases.*  `APB_ReleaseInPacket` counts down the next buffer too, so
`PromptSafe` depends on there being no next buffer when a packet that lies in
one buffer is released, and that on how far the reader has come when a buffer
is appended.  `Whole` says that the line carries whole packets, one after the
other, and `Chained` that the buffers in the chain are the ones appended, up to
`Top`, full but for the last.  Then the reader always stands where a packet
begins (`Stands`): `AtPos` reads off the packet there, `Deciding` shows that what
the loop accepts is that packet, up to its last word, and `Waiting` that when it
accepts nothing the packet has not come yet or does not fit into two buffers.
`Kept` says where the outstanding packets are, relative to the current buffer,
which buffers are marked `ib_CanRelease`, and that counts are the cardinalities
`In(b)`; `Seen` that a packet arrives once, without which a packet added to
`Outstanding` would not add to a cardinality.  `BeginKept`, `ReceiveKept`,
`AcceptKept` and `ReleaseKept` follow `Kept` through the four operations that
disturb it.  `CountMod > BufferSize` is used: every outstanding
packet has at least one word in the current buffer, so their number never
exceeds `ib_Offset`.

`ObjectPoolProofs` proves for all sets of types, finite sets of blocks and all
limits:

| Theorem | Statement |
|---|---|
| `TypeCorrect` | `Spec => []TypeOK` |
| `Accounting` | `Spec => []Accounted` |
| `Refinement` | `Spec => Implements` |

`Accounted` is inductive on top of `TypeOK`, and types need it: that a counter
does not go below zero follows from its being a cardinality.  `Places`
restates it block by block (`Placed`), without unions and intersections, and
one lemma per operation follows the blocks it moves.  For the refinement, that no object in
use is handed out follows from `Accounted` (a free one is in nobody's hands),
and that a refusal means the maximum is out from `Counted`.

`ApbFsProofs` proves, for all finite sets of packets and volumes, all numbers of
requests, locks and requests of a WRITE, and all values of the bounds
(`ApbFsAssumption`):

| Theorem | Statement |
|---|---|
| `TypeCorrect` | `Spec => []TypeOK` |
| `PacketsAnsweredOnce` | `Spec => []AnsweredOnce` |
| `LocksAccounted` | `Spec => []LocksKept` |
| `ListsHold` | `Spec => []ListsIntact` |

The inductive invariant is `FsInv`.  `LineInv` says where a request can be
between `FS_SendReq` and its response: with `fs_Writer`, on its way to the Pi
or in `fs_ReadBuf`, in one of these places only (a READ answered in parts
excepted), and `fs_Writer` is not used while `fs_WriteReady` is false.
`PortInv` keeps packets on one port.  `AnswerInv` strengthens `AnsweredOnce`:
the request of a packet that is always expected is its *last* one
(`left = 0`), because a response to an earlier one does not end a WRITE; two
requests of one packet that are not orphans are a WRITE's (`AloneInv`), so that
answering any other packet leaves no request behind; and that requests used up
mean an END or a WRITE is a count of the packets against the requests, which
needs `Enough`.  `LockInv` writes the sum of `LocksKept` as `Sum(Borrowed)`, so
that a step that lends or takes back `d` locks of one volume is followed by one
lemma (`LockStep`), and adds that a volume the handler does not know has lent
nothing, without which mounting it would not leave `v_LockCount` right.  The
requests of a WRITE are enqueued by a fold, which `FoldsLeft` turns into a
function of the number enqueued, so that `EnqueuedAllIs` follows them by
induction on a set of numbers (`AllOf`).

`ListInv` is what `ListsIntact` needs.  A READ answered in parts is removed from
`fs_SentReqs` once per response, and from the second time on by the links it
kept from the first.  What that does depends on its neighbours then: they must
still be each other's.  `Shape` says that they are.  The node before a request
for which a response may still come either never leaves the list any more (the
header, or a request the Pi has skipped or that was lost) or is answered first,
since requests are appended in the order in which they go to the Pi (`Ordered`);
so when a request is answered, the node before it is one that stays, and
while the rest of a READ is still to come, no other request is answered and
nothing but the last link can change.  After a second removal the list may
have lost what was appended in between (`q.again`), but its nodes still
link only nodes of `fs_SentReqs`, which is why `fs_Reqs` stays whole.
`ShapeSent`, `ShapeAnswered` and `ShapeMoves` follow `Shape` through a request
sent, a response, and a change on the line; they are stated of links and sets,
so that `AllInOrder` can take them through the fold of `Ask`.

Only model-checked: the liveness properties.  Fairness and what is enabled are
out of the prover's reach.

## 5. Not modelled

- Logging and statistics, the configuration file, and the small clients: they
  keep no protocol state, or are straight-line users of the library.
- `server/remote.c`, `event.c`, `log.c` and `server/old/`: built into no
  program.
- The arithmetic of the checksum (`protocol.c`).  Its loop does not end for an
  odd length, which takes a header damaged in its length or flags.
- Packets with `PF_RESEND`: the Pi sends them when it is asked; the reader
  takes them as any other, and the comparison of ids skips them.
- In the client library: Ctrl-C while Open or Close waits, and ports and
  signals of their own.  After Ctrl-C the code frees a request the server
  still has, and no state after that means anything.
- Setting up the serial device, the library skeletons (`lib.c`).
- In ApbFs: AmigaDOS's list of devices, names, data, and what fills in a
  packet.
- Products of modules, such as the loop with its connections, or reader and
  writer over one line: see section 2.
