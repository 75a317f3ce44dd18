# Nuclear Messenger: a TLA+ verification project

Nuclear Messenger is a small chat system in C++: a server that sends every
message it receives to all connected clients, a client library around a state
machine, and a graphical client. Both ends are built on boost asio: everything
of interest happens in completion handlers, and what makes them hard is the
order in which operations complete, handlers run and connections break.

This directory models the server, the client library, the client object of the
new server and the message layers, checks them with TLC, and proves with TLAPS,
for every size of the system: the life-cycle of the server's peers and that the
server implements a broadcast; that the client library answers each message
once, reports its state truly, and reads from its first connection; that the
new server's client object implements a connection between hosts of any byte
order; and that what one host serializes another understands. Liveness is
model-checked. Paths below are relative to the repository.

## The system

| Component | State | Operations | Interaction |
|---|---|---|---|
| `DispatchingServer` (`src/server/dispatcher.*`, `main.cpp`) | `peers_list`, `current_conn_id`, the acceptor, the io_service | accept, react to the events of the peers, distribute a message, end | owns the peers; is called back by them |
| `RemotePeer` (`src/server/remotepeer.*`, `servevent.hpp`) | socket, header buffer, `error_happened` | receive header, receive body, send, report an error, shut down | every operation keeps a counted reference to the peer |
| `ReferenceCounter` (`include/refcounter.hpp`) | `reference_count`, the action at zero | construct, copy, destroy a `CountedReference` | at zero the peer asks the server to erase it |
| `ClientNode` (`src/clientnode/clientnode.cpp`, `sigtypes.hpp`) | the machine, its mutex, signals, `last_msg_id` | `connectTo`, `sendUserMessage`, `disconnect`, destruction | called by the user's thread, reports through signals |
| `ClientnodeMachine` (`statemachine.*`) | active state, io_service, I/O thread, socket, resolver | react to requests and to the handlers' events; start and stop I/O; wait for the handlers at the end | handlers run in the I/O thread and call `process_event` |
| `ConnectedClient` (`src/servnode`) | socket, header buffer, callbacks | receive, send, shut down | handlers hold a `weak_ptr` |
| message layers (`msglayer`, `neartypes`, `bytes`) | none | encode and decode | used by all of the above |
| `client-wx` | widgets | | a user of `ClientNode` |

What is hard in each, and what makes it correct:

* **Server and peers.** One thread, but up to one receive and any number of
  sends per peer are outstanding, an error may be reported by any of them, and
  other peers' messages start sends on a peer that is being shut down. A peer
  must be erased by the end of its last handler, not earlier and not never; no
  message that was read may be lost; each client must get the messages in
  order, in frames that are not mixed.
* **Client.** Two kinds of threads enter one state machine; a connection that is
  given up leaves operations, queued handlers and possibly a running thread
  behind, and the next one shares socket, io_service and machine with them.
  What the application is told must be what is the case, attempts must end, and
  no message may be reported upon twice.
* **Destruction of a client.** The destructors run in the user's thread while
  I/O threads may still be inside the io_service and their handlers inside the
  machine. They must return, and no thread may use what they destroyed.
* **ConnectedClient.** The owner may let go at any moment, also inside a
  callback, and must not be called afterwards; a shutdown does not close the
  socket, so reads, writes and their errors end in any order; the owner must be
  told of the loss, and not before it has heard what came before it.
* **Message layers.** Byte orders, lengths and offsets at their limits; decode
  undoes encode between hosts of different byte order.

## Modules

| Module | Role |
|---|---|
| `Dispatcher` | the server: `DispatchingServer`, `RemotePeer`, `ReferenceCounter`, clients, reactor |
| `Broadcast` | abstract: what the server promises its clients |
| `ServerBroadcast` | the refinement mapping from `Dispatcher` to `Broadcast`, and the invariant behind it |
| `MCDispatcher` | instances of `ServerBroadcast` |
| `DispatcherProofs` | theorems about `Dispatcher` |
| `BroadcastProofs` | the server implements `Broadcast` |
| `ClientNode` | the client library with its threads, io_service and socket |
| `MCClientNode` | instances of `ClientNode` |
| `ClientNodeProofs` | theorems about `ClientNode` |
| `Layers` | byte order, segmentation, strings, messages: operators |
| `LayersProofs` | theorems about `Layers` |
| `ConnectedClient` | one client of the new server, its owner, and the remote host; uses `Layers` |
| `Connection` | abstract: what a `ConnectedClient` promises its owner |
| `ClientConnection` | the refinement mapping from `ConnectedClient` to `Connection`, what packets can be, and the invariants behind it |
| `MCConnectedClient` | an instance of `ClientConnection` |
| `ConnectedClientProofs` | theorems about `ConnectedClient` |
| `ConnectionProofs` | a `ConnectedClient` implements `Connection`, and hears its remote host to the end |

### `Dispatcher`

A completion handler runs to its end in the only thread, so it is one action:
`RcvHeaderHandler`, `RcvBodyHandler`, `SendHandler`, their error variants,
`AcceptHandler` and `AcceptError`. Everything the handler calls is part of the
action: the event to the server, the distribution to the peers, the shutdown
with the abort of the pending operations, the new receive, and the release of
the handler's reference with the erasure that may follow.

The state per peer is the reference count, `error_happened`, whether the socket
is open, and its operations. An operation is pending, or completed with its
handler queued: `readOp` for the one receive, `writeQ` (in the reactor),
`writesOk` and `writesFailed` (completed) for the sends. `reference_count` is
the code's counter and is changed where the code changes it; that it equals the
number of operations is a property, not a definition. The completions
themselves (`ReadCompletes`, `WriteSome`, ...) and the clients (`LinkBreaks`)
are external actions: any pending operation may complete or, once the
connection broke, fail, at any moment; closing a socket aborts what is pending
but cannot take back what has completed.

A message is a number, a header one of the classes the control distinguishes
(`Headers`), a frame a row of `Chunks` pieces. With `PartialWrites` the kernel
takes a part of a frame and `async_write` goes on with a new operation behind
those that other messages have queued meanwhile.

`wire`, `joined`, `received` and `distributed` are history: what the kernel
took, and the counts the properties relate it to.

`DestroyServer` is the end of `main()`: the members go in reverse order of
declaration. An exception that leaves `run()` ends the process
(`service = "terminated"`).

### `Broadcast` and `ServerBroadcast`

One sequence of messages; the stream to a client is a gapless run of it from the
first message after it joined, until it leaves. `ServerBroadcast` maps
`Dispatcher` onto it: members are the peers whose socket is open, the stream is
read frame by frame, a frame being `Chunks` pieces long, as the receiving
segmentation layer reads it.

### `ClientNode`

The steps are finer here because threads interleave. The user's thread is at
one of the points named by `caller`; every call is two steps or more: the call
itself (with the lock that is released again at once) and the reaction of the
machine. An I/O thread takes a handler from the queue, and if the handler
processes an event that is a second step (`React`), done with the mutex held.
`Rearm` is the rest of the body handler after the lock was released.

Two threads inside `process_event` is a data race on the statechart. What the
program does then is undefined, and the model enters the state `Undefined` about
which no other property claims anything. That such a state can be reached, by
two threads, is the subject of one run of its own.

Each accepted request has a number, its *chain*, carried by the operations and
handlers that descend from it. The code has no such number; the model uses it
only in properties and to tell operations apart.

`stopIOOperations` is `stop()` and at once `reset()`: each thread waiting in
`run()` may or may not have seen the flag, so any subset of them returns. A
service that runs out of work stops itself; only the next `stopIOOperations`
resets it.

Closing the socket queues the handlers of its operations, reads first, then the
connect, then the writes: `CompletionOrders` says which sequences those are, and
`Abort` takes any of them. Writes may end in any order, aborted or not, because
`async_write` goes on behind the others after each piece the kernel takes. A
read or a write that is started on a connecting socket waits for the connection
(the kernel answers that it would block), on a closed or unconnected one it
fails at once.

A header that announces no body gives a read of zero bytes, which completes at
once whatever the socket is. Its message is empty; in StateConnected the machine
reads the first byte of it (`EmptyMessage`), and what then happens is undefined.

The destructors are further points of the user's thread, one per step that
another thread can get in front of: `Terminate` (`~ClientNode`; then the signals
and the mutex go, which are declared after the machine), `StopMachine`,
`CatchLastThread`, `CountHandlers` (the reference count read without a lock),
`AwaitHandlers` (the lock and the wait) and `Leave` (the members, the io_service
among them). The machine's reference count is `Work`: a reference per operation
pending, queued or being handled. `HandlerReturns` drops it and notifies the
destructor when it was the last. A thread that locks the mutex, emits a signal
or runs the io_service when these are gone is in undefined behaviour, as above.

### `Layers`

An unsigned integer of w bytes is the sequence of its w bytes, so that the width
of every field is exact. `PutWord` and `GetWord` are `to_netbo` with
`writebytes` and `readbytes` with `to_hostbo` on a host of a given byte order;
the shifts and masks of the two specialisations of `reversebytes` are modelled
as such, the general template as the reversal of the memory. `Segmented`,
`decodeHeader`, `NearSerialized`, `NearError`, `NearDecoded` and the string
layer are put together from them as the code does it. A `SerializedData` is the
bytes it shows.

### `ConnectedClient`

The remote host sends packets in its byte order (`orders`): serialized messages
and a set of others (`BadFrames`). What has arrived is a sequence of bytes, and
the two kinds of receive take what they were started for. The remote host
closes, dies within a packet, or resets the connection.

A handler locks its `weak_ptr` first. Between handlers the object lives exactly
while the owner holds the last `shared_ptr` (`held`); `Release` destroys it,
which aborts the pending operations, whose handlers then find the `weak_ptr`
expired. In both callbacks the owner may let go of the connection, in
`receivedMessage` it may call `shutdown()` as well: the object lives until the
handler returns and the rest of the handler is part of the same action.
`shutdown()` leaves the socket open: what has arrived can be read, writes fail.

`said`, `cut`, `received`, `disconnected`, `written` and `closing` are history.

### `Connection` and `ClientConnection`

The remote client says things, the owner hears them in order, is told at some
point that the client has gone, and neither hears nor is told anything after it
has let go. `ConnectedClient` is mapped onto it by decoding each body as a
`NearUserMessage` on the local host: the refinement contains the whole way from
a message on one host through its bytes to the message on the other.

`ClientConnection` also states what the refinement needs of the packets:
`MessagesFit` (a message is not longer than a packet may be) and
`OthersAreRefused` (any other packet is refused at its header, or carries the
body it announces, and that is no message). Both are needed. The layers
serialize longer messages without complaint, but a receiver refuses them; and a
header whose 16-bit size is not that of its packet makes the receiver take what
follows for another packet. `MCConnectedClient` has TLC evaluate both.

## Runs

Server (`MCDispatcher`):

| Run | Result | What it shows |
|---|---|---|
| `server_lifecycle` | pass | Types; the two inductive invariants; no use of an erased peer; no forgotten peer; no deaf peer left open; no body lost; sockets stay closed; a closed peer drains, and a peer whose connection broke is erased in the end; the server implements `Broadcast`, frame by frame. |
| `server_pieces` | pass | With two messages whose frames are taken in pieces the counts stay exact. |
| `server_interleaved_frames` | violated | Frames of two messages are mixed on one stream. |
| `server_accept_error` | violated | Peers deleted before their handlers returned. |
| `server_short_header` | violated | An exception leaves `run()`. |

Bounds: two connections are enough for a peer that sends and one that is sent
to, goes, or came later; two messages are enough for two sends on one peer, for
a send that fails after the first error, and for the order of messages.
`MCHeaders` has a header on each side of both size limits and an invalid one. Two
chunks are enough to cut a frame. In `server_lifecycle` the kernel takes frames
whole, which the broadcast needs; the two runs with `PartialWrites` have two
messages as well, so that the pieces of one frame can meet another frame. Ids and messages are bounded in the guards of
`AcceptHandler` and `ReadCompletes` only; a server that has used its bounds goes
on with what is outstanding, and its acceptor can still fail, so no deadlock
check is switched off.

`BrokenPeerErased` is conditional: `TrafficGoesOn`, or every broken peer is
erased. The server goes on writing to a peer that was shut down as long as it is
listed, and it is listed as long as such a write has not failed
(`dispatcher.cpp:161`); so messages that never cease can keep it there, and only
the end of the traffic is sure to end it. With the bound on messages
`TrafficGoesOn` is false in every behaviour of the run, and what TLC checks is
the second part: after the last message every broken peer goes. What holds while
messages do arrive is `PeerDrains`, a property of single steps that is proved
for any number of messages: each handler of a closed peer brings it closer to
its end, and a message takes it back by one write.

Client (`MCClientNode`):

| Run | Result | What it shows |
|---|---|---|
| `client_first_connection` | pass | Types; a connected machine listens; the attempt is alone and each receive follows the one before it; the first attempt ends. |
| `client_second_connection` | pass | With the remains of an earlier connection around: reports of the state are in step with it, every message is accounted for and none reported upon twice; the inductive invariant. |
| `client_machine_mutex` | violated | Two threads enter the machine. |
| `client_reconnect_hangs` | violated | A second attempt need not end. |
| `client_stale_connection` | violated | The machine takes the connection of an earlier request for that of the last one. |
| `client_shutdown_hangs` | violated | The destructor waits for handlers that no thread will run. |

Bounds: two requests give one connection and the remains of another; two
messages (in the first run) give a queue of writes, one message with two
connections a write that outlives its connection; two records give a retry (in the first run and in `client_stale_connection`).
The first run and those for the mutex and the shutdown also destroy the client
at any moment (`Destroys`); one request is enough for the destructor to meet
every kind of handler.
`AttemptEnds` holds for one request and fails for two: the passing run says how
far the property goes, the other one where it ends. The same is true of
`ConnectedListens`, see the proofs. `ReportIsCurrent` is checked
for users whose destinations parse (`BadDestinations = FALSE`); with others it
does not hold, see below.

ConnectedClient (`MCConnectedClient`):

| Run | Result | What it shows |
|---|---|---|
| `connected_client` | pass | Types; a deaf connection is shut down and its owner knows; a remote host that says all and closes is heard to the end first; no packet is dropped without a word; a lost connection is reported; `Connection` is implemented. |

Bounds: two packets from the remote host, out of seven: two messages whose bytes
are all different where the byte order matters, one of them without text; wrong
identifier, nonzero last byte, above the size limit, shorter than its header,
and a header without a body. One packet to it in two pieces: enough for a write
that fails while a receive is pending, queued or in its second phase. All four
combinations of byte orders are initial states. The theorems hold without these
bounds.

### Fairness

Server: `run()` executes every queued handler, and the reactor notices a broken
connection: weak fairness of the handlers, `ReadFails` and `WriteFails`, per
peer. Nothing obliges a client to send, to take what is written to it, or to
connect, and nothing obliges the acceptor to fail.

Client: a call the user has made goes on, threads are scheduled, name resolution
ends and so does a connect (by their timeouts). The user need not call anything
and the server need not answer, so transfers are not fair. A destructor that was
started goes on; that a condition variable wakes up without a notification is
possible but not fair.

ConnectedClient: as for the server, handlers that are queued run, and the
reactor completes what can complete and fails what must fail. The remote host
need not do anything, nor the owner.

### Findings

The seven violated properties are what comments of the code say of it and the
code does not do; `PROJECT.json` quotes each. In short: concurrent
`async_write`s on one socket (server); destruction order after a failed accept
(server); a packet size below 4 (server); `scoped_lock{machine_mutex};` is a
temporary (client); an io_service that stopped for lack of work is not reset
before the next attempt (client); handlers of different attempts are not told
apart (client); the destructor stops the io_service and then waits for handlers
only the io_service would run (client).

Smaller observations, without a run of their own:

* A peer that was shut down may stay in `peers_list` for ever: `distributeMessage`
  writes to every listed peer, also to closed ones (`dispatcher.cpp:161`), and
  each such write holds a reference until its failure is handled. Three busy
  senders are enough, when a body of one of them is always queued in the
  io_service in front of the handler of the last failing write.
* A packet that is its header only is relayed by the server, and makes a
  connected client read the first byte of an empty vector
  (`statemachine.cpp:405`). The model has the step (`EmptyMessage`).
* An aborted receive or write of an earlier connection is an `EvtDisconnected`
  for whatever state the machine is in (`statemachine.cpp:556`, `:472`), so it can
  end a new connection. Report and state change together, so `ReportIsCurrent`
  holds all the same.
* `stopIOOperations` does not cancel the resolver: when the name is resolved
  after `disconnect()`, the socket connects while the machine waits
  (`statemachine.cpp:67`, which says "cancel all operations"). It is the first
  half of `client_stale_connection`.
* The destructor of the client may wake up without a notification, or find the
  count at zero while the I/O thread is still inside `run()`; both lead to the
  destruction of an io_service in use. The states are in the model.
* A `ConnectedClient` signals Disconnected once per failing operation, so
  possibly several times, and may still deliver messages after the first one.
* A packet sent right before `shutdown()` may fail in the reactor's queue, though
  `connected-client.hpp:134` tells the owner to send goodbye packets just then.
* A packet shorter than its header ends the program that runs a
  `ConnectedClient`, as it ends the server: only `MsgLayerError` is caught.
* The machine of a client that made a second request can be connected and deaf:
  the event that reports the connection of the first attempt is accepted by the
  second one, after the header receive it started was aborted
  (`statemachine.cpp:297`). It is another outcome of `client_stale_connection`.
* A message of more than 65531 bytes is announced with its size modulo 65536
  (`HeaderUnderstood`); nothing refuses to send it.
* The copy assignment of `SerializedData` allocates as many bytes as the assigned
  object had and copies as many as the other one has, so that a longer content is
  written past the new buffer (`msglayer.cpp:53`); the copy constructor does the
  same with a size that was never initialized. No component copies one.
* `connectTo` reports `CNST_DISCONNECTED` for a string it cannot parse also
  while the machine is connected and stays so (`clientnode.cpp:80`). The model
  has the action (`ConnectToUnparsable`).
* No `SendReport` is ever given the `message_id` it is about
  (`statemachine.cpp:455`).
* The write handler of a message that is being written at `disconnect()` is left
  in an io_service that no thread may run any more, so that its report may never
  come (`statemachine.cpp:366`).

## Proofs

No theorem rests on fairness. The assumptions are those on the constants that
the modules state (`BoundsAssumption`, `ChunksAssumption`, `ClientBounds`,
`MessagesAssumption`, `BadFramesAssumption`, `CountsAssumption`); where a
theorem needs more, it is a hypothesis of the theorem and named below.

### The server

`DispatcherProofs` proves for every number of connections, messages and chunks,
every set of headers, with and without partial writes:

| Theorem | Statement |
|---|---|
| `InvAlways` | `Spec => []DispatcherInv`, the inductive invariant |
| `TypeCorrect` | `Spec => []TypeOK` |
| `CountsCorrect` | `Spec => []HandlersCounted`: the reference count is the number of outstanding handlers |
| `SafeDeletion` | `Spec => []NoUseAfterDelete` |
| `NothingForgotten` | `Spec => []NoPeerForgotten` |
| `DeafClosed` | `Spec => []DeafPeerIsClosed` |
| `ShutForGood` | `Spec => ClosedForGood`: a closed socket stays closed and its stream unchanged |
| `NoBodyLost` | `Spec => []BodiesAccounted`: a body that was read is distributed once, waits, or died with its peer |
| `ClosedPeersDrain` | `Spec => PeerDrains`: a handler of a closed peer brings it closer to its end, only a message takes it away, by one write |

`BroadcastProofs` proves in addition:

| Theorem | Statement |
|---|---|
| `StreamsAreRuns` | `Spec => []BroadcastInv`, the inductive invariant, if `~PartialWrites` |
| `BroadcastImplemented` | `Spec => ImplementsBroadcast`, if `~PartialWrites` |
| `FramesStayWhole` | `Spec /\ []OneWrite => []FramesContiguous`, with partial writes |

The hypotheses are necessary: the run `server_interleaved_frames` violates
`FramesContiguous` with two writes to one peer in progress. `FramesStayWhole`
says that this is what mixes frames: pieces do no harm while at most one write
to each peer is in progress (`OneWrite`), which is what a queue of messages in
`RemotePeer` would ensure and `sendMessage` does not. Its invariant, `PiecesInv`,
is that a stream ends with a whole frame, or with the part of a frame whose rest
is the one pending write. A part whose write failed stays the end of the stream:
a write fails only when the socket is shut or the connection reset, and nothing
is taken on it any more.

The argument for the counts is the inductive invariant `DispatcherInv`:

* `HandlersCounted` alone is not inductive: a step that releases a reference
  needs to know that the peer is listed (otherwise the first error would not
  shut it down), and a shutdown must turn exactly the pending writes into
  failed ones.
* `ListedIffReferenced`: the map lists exactly the peers with a reference. With
  the exact counts it yields `NoUseAfterDelete` and `NoPeerForgotten`.
* `FreshUnused`: an id not yet handed out has no operation, so that the count of
  1 in `AcceptHandler` is right.
* `ClosedIdle`: a closed socket has nothing pending, and a peer that reported an
  error, or does not receive, is closed. This makes the second report of an
  error harmless: the writes it would not abort do not exist.

There is one lemma per action. `Recount` does the arithmetic once: an action
states by how much it changes the count and each kind of operation, and the
lemma concludes that the count is exact again. `PostErrorStep`, `ReleaseStep` and
`DistributeStep` say what the pieces shared by several handlers do. Bodies are
counted by a cardinality; the set of waiting bodies grows or shrinks by one
element in two actions, and is untouched by the others (`BodiesUntouched`).

The broadcast needs `BroadcastInv`: the stream to a client is whole frames, which
are the run of messages from the first after it joined (`StreamIsRun`); its write
queue is the rest of the run up to the last message distributed, as long as no
write met a reset (`QueueIsRest`); an id not handed out has no stream
(`FreshSilent`). `StreamIsRun` alone is not inductive, since what a write appends
comes from the queue. Of the server's actions only `WriteSome`,
`AcceptHandler` and the distribution touch these; the others are `Quiet`. That a
step maps to one step of `Broadcast` needs besides that a step closes no socket,
one, or all (`Shuts`): that is how clients leave.

### The client library

`ClientNodeProofs` proves for any number of requests, messages and endpoint
records, with or without destruction:

| Theorem | Statement |
|---|---|
| `InvAlways` | `Spec => []ClientInv`, the inductive invariant |
| `TypeCorrect` | `Spec => []TypeOK` |
| `ReportedOnce` | `Spec => []SendReportedOnce` |
| `NoMessageLost` | `Spec => []MessagesAccounted`: an unreported message is being written or its handler is queued |
| `ReportsCurrent` | `Spec => []ReportIsCurrent`, if every destination parses |
| `FirstConnection` | `Spec => []FirstConnectionInv` |
| `ConnectionIsRead` | `Spec => [](chain <= 1 => ConnectedListens)` |

`ClientInv` relates three things to the machine: where the user's thread is
(`CallsInOrder`), the events handlers carry (`HandlersInOrder`), and the last
report (`ReportInStep`). For the messages it says that each has one fate
(`OneFate`): one write in progress, or one handler, or one report. At most one
report is not inductive without the rest, since every handler of a write adds
one. The lemmas of the first half of the module are about any operations, queue
and reports (`Books`), one per thing a step can do to them: start an operation,
abort those of the socket, complete one, take a handler, discard the state. An
action that does several takes several lemmas. This is where the abort as a
condition on sequences matters: whatever the order, each operation occurs in it
once, which is all the books need.

`ReportsCurrent` has the hypothesis `~BadDestinations`, without which it is
false: `connectTo` reports a string that does not parse as a disconnection
whatever the machine does (`clientnode.cpp:80`).

`FirstConnectionInv` is inductive together with `ClientInv`: while the attempt is
in progress it is all there is (`AttemptAlone`), the I/O thread finds it waiting
(`NothingBefore`), and a connection that is there or about to be reported has a
receive in progress, or its handler is about to start the next one or to leave
StateConnected (`ReadsContinue`). All three speak of one thread and one chain of
handlers, which is why they end with a second request. `ConnectedListens` ends
there as well: with two requests TLC finds a machine that is connected and deaf
(see the findings), so the theorem says how far it goes.

### Message layers

`LayersProofs` proves about the operators, for every length and any two byte
orders:

| Theorem | Statement |
|---|---|
| `WireOrder` | a word lies on the wire least significant byte first and is read back unchanged |
| `HeaderUnderstood` | a header is valid for every receiver and announces the size modulo 65536 |
| `NearUnderstood` | a `NearUserMessage` is decoded to what was serialized |

The step everything rests on is `ReversebytesReverses`: the shifts and masks of
the specialisations reverse the bytes. `Pieces` says what the parts of a
concatenation are; the layers are taken apart with it field by field.

### ConnectedClient

`ConnectedClientProofs` proves for all messages, other packets, bounds and byte
orders:

| Theorem | Statement |
|---|---|
| `ClientTypeCorrect` | `Spec => []TypeOK` |
| `DeafKnown` | `Spec => []DeafIsKnown` |
| `NoPacketDropped` | `Spec => []PacketsAccounted` |
| `SilentAfterRelease` | no callback after the owner has let go |

The inductive invariant, `ClientInv`, adds to these `Whole`: a receive of a
header is for the whole header. Without it the size taken from the header need
not be a number, and the types of the next receive would not follow. The
theorems of `LayersProofs` give the types of what the remote host sends
(`PacketBytes`) and of the size a header announces (`AnnouncedSize`).

`ConnectionProofs` proves with the hypotheses `MessagesFit` and
`OthersAreRefused`:

| Theorem | Statement |
|---|---|
| `ReceiveInStep` | `Spec => []HearingInv`, the inductive invariant |
| `ConnectionImplemented` | `Spec => ImplementsConnection` |
| `HeardToTheEnd` | `Spec => []HeardOut` |

The receiver knows nothing of packets but what it decodes, so the invariant has
to say where it is in the stream. `StreamInStep` does it with a function `rest`
that gives, for each packet said, the bytes from there on, and with the bytes
`lost` when the remote host died within a packet: stream and `lost` together are
the rest of the packet the receive is at. It is at one of four places: before a
header, behind one it has, before a body, behind one. `HeardRight` says that what
was received means what was said. One lemma per place shows that a completion or
a handler moves it to the next (`AcceptsHeader`, `Delivers`), `NearUnderstood` and
`HeaderUnderstood` that the bytes of a message are such a packet whatever the byte
orders (`Says`); all other steps hear nothing (`HearsNothing`).

`HeardToTheEnd` needs besides that no write can fail where none was started
(`NothingToFail`), and that an undisturbed connection meets an error only at its
end, when everything was heard (`EndsHeard`).

`HearingInv` is no invariant of a run: it quantifies over all sequences of
bytes. Its consequences are (`HeardOut`, `ImplementsConnection`).

### Only model-checked

* Liveness: `BrokenPeerErased`, `AttemptEnds`, `LossIsReported`. Their proofs
  would need to reason from fairness, about what is enabled, which is out of the
  prover's reach. The safety they rest on is proved: `NoPeerForgotten` (there is
  a handler left) and `PeerDrains` (each brings the end closer) for the first,
  `FirstConnectionInv` for the second, `DeafIsKnown` for the third.
* The violated properties, which are no theorems.

## Not modelled

* What strings, messages and log lines contain, except their bytes in `Layers`.
  In `Dispatcher` headers are classes.
* Allocation failures, and failures of `async_*` calls to start.
* The steps inside `decreaseRefCount`: the action at zero destroys the object
  whose member function is running.
* An int `current_conn_id` that overflows: `Conns` is a bound of the model.
* Slots of the signals: they are called in the order of the reports and are
  assumed to return and not to call back into the node. Connecting them is left
  out.
* The memory behind a `SerializedData`, and its copy operations, which nothing
  calls (see the observations).
* What moving a layer leaves behind in the moved-from object.
* The graphical client: it forwards each command to a call of `ClientNode` and
  posts each report as a text to wxWidgets' event loop. It keeps no state beyond
  widgets, so there is nothing its steps could get wrong together.
* Logging, and the asio compilation unit.
* A composition of clients and server in one state space: the parts meet in the
  stream of frames only, and each side is modelled with every behaviour of the
  other (`BadFrames`, `LinkBreaks`, external completions), which is more than
  the other side does.

## Plan

Done: all modules listed above with their runs; every invariant, action property
and refinement that a passing run checks is a theorem, for `ConnectedListens`
and `ReportIsCurrent` within the limits given above.

Next, in this order:

1. `ClientNode`: that the client's messages are written in the order of the
   calls, and that the socket in use belongs to the last request as long as no
   request was given up, as invariants and theorems.
2. `ClientNode`, destruction: that no member is destroyed while a handler holds
   a reference, up to the wake-up without notification.
3. The safety halves of `AttemptEnds` and `LossIsReported`: measures that every
   handler decreases, as `PeerDrains` is for the server.
