------------------------------ MODULE ClientNode ------------------------------
(***************************************************************************)
(* The client library: ClientNode, the statechart ClientnodeMachine with   *)
(* StateWaiting, StateNegotiating and StateConnected, its io_service, its  *)
(* socket, and the threads that run them.                                  *)
(*                                                                         *)
(* The user's thread calls connectTo, sendUserMessage and disconnect; each *)
(* ends in process_event.  An I/O thread is started for every connection   *)
(* attempt and runs io_service.run(); its handlers lock machine_mutex and  *)
(* call process_event, too.  The user's calls create the lock as a         *)
(* temporary, so they do not hold it: when both threads are inside         *)
(* process_event the behaviour is undefined, and the model goes to a state *)
(* of its own about which nothing is claimed.                              *)
(*                                                                         *)
(* A connection attempt has a number, its chain; the operations and        *)
(* handlers that descend from it carry the number.                         *)
(***************************************************************************)
EXTENDS Integers, Sequences, FiniteSets, SequencesExt

CONSTANTS
    MaxRequests,    \* bound: accepted connection requests in one behaviour
    MaxMessages,    \* bound: sendUserMessage calls in one behaviour
    MaxRecords,     \* endpoint records a name can resolve to
    BadDestinations,\* does the user also pass strings that do not parse?
    Destroys        \* does the user destroy the ClientNode?

ASSUME ClientBounds ==
    /\ MaxRequests \in Nat \ {0}
    /\ MaxMessages \in Nat
    /\ MaxRecords \in Nat \ {0}
    /\ BadDestinations \in BOOLEAN
    /\ Destroys \in BOOLEAN

Chains == 1..MaxRequests   \* also the I/O threads: one per attempt
Messages == 1..MaxMessages

VARIABLES
    machine,     \* active state of the statechart
    chain,       \* number of the last connection attempt
    caller,      \* what the user's thread is doing
    io_thread,   \* the I/O thread that can be joined, 0: not-a-thread
    thread,      \* per I/O thread: where it is, see ThreadStates
    event,       \* per I/O thread: the event its handler processes
    stopped,     \* the io_service's stopped flag
    ops,         \* asynchronous operations in progress
    queue,       \* completed operations whose handler has not run
    socket,      \* state of the socket and the chain that connected it
    reported,    \* newstate of the last ConnectionStatusReport
    last_msg_id, \* identifier of the last message
    sendReports  \* per message: number of SendReports about it (history)

threadVars == <<io_thread, thread, event>>
ioVars == <<stopped, ops, queue, socket>>
reportVars == <<reported, sendReports>>
vars == <<machine, chain, caller, threadVars, ioVars, reportVars,
          last_msg_id>>

ThreadStates == {"none", "start", "loop", "react", "rearm", "return",
                 "finished", "undefined"}
\* Where the destructors are: ~ClientNode, ~ClientnodeMachine, the members.
Destruction == {"terminate", "stop", "catch", "count", "lock", "wait",
                "leave", "gone"}
Events == {"none", "connected", "connect_failed", "disconnected", "message",
           "empty"}
Results == {"ok", "error", "aborted"}

\* arg: records left, the one being tried included, or the message number; of
\* a body, 0 when it has no bytes.
Operation ==
    [kind : {"header", "body"}, chain : Chains, arg : {0, 1}]
        \union [kind : {"resolve"}, chain : Chains, arg : 0..MaxRecords]
        \union [kind : {"connect"}, chain : Chains, arg : 1..MaxRecords]
        \union [kind : {"write"}, chain : Chains, arg : Messages]
Completion == [op : Operation, result : Results]

TypeOK ==
    /\ machine \in {"Waiting", "Negotiating", "Connected", "Terminated",
                   "Undefined"}
    /\ chain \in 0..MaxRequests
    /\ caller \in {"idle", "connect", "join", "spawn", "send", "disconnect",
                  "undefined"} \union Destruction
    /\ io_thread \in 0..MaxRequests
    /\ thread \in [Chains -> ThreadStates]
    /\ event \in [Chains -> [kind : Events, chain : 0..MaxRequests]]
    /\ stopped \in BOOLEAN
    /\ ops \subseteq Operation
    /\ queue \in Seq(Completion)
    /\ socket \in [state : {"closed", "open", "connecting", "connected"},
                   chain : 0..MaxRequests]
    /\ reported \in {"DISCONNECTED", "CONNECTING", "CONNECTED"}
    /\ last_msg_id \in 0..MaxMessages
    /\ sendReports \in [Messages -> Nat]

-----------------------------------------------------------------------------
noEvent == [kind |-> "none", chain |-> 0]
closedSocket == [state |-> "closed", chain |-> 0]

(* The constructor initiates the machine in StateWaiting, whose            *)
(* constructor stops and resets the io_service.                            *)
Init ==
    /\ machine = "Waiting"
    /\ chain = 0
    /\ caller = "idle"
    /\ io_thread = 0
    /\ thread = [t \in Chains |-> "none"]
    /\ event = [t \in Chains |-> noEvent]
    /\ stopped = FALSE
    /\ ops = {}
    /\ queue = <<>>
    /\ socket = closedSocket
    /\ reported = "DISCONNECTED"
    /\ last_msg_id = 0
    /\ sendReports = [m \in Messages |-> 0]

-----------------------------------------------------------------------------
(* The io_service and the socket (external) *)

Op(k, c, n) == [kind |-> k, chain |-> c, arg |-> n]
Done(op, r) == [op |-> op, result |-> r]

\* Handlers that keep run() busy: pending, queued, or being executed.
Work == Cardinality(ops) + Len(queue)
            + Cardinality({t \in Chains : thread[t] \in
                               {"react", "rearm", "return"}})

OnSocket(S) == {op \in S : op.kind # "resolve"}

\* Cancelled operations complete reads first, then connect, then the writes;
\* reads and writes of several pieces change places among themselves.
Rank(op) == CASE op.kind \in {"header", "body"} -> 1
              [] op.kind = "connect"            -> 2
              [] OTHER                          -> 3

CompletionOrders(S) ==
    {order \in SetToSeqs(S) :
        \A i, j \in DOMAIN order : i < j => Rank(order[i]) <= Rank(order[j])}

\* close() on the socket: the handlers of its operations follow q.
Abort(q) ==
    \E order \in CompletionOrders(OnSocket(ops)) :
        queue' = q \o [i \in DOMAIN order |-> Done(order[i], "aborted")]

\* A read or a write started now, q being the queue so far; it waits on a
\* socket that is connecting, and on one that is closed or not connected it
\* fails at once and its handler is queued.
StartTransfer(q, op) ==
    IF socket.state \in {"connecting", "connected"}
      THEN ops' = ops \union {op} /\ queue' = q
      ELSE queue' = Append(q, Done(op, "error")) /\ UNCHANGED ops

\* async_connect opens a closed socket; one that is connecting or connected
\* already refuses.
StartConnect(q, c, n) ==
    IF socket.state \in {"closed", "open"}
      THEN /\ ops' = ops \union {Op("connect", c, n)}
           /\ socket' = [state |-> "connecting", chain |-> c]
           /\ queue' = q
      ELSE /\ queue' = Append(q, Done(Op("connect", c, n), "error"))
           /\ UNCHANGED <<ops, socket>>

\* socket.close() followed by async_connect.
ReopenConnect(q, c, n) ==
    /\ Abort(q)
    /\ ops' = (ops \ OnSocket(ops)) \union {Op("connect", c, n)}
    /\ socket' = [state |-> "connecting", chain |-> c]

InLoop == {t \in Chains : thread[t] = "loop"}

(* stopIOOperations: close the socket, which aborts its operations, stop   *)
(* the io_service and reset it at once.  A thread waiting in run() may or  *)
(* may not see the flag in between: the threads in gone do and return.     *)
(* The others stay where they are, in now.                                 *)
stopIOOperations(now) ==
    /\ Abort(queue)
    /\ ops' = ops \ OnSocket(ops)
    /\ socket' = closedSocket
    /\ stopped' = FALSE
    /\ \E gone \in SUBSET InLoop :
         thread' = [t \in Chains |-> IF t \in gone THEN "finished" ELSE now[t]]

\* The reactor's operations complete only while a thread runs the service;
\* names are resolved by a thread of the resolver itself.
ReactorRuns == InLoop # {} /\ ~stopped

ResolveCompletes ==
    \E op \in ops : \E n \in 0..MaxRecords :
        /\ op.kind = "resolve"
        /\ ops' = ops \ {op}
        /\ queue' = Append(queue,
               IF n = 0 THEN Done(op, "error")
                        ELSE Done([op EXCEPT !.arg = n], "ok"))
        /\ UNCHANGED <<machine, chain, caller, threadVars, stopped, socket,
                       reportVars, last_msg_id>>

ConnectCompletes ==
    /\ ReactorRuns
    /\ \E op \in ops : \E r \in {"ok", "error"} :
        /\ op.kind = "connect"
        /\ ops' = ops \ {op}
        /\ queue' = Append(queue, Done(op, r))
        /\ socket' = [socket EXCEPT
               !.state = IF r = "ok" THEN "connected" ELSE "open"]
    /\ UNCHANGED <<machine, chain, caller, threadVars, stopped, reportVars,
                   last_msg_id>>

\* Writes of several pieces may end in another order than they were started.
TransferCompletes ==
    /\ ReactorRuns
    /\ socket.state # "connecting"
    /\ \E op \in ops : \E r \in {"ok", "error"} :
        /\ op.kind \in {"header", "body", "write"}
        /\ r = "ok" => socket.state = "connected"
        /\ ops' = ops \ {op}
        /\ queue' = Append(queue, Done(op, r))
    /\ UNCHANGED <<machine, chain, caller, threadVars, stopped, socket,
                   reportVars, last_msg_id>>

-----------------------------------------------------------------------------
(* Calls of the user's thread.  UserCalls is the way into process_event,   *)
(* the actions after it are the reactions of the state the machine is in.  *)

\* connectTo with a string that is not two tokens.
ConnectToUnparsable ==
    /\ BadDestinations
    /\ caller = "idle"
    /\ reported' = "DISCONNECTED"
    /\ UNCHANGED <<machine, chain, caller, threadVars, ioVars, sendReports, last_msg_id>>

UserCalls ==
    /\ caller = "idle"
    /\ \/ chain < MaxRequests /\ caller' = "connect" /\ UNCHANGED last_msg_id
       \/ caller' = "disconnect" /\ UNCHANGED last_msg_id
       \/ /\ last_msg_id < MaxMessages
          /\ caller' = "send"
          /\ last_msg_id' = last_msg_id + 1
    /\ UNCHANGED <<machine, chain, threadVars, ioVars, reportVars>>

\* Slip: one busy report for both states.
BusyConnecting == "CONNECTING"

\* newstate of the report that answers a request the machine cannot take.
BusyReport == IF machine = "Connected" THEN "CONNECTED" ELSE "CONNECTING"

\* EvtConnectRequest: StateWaiting starts to resolve the name and leaves for
\* StateNegotiating, the other states report that they are busy.
ConnectRequest ==
    /\ caller = "connect"
    /\ \/ /\ machine = "Waiting"
          /\ chain' = chain + 1
          /\ ops' = ops \union {Op("resolve", chain + 1, 0)}
          /\ caller' = "join"
          /\ UNCHANGED reported
       \/ /\ machine \in {"Negotiating", "Connected"}
          /\ reported' = BusyReport
          /\ caller' = "idle"
          /\ UNCHANGED <<chain, ops>>
    /\ UNCHANGED <<machine, threadVars, stopped, queue, socket, sendReports, last_msg_id>>

\* startIOOperations, catchThread: the old thread is joined; when it does
\* not end within the timeout it is detached.
CatchThread ==
    /\ caller = "join"
    /\ io_thread' = 0
    /\ caller' = "spawn"
    /\ UNCHANGED <<machine, chain, thread, event, ioVars, reportVars,
                   last_msg_id>>

\* The new I/O thread is created and StateNegotiating is entered.
StartThread ==
    /\ caller = "spawn"
    /\ io_thread' = chain
    /\ thread' = [thread EXCEPT ![chain] = "start"]
    /\ machine' = "Negotiating"
    /\ caller' = "idle"
    /\ UNCHANGED <<chain, event, ioVars, reportVars, last_msg_id>>

\* The thread cannot be created: StateNegotiating posts a failed
\* EvtConnectReport to itself and the machine returns to StateWaiting.
StartThreadFails ==
    /\ caller = "spawn"
    /\ machine' = "Waiting"
    /\ reported' = "DISCONNECTED"
    /\ caller' = "idle"
    /\ stopIOOperations(thread)
    /\ UNCHANGED <<chain, io_thread, event, sendReports,
                   last_msg_id>>

\* Slip: StateConnected reports the message as soon as its write starts.
SendMsgReportsEarly ==
    /\ caller = "send"
    /\ caller' = "idle"
    /\ sendReports' = [sendReports EXCEPT ![last_msg_id] = @ + 1]
    /\ IF machine = "Connected"
         THEN StartTransfer(queue, Op("write", chain, last_msg_id))
         ELSE UNCHANGED <<ops, queue>>
    /\ UNCHANGED <<machine, chain, threadVars, stopped, socket, reported,
                   last_msg_id>>

\* Slip: only StateConnected answers, the other states discard the message.
SendMsgConnectedOnly ==
    /\ caller = "send"
    /\ caller' = "idle"
    /\ IF machine = "Connected"
         THEN StartTransfer(queue, Op("write", chain, last_msg_id))
         ELSE UNCHANGED <<ops, queue>>
    /\ UNCHANGED <<machine, chain, threadVars, stopped, socket, reportVars,
                   last_msg_id>>

\* EvtSendMsg: StateConnected starts to write, the other states report
\* failure.
SendMsg ==
    /\ caller = "send"
    /\ caller' = "idle"
    /\ IF machine = "Connected"
         THEN /\ StartTransfer(queue, Op("write", chain, last_msg_id))
              /\ UNCHANGED sendReports
         ELSE /\ sendReports' = [sendReports EXCEPT ![last_msg_id] = @ + 1]
              /\ UNCHANGED <<ops, queue>>
    /\ UNCHANGED <<machine, chain, threadVars, stopped, socket, reported,
                   last_msg_id>>

\* EvtDisconnectRequest: StateWaiting has no reaction to it.
DisconnectRequest ==
    /\ caller = "disconnect"
    /\ caller' = "idle"
    /\ IF machine = "Waiting"
         THEN UNCHANGED <<machine, thread, ioVars, reported>>
         ELSE /\ machine' = "Waiting"
              /\ reported' = "DISCONNECTED"
              /\ stopIOOperations(thread)
    /\ UNCHANGED <<chain, io_thread, event, sendReports,
                   last_msg_id>>

-----------------------------------------------------------------------------
(* Destruction of the ClientNode by the user's thread *)

\* The user destroys the ClientNode.
DestroyNode ==
    /\ Destroys
    /\ caller = "idle"
    /\ caller' = "terminate"
    /\ UNCHANGED <<machine, chain, threadVars, ioVars, reportVars, last_msg_id>>

\* ~ClientNode terminates the machine; then signals and machine_mutex are
\* destroyed, which are declared after the machine.
Terminate ==
    /\ caller = "terminate"
    /\ machine' = "Terminated"
    /\ caller' = "stop"
    /\ UNCHANGED <<chain, threadVars, ioVars, reportVars, last_msg_id>>

\* The destructor of the machine is running, signals and mutex are gone.
SignalsGone == caller \in Destruction \ {"terminate", "gone"}

\* ~ClientnodeMachine stops the operations and catches the thread.
StopMachine ==
    /\ caller = "stop"
    /\ stopIOOperations(thread)
    /\ caller' = "catch"
    /\ UNCHANGED <<machine, chain, io_thread, event, reportVars, last_msg_id>>

CatchLastThread ==
    /\ caller = "catch"
    /\ io_thread' = 0
    /\ caller' = "count"
    /\ UNCHANGED <<machine, chain, thread, event, ioVars, reportVars,
                   last_msg_id>>

\* getRefCount() is read without the mutex: every handler holds a reference.
CountHandlers ==
    /\ caller = "count"
    /\ caller' = IF Work > 0 THEN "lock" ELSE "leave"
    /\ UNCHANGED <<machine, chain, threadVars, ioVars, reportVars, last_msg_id>>

\* Only now the mutex is locked and the condition waited for; a notification
\* in between is lost.
AwaitHandlers ==
    /\ caller = "lock"
    /\ caller' = "wait"
    /\ UNCHANGED <<machine, chain, threadVars, ioVars, reportVars, last_msg_id>>

\* A condition variable may wake up without a notification.
WakesSpuriously ==
    /\ caller = "wait"
    /\ caller' = "leave"
    /\ UNCHANGED <<machine, chain, threadVars, ioVars, reportVars, last_msg_id>>

\* What two threads in one machine, a use of a destroyed object, or a read of
\* the first byte of nothing come to.
BecomesUndefined ==
    /\ machine' = "Undefined"
    /\ caller' = "undefined"
    /\ thread' = [u \in Chains |-> "undefined"]
    /\ ops' = {}
    /\ UNCHANGED <<chain, io_thread, event, stopped, queue, socket, reportVars,
                   last_msg_id>>

\* The members of the machine are destroyed, the io_service among them.
Leave ==
    /\ caller = "leave"
    /\ IF Work = 0 /\ \A t \in Chains : thread[t] \in {"none", "finished"}
         THEN /\ caller' = "gone"
              /\ UNCHANGED <<machine, chain, threadVars, ioVars, reportVars,
                             last_msg_id>>
         ELSE BecomesUndefined

-----------------------------------------------------------------------------
(* I/O threads *)

\* io_service.run() begins: without work it stops the service and returns.
RunStarts(t) ==
    /\ thread[t] = "start"
    /\ IF Work = 0
         THEN stopped' = TRUE /\ thread' = [thread EXCEPT ![t] = "finished"]
         ELSE thread' = [thread EXCEPT ![t] = "loop"] /\ UNCHANGED stopped
    /\ UNCHANGED <<machine, chain, caller, io_thread, event, ops, queue,
                   socket, reportVars, last_msg_id>>

\* run() sees that the service is stopped.
RunReturns(t) ==
    /\ thread[t] = "loop"
    /\ stopped
    /\ thread' = [thread EXCEPT ![t] = "finished"]
    /\ UNCHANGED <<machine, chain, caller, io_thread, event, ioVars,
                   reportVars, last_msg_id>>

\* Thread t takes the first handler, of an operation of kind k.
Takes(t, k) ==
    /\ thread[t] = "loop"
    /\ ~stopped
    /\ queue # <<>>
    /\ Head(queue).op.kind = k
    /\ UNCHANGED <<machine, chain, caller, io_thread, stopped, reported,
                   last_msg_id>>

\* The handler will process event e next / has nothing more to do.
Raise(t, e, c) ==
    /\ thread' = [thread EXCEPT ![t] = "react"]
    /\ event' = [event EXCEPT ![t] = [kind |-> e, chain |-> c]]

NoMore(t) == thread' = [thread EXCEPT ![t] = "return"] /\ UNCHANGED event

\* resolveHandler: connect to the first record, or report the failure.
ResolveHandler(t) ==
    /\ Takes(t, "resolve")
    /\ LET h == Head(queue) IN
         IF h.result = "ok"
           THEN /\ StartConnect(Tail(queue), h.op.chain, h.op.arg)
                /\ NoMore(t)
           ELSE /\ queue' = Tail(queue)
                /\ Raise(t, "connect_failed", h.op.chain)
                /\ UNCHANGED <<ops, socket>>
    /\ UNCHANGED sendReports

\* Slip: the iterator is compared with the end before it is incremented.
MoreRecordsEarly(op) == op.arg >= 1

\* There is a record after the one that was tried.
MoreRecords(op) == op.arg > 1

\* connectHandler.  After an error, an aborted operation included, it tries
\* the next record if there is one; only the last record reports.
ConnectHandler(t) ==
    /\ Takes(t, "connect")
    /\ LET h == Head(queue)
           c == h.op.chain
       IN  \/ /\ h.result = "ok"
              /\ StartTransfer(Tail(queue), Op("header", c, 0))
              /\ Raise(t, "connected", c)
              /\ UNCHANGED socket
           \/ /\ h.result # "ok"
              /\ MoreRecords(h.op)
              /\ ReopenConnect(Tail(queue), c, h.op.arg - 1)
              /\ NoMore(t)
           \/ /\ h.result # "ok"
              /\ ~MoreRecords(h.op)
              /\ queue' = Tail(queue)
              /\ IF h.result = "aborted" THEN NoMore(t)
                                         ELSE Raise(t, "connect_failed", c)
              /\ UNCHANGED <<ops, socket>>
    /\ UNCHANGED sendReports

\* receiveSegmentationHeaderHandler: silent when aborted; otherwise a header
\* that is bad in any way ends the connection and a good one starts the body.
\* A body of no bytes is there at once, whatever the socket is.
HeaderHandler(t) ==
    /\ Takes(t, "header")
    /\ LET h == Head(queue)
           c == h.op.chain
       IN  \/ /\ h.result = "ok"
              /\ \/ StartTransfer(Tail(queue), Op("body", c, 1))
                 \/ /\ queue' = Append(Tail(queue),
                                       Done(Op("body", c, 0), "ok"))
                    /\ UNCHANGED ops
              /\ NoMore(t)
           \/ /\ h.result \in {"ok", "error"}
              /\ queue' = Tail(queue)
              /\ Raise(t, "disconnected", c)
              /\ UNCHANGED ops
           \/ /\ h.result = "aborted"
              /\ queue' = Tail(queue)
              /\ NoMore(t)
              /\ UNCHANGED ops
    /\ UNCHANGED <<socket, sendReports>>

\* receiveSegmentationBodyHandler: any error, an abort included, is an
\* EvtDisconnected, a body is an EvtRcvdMessage, of no bytes perhaps.
BodyHandler(t) ==
    /\ Takes(t, "body")
    /\ queue' = Tail(queue)
    /\ LET h == Head(queue) IN
         Raise(t, CASE h.result # "ok" -> "disconnected"
                    [] h.op.arg = 0    -> "empty"
                    [] OTHER           -> "message",
               h.op.chain)
    /\ UNCHANGED <<ops, socket, sendReports>>

\* writeHandler: a SendReport, and EvtDisconnected after any error.
WriteHandler(t) ==
    /\ ~SignalsGone
    /\ Takes(t, "write")
    /\ queue' = Tail(queue)
    /\ sendReports' = [sendReports EXCEPT ![Head(queue).op.arg] = @ + 1]
    /\ IF Head(queue).result = "ok"
         THEN NoMore(t)
         ELSE Raise(t, "disconnected", Head(queue).op.chain)
    /\ UNCHANGED <<ops, socket>>

-----------------------------------------------------------------------------
(* process_event in an I/O thread, with machine_mutex held *)

\* Slip: StateNegotiating has no reaction to a failed attempt.
ReactionToSuccessOnly(e) ==
    CASE machine = "Negotiating" /\ e = "connected"    -> "Connected"
      [] machine = "Connected"   /\ e = "disconnected" -> "Waiting"
      [] OTHER                                         -> machine

\* Slip: StateConnected has no reaction to the loss of its connection.
ReactionToAttemptsOnly(e) ==
    CASE machine = "Negotiating" /\ e = "connected"      -> "Connected"
      [] machine = "Negotiating" /\ e = "connect_failed" -> "Waiting"
      [] OTHER                                           -> machine

\* What the machine does with an event: StateWaiting is entered through
\* stopIOOperations, and an event without a reaction is discarded.
Reaction(e) ==
    CASE machine = "Negotiating" /\ e = "connected"      -> "Connected"
      [] machine = "Negotiating" /\ e = "connect_failed" -> "Waiting"
      [] machine = "Connected"   /\ e = "disconnected"   -> "Waiting"
      [] OTHER                                           -> machine

\* StateConnected reads the first byte of a message that has none.
ReadsNothing(t) == machine = "Connected" /\ event[t].kind = "empty"

React(t) ==
    /\ thread[t] = "react"
    /\ caller = "idle"
    /\ ~ReadsNothing(t)
    /\ machine' = Reaction(event[t].kind)
    /\ LET now == [thread EXCEPT ![t] =
                      IF event[t].kind \in {"message", "empty"} THEN "rearm"
                                                               ELSE "return"]
       IN  IF machine' = "Waiting" /\ machine # "Waiting"
             THEN reported' = "DISCONNECTED" /\ stopIOOperations(now)
             ELSE /\ reported' = IF machine' = machine THEN reported
                                                      ELSE "CONNECTED"
                  /\ thread' = now
                  /\ UNCHANGED ioVars
    /\ UNCHANGED <<chain, caller, io_thread, event, sendReports,
                   last_msg_id>>

\* The same while the user's thread is inside process_event, or has destroyed
\* machine_mutex.
Race(t) ==
    /\ thread[t] = "react"
    /\ caller # "idle"
    /\ BecomesUndefined

\* A message without a body is dispatched.
EmptyMessage(t) ==
    /\ thread[t] = "react"
    /\ caller = "idle"
    /\ ReadsNothing(t)
    /\ BecomesUndefined

\* A SendReport is emitted through signals that are destroyed.
ReportsTooLate(t) ==
    /\ SignalsGone
    /\ thread[t] = "loop"
    /\ ~stopped
    /\ queue # <<>>
    /\ Head(queue).op.kind = "write"
    /\ BecomesUndefined

\* Slip: the receive is not renewed after a message.
RearmNothing(t) ==
    /\ thread[t] = "rearm"
    /\ thread' = [thread EXCEPT ![t] = "return"]
    /\ UNCHANGED <<machine, chain, caller, io_thread, event, ioVars, reportVars,
                   last_msg_id>>

\* The end of receiveSegmentationBodyHandler, without the lock: receive the
\* next header from whatever the socket is now.
Rearm(t) ==
    /\ thread[t] = "rearm"
    /\ StartTransfer(queue, Op("header", event[t].chain, 0))
    /\ thread' = [thread EXCEPT ![t] = "return"]
    /\ UNCHANGED <<machine, chain, caller, io_thread, event, stopped, socket,
                   reportVars, last_msg_id>>

\* The handler is done.  With the last reference the destructor is notified;
\* when no work is left the service stops itself.
HandlerReturns(t) ==
    /\ thread[t] = "return"
    /\ caller' = IF caller = "wait" /\ Work = 1 THEN "leave" ELSE caller
    /\ stopped' = (stopped \/ Work = 1)
    /\ thread' = [thread EXCEPT ![t] = "loop"]
    /\ event' = [event EXCEPT ![t] = noEvent]
    /\ UNCHANGED <<machine, chain, io_thread, ops, queue,
                   socket, reportVars, last_msg_id>>
-----------------------------------------------------------------------------
User ==
    \/ ConnectToUnparsable \/ UserCalls
    \/ ConnectRequest \/ CatchThread \/ StartThread \/ StartThreadFails
    \/ SendMsg \/ DisconnectRequest

Destructors ==
    \/ Terminate \/ StopMachine \/ CatchLastThread \/ CountHandlers
    \/ AwaitHandlers \/ Leave \/ WakesSpuriously

IoThread(t) ==
    \/ RunStarts(t) \/ RunReturns(t)
    \/ ResolveHandler(t) \/ ConnectHandler(t)
    \/ HeaderHandler(t) \/ BodyHandler(t) \/ WriteHandler(t)
    \/ React(t) \/ EmptyMessage(t) \/ Race(t) \/ ReportsTooLate(t)
    \/ Rearm(t) \/ HandlerReturns(t)

Network == ResolveCompletes \/ ConnectCompletes \/ TransferCompletes

Over == (machine = "Undefined" \/ caller = "gone") /\ UNCHANGED vars

Next ==
    \/ User \/ DestroyNode \/ Destructors \/ Network \/ Over
    \/ \E t \in Chains : IoThread(t)

(* A call the user made goes on, a destructor too; threads are scheduled;  *)
(* name resolution and connection attempts end, be it by their timeouts.   *)
(* Nothing makes the user call, the server send, or a peer take what is    *)
(* written to it, nor a condition variable wake up without a notification. *)
Fairness ==
    /\ WF_vars(ConnectRequest \/ CatchThread \/ StartThread
               \/ StartThreadFails \/ SendMsg \/ DisconnectRequest)
    /\ WF_vars(Terminate \/ StopMachine \/ CatchLastThread \/ CountHandlers
               \/ AwaitHandlers \/ Leave)
    /\ \A t \in Chains : WF_vars(IoThread(t))
    /\ WF_vars(ResolveCompletes)
    /\ WF_vars(ConnectCompletes)

Spec == Init /\ [][Next]_vars /\ Fairness

-----------------------------------------------------------------------------
(* Properties *)

\* The user's thread is not in the middle of a call.
Settled == caller = "idle"

(* The state machine is never entered by two threads at once, the purpose  *)
(* of machine_mutex in connectTo, sendUserMessage and disconnect, nor by a *)
(* handler that finds the mutex, the signals or the io_service destroyed.  *)
(* (A message without a body leads to the same state by a longer way.)     *)
MachineExclusive == machine # "Undefined"

(* The newstate of the last ConnectionStatusReport is "connected" exactly  *)
(* while the machine is in StateConnected: newstate is documented as the   *)
(* current connection state.                                               *)
ReportIsCurrent ==
    Settled => (reported = "CONNECTED" <=> machine = "Connected")

(* A message gets at most one SendReport, whatever becomes of its write.   *)
SendReportedOnce == \A m \in Messages : sendReports[m] <= 1

\* Message m has been handed to the machine.
Sent(m) == m < last_msg_id \/ (m = last_msg_id /\ caller # "send")

IsWrite(op, m) == op.kind = "write" /\ op.arg = m
Writing(m) == {op \in ops : IsWrite(op, m)}
Written(m) == {i \in 1..Len(queue) : IsWrite(queue[i].op, m)}

(* Every message the machine took is being written, or its handler is      *)
(* queued, or it has been reported: aborting, failing and discarding never *)
(* lose the answer to sendUserMessage.                                     *)
MessagesAccounted ==
    machine # "Undefined" =>
        \A m \in Messages :
            Sent(m) => Writing(m) # {} \/ Written(m) # {} \/ sendReports[m] = 1

-----------------------------------------------------------------------------
(* The inductive invariant *)

\* Where the user's thread is agrees with what the machine is.
CallsInOrder ==
    /\ caller = "connect" => chain < MaxRequests
    /\ caller \in {"join", "spawn"} => machine = "Waiting" /\ chain > 0
    /\ caller = "send" => last_msg_id > 0
    /\ machine \in {"Negotiating", "Connected"} => chain > 0
    /\ machine = "Undefined" <=> caller = "undefined"
    /\ machine = "Terminated" <=> caller \in Destruction \ {"terminate"}

\* Events know the attempt they belong to, resolved names have records.
HandlersInOrder ==
    /\ IsFiniteSet(ops)
    /\ \A t \in Chains : thread[t] \in {"react", "rearm"} => event[t].chain > 0
    /\ \A i \in 1..Len(queue) :
         queue[i].op.kind = "resolve" /\ queue[i].result = "ok" =>
             queue[i].op.arg > 0

\* A message has one write operation, or one handler, or one report.
OneFate ==
    \A m \in Messages :
        /\ ~Sent(m) => Writing(m) = {} /\ Written(m) = {} /\ sendReports[m] = 0
        /\ Writing(m) # {} => Written(m) = {} /\ sendReports[m] = 0
        /\ Written(m) # {} => sendReports[m] = 0
        /\ \A a, b \in Writing(m) : a = b
        /\ \A i, j \in Written(m) : i = j

\* The last report agrees with the machine, also in the middle of a call.
ReportInStep ==
    ~BadDestinations /\ machine \notin {"Terminated", "Undefined"} =>
        (reported = "CONNECTED" <=> machine = "Connected")

(* What every step of the client maintains: calls, events and the machine  *)
(* agree, reports are in step with it, and messages have one fate each.    *)
ClientInv ==
    /\ TypeOK
    /\ CallsInOrder
    /\ HandlersInOrder
    /\ OneFate
    /\ SendReportedOnce
    /\ MessagesAccounted
    /\ ReportInStep

-----------------------------------------------------------------------------
(* The first connection *)

Attempts == {"resolve", "connect"}
Reads == {"header", "body"}

\* An operation of such a kind has not ended, or its handler has not run.
InProgress(kinds) ==
    \/ \E op \in ops : op.kind \in kinds
    \/ \E i \in 1..Len(queue) : queue[i].op.kind \in kinds

\* While connecting there is nothing else to do.
AttemptAlone ==
    InProgress(Attempts) =>
        /\ \A a, b \in ops : a = b
        /\ Len(queue) <= 1
        /\ ops # {} => queue = <<>>
        /\ machine # "Connected"
        /\ \A t \in Chains : thread[t] \notin {"react", "rearm"}

\* No handler runs before the attempt, which the thread then finds waiting.
NothingBefore ==
    /\ chain = 0 => ops = {} /\ queue = <<>>
    /\ caller \in {"join", "spawn"} => InProgress(Attempts)
    /\ \A t \in Chains :
         t > chain \/ caller \in {"join", "spawn"} =>
             thread[t] \in {"none", "undefined"}

\* The thread is about to go on receiving, or to leave StateConnected.
Answers(t) ==
    \/ thread[t] = "rearm"
    \/ /\ thread[t] = "react"
       /\ event[t].kind \in {"message", "empty", "disconnected"}

\* A connection that is there, or about to be reported, is read from.
ReadsContinue ==
    /\ machine \in {"Negotiating", "Connected"} =>
         \A i \in 1..Len(queue) :
             queue[i].op.kind \in Reads => queue[i].result # "aborted"
    /\ machine = "Negotiating" =>
         \A t \in Chains : thread[t] = "react" /\ event[t].kind = "connected" =>
             InProgress(Reads)
    /\ machine = "Connected" =>
         InProgress(Reads) \/ \E t \in Chains : Answers(t)

(* The first connection of a client takes its steps one after the other:   *)
(* the attempt, then the receives, each started by the handler before it.  *)
(* With a second request this is lost, its handlers meet those of the      *)
(* first.                                                                  *)
FirstConnectionInv ==
    chain <= 1 => NothingBefore /\ AttemptAlone /\ ReadsContinue

-----------------------------------------------------------------------------
(* Properties of the first connection, of liveness, and those that fail *)

(* The machine is in StateConnected only with the connection of the last   *)
(* request, never with that of an earlier, given up one.                   *)
ConnectedToLastRequest ==
    Settled /\ machine = "Connected" => socket.chain = chain

(* A connected machine listens: a receive is pending or its handler is     *)
(* queued or running, so that a lost connection will be noticed.           *)
ConnectedListens ==
    Settled /\ machine = "Connected" =>
        InProgress(Reads) \/ \E t \in Chains : Answers(t)

(* A connection attempt ends, in StateConnected or in StateWaiting.        *)
AttemptEnds == machine = "Negotiating" ~> machine # "Negotiating"

(* The destructor does not wait for ever for handlers to return, unless    *)
(* its race with them makes the behaviour undefined before.                *)
DestructorReturns == caller = "terminate" ~> caller \in {"gone", "undefined"}
=============================================================================
