--------------------------------- MODULE Logger ---------------------------------
(***************************************************************************)
(* tsl/logger/logger.c: a logger is a work endpoint that takes messages    *)
(* from one work_queue (out_queue), hands them to the handler of their     *)
(* type and returns them to the thread they came from through another      *)
(* (in_queue).                                                             *)
(*                                                                         *)
(* Three activities: the thread that sets the logger up, the thread that   *)
(* sends messages and collects them again, and the work thread of          *)
(* tsl/offload that calls the endpoint's startup, poll and shutdown.  A    *)
(* step makes at most one access to what another activity writes.          *)
(*                                                                         *)
(* logger.c has no functions for sending and collecting; Send and Collect  *)
(* are external and do what logger.h says of struct logger_message: the    *)
(* message belongs to the logger until it is returned.  Messages are       *)
(* numbered in the order of sending.                                       *)
(*                                                                         *)
(* A poll that finds out_queue empty jumps over the initialization of lmsg *)
(* and reads it nevertheless (lines 259 to 281): it sees NULL, or what the *)
(* last poll left in the same place of the stack, and then returns that    *)
(* message once more.  Such a second copy of message m is written -m.      *)
(***************************************************************************)
EXTENDS WorkQueue

CONSTANTS
    queue_depth,    \* size of both queues, given to logger_initialize
    Types,          \* message types somebody registers a handler for
    MessageType,    \* the type of each message
    Limits,         \* how many messages a sender may have out at a time
    MaxSent,        \* bound: messages sent
    MaxStrays       \* bound: polls that read what an earlier one left in lmsg

\* Type 0 is refused by logger_add_message_handler.
ASSUME DepthAssumption == queue_depth \in Sizes
ASSUME TypesAssumption == Types \subseteq Nat \ {0}
ASSUME LimitsAssumption == Limits \subseteq Nat
ASSUME MessageAssumption == MaxSent \in Nat /\ MessageType \in [1 .. MaxSent -> Nat]
ASSUME StraysAssumption == MaxStrays \in Nat

VARIABLES
    state,       \* ep->state
    handlers,    \* types in the tree message_handlers
    setup,       \* where the setting-up thread is in logger_start
    endpoint,    \* the endpoint in the work thread: absent, queued, listed, gone
    poll,        \* where the work thread is in the poll function
    lmsg,        \* what is in the place of its local lmsg
    out_queue,
    in_queue,
    limit,       \* messages this sender has out at a time
    sent,        \* messages sent so far
    collected,   \* messages the sender has back, in order
    dispatched,  \* messages given to a handler, in order
    lost,        \* messages in no queue and in nobody's hands
    strays       \* polls that read what an earlier one left in lmsg

clientVars == <<limit, sent, collected>>
workVars   == <<endpoint, poll, lmsg, dispatched, lost, strays>>
vars       == <<state, handlers, setup, workVars, out_queue, in_queue, clientVars>>

-------------------------------------------------------------------------------
(* Setting up.                                                             *)

\* A type that has a handler is answered with A_E_BUSY.
logger_add_message_handler(type) ==
    /\ setup = "none"
    /\ state = "INACTIVE"
    /\ type \notin handlers
    /\ handlers' = handlers \cup {type}
    /\ UNCHANGED <<state, setup, workVars, out_queue, in_queue, clientVars>>

\* logger_start stores STARTING ...
StartStore ==
    /\ state = "INACTIVE"
    /\ setup = "none"
    /\ state' = "STARTING"
    /\ setup' = "adding"
    /\ UNCHANGED <<handlers, workVars, out_queue, in_queue, clientVars>>

\* Mutant: the test for a failure at the end of logger_start is left out.
AddsAndTerminates ==
    /\ setup = "adding"
    /\ setup' = "done"
    /\ endpoint' = "queued"
    /\ state' = "TERMINATED"
    /\ UNCHANGED <<handlers, poll, lmsg, dispatched, lost, strays, out_queue, in_queue, clientVars>>

\* ... and calls work_pool_add_endpoint, which puts the endpoint into the queue
\* of its work thread ...
StartAdds ==
    /\ setup = "adding"
    /\ setup' = "done"
    /\ endpoint' = "queued"
    /\ UNCHANGED <<state, handlers, poll, lmsg, dispatched, lost, strays, out_queue, in_queue,
                   clientVars>>

\* ... or fails.
StartFails ==
    /\ setup = "adding"
    /\ setup' = "done"
    /\ state' = "TERMINATED"
    /\ UNCHANGED <<handlers, workVars, out_queue, in_queue, clientVars>>

-------------------------------------------------------------------------------
(* The sender.                                                             *)

\* A_E_BUSY leaves the message with the sender, which tries again.
Send ==
    LET result == work_queue_push(out_queue, queue_depth, sent + 1)
    IN  /\ sent < MaxSent
        /\ sent - Len(collected) < limit
        /\ out_queue' = result.ring
        /\ sent' = IF result.ret = "A_OK" THEN sent + 1 ELSE sent
        /\ UNCHANGED <<state, handlers, setup, workVars, in_queue, limit, collected>>

Collect ==
    LET result == work_queue_pop(in_queue)
    IN  /\ in_queue' = result.ring
        /\ collected' = IF result.ptr # NULL THEN Append(collected, result.ptr)
                        ELSE collected
        /\ UNCHANGED <<state, handlers, setup, workVars, out_queue, limit, sent>>

-------------------------------------------------------------------------------
(* The work thread (tsl/offload/thread.c): it takes the endpoint from its  *)
(* queue, polls it again and again, and shuts it down between two polls.   *)

logger_endpoint_startup ==
    /\ endpoint = "queued"
    /\ endpoint' = "listed"
    /\ state' = "RUNNING"
    /\ UNCHANGED <<handlers, setup, poll, lmsg, dispatched, lost, strays, out_queue, in_queue,
                   clientVars>>

\* The work thread ends, or drops the endpoint with which its budget is used up,
\* before startup: nobody calls the endpoint again.
NeverStarted ==
    /\ endpoint = "queued"
    /\ endpoint' = "gone"
    /\ UNCHANGED <<state, handlers, setup, poll, lmsg, dispatched, lost, strays, out_queue,
                   in_queue, clientVars>>

\* Mutant: off by one, a single message is left waiting.
PollFillTwo ==
    /\ endpoint = "listed"
    /\ poll = "idle"
    /\ work_queue_fill(out_queue) > 1
    /\ poll' = "pop"
    /\ UNCHANGED <<state, handlers, setup, endpoint, lmsg, dispatched, lost, strays, out_queue,
                   in_queue, clientVars>>

\* logger_endpoint_poll_func begins.
PollFill ==
    /\ endpoint = "listed"
    /\ poll = "idle"
    /\ work_queue_fill(out_queue) # 0
    /\ poll' = "pop"
    /\ UNCHANGED <<state, handlers, setup, endpoint, lmsg, dispatched, lost, strays, out_queue,
                   in_queue, clientVars>>

\* With an empty queue it is over, unless lmsg still holds a message.
PollEmpty ==
    /\ endpoint = "listed"
    /\ poll = "idle"
    /\ work_queue_fill(out_queue) = 0
    /\ lmsg # NULL
    /\ strays < MaxStrays
    /\ strays' = strays + 1
    /\ poll' = "stray"
    /\ UNCHANGED <<state, handlers, setup, endpoint, lmsg, dispatched, lost, out_queue,
                   in_queue, clientVars>>

PollPop ==
    LET result == work_queue_pop(out_queue)
    IN  /\ poll = "pop"
        /\ poll' = "dispatch"
        /\ lmsg' = result.ptr
        /\ out_queue' = result.ring
        /\ UNCHANGED <<state, handlers, setup, endpoint, dispatched, lost, strays, in_queue,
                       clientVars>>

\* The type of the message is looked up in the tree.
__logger_get_handler(message) == MessageType[message] \in handlers

\* Mutant: a missing handler ends the poll before the message is returned.
DropsUnhandled ==
    /\ poll = "dispatch"
    /\ IF __logger_get_handler(lmsg)
       THEN /\ dispatched' = Append(dispatched, lmsg)
            /\ poll' = "return"
       ELSE /\ poll' = "idle"
            /\ UNCHANGED dispatched
    /\ UNCHANGED <<state, handlers, setup, endpoint, lmsg, lost, strays, out_queue,
                   in_queue, clientVars>>

\* Mutant: the test for a missing handler is left out.
DispatchUnchecked ==
    /\ poll = "dispatch"
    /\ poll' = "return"
    /\ dispatched' = Append(dispatched, lmsg)
    /\ UNCHANGED <<state, handlers, setup, endpoint, lmsg, lost, strays, out_queue, in_queue,
                   clientVars>>

\* The handler's result is not looked at.
PollDispatch ==
    /\ poll = "dispatch"
    /\ poll' = "return"
    /\ dispatched' = IF __logger_get_handler(lmsg) THEN Append(dispatched, lmsg)
                     ELSE dispatched
    /\ UNCHANGED <<state, handlers, setup, endpoint, lmsg, lost, strays, out_queue, in_queue,
                   clientVars>>

\* Handled or not, the message goes back.  When in_queue is full nobody keeps it
\* ("TODO: push the message into a waiting queue").
PollReturn ==
    LET copy   == IF poll = "stray" THEN -lmsg ELSE lmsg
        result == work_queue_push(in_queue, queue_depth, copy)
    IN  /\ poll \in {"return", "stray"}
        /\ poll' = "idle"
        /\ in_queue' = result.ring
        /\ lost' = IF result.ret = "A_OK" \/ poll = "stray" THEN lost ELSE lost \cup {lmsg}
        /\ UNCHANGED <<state, handlers, setup, endpoint, lmsg, dispatched, strays, out_queue,
                       clientVars>>

\* The poll function only fails for a queue that was never initialized, so it is
\* the end of the work thread that brings the shutdown.
logger_endpoint_shutdown ==
    /\ endpoint = "listed"
    /\ poll = "idle"
    /\ endpoint' = "gone"
    /\ state' = "TERMINATED"
    /\ UNCHANGED <<handlers, setup, poll, lmsg, dispatched, lost, strays, out_queue, in_queue,
                   clientVars>>

logger_endpoint_poll_func == PollFill \/ PollEmpty \/ PollPop \/ PollDispatch \/ PollReturn

-------------------------------------------------------------------------------
\* logger_initialize.
Init ==
    /\ state = "INACTIVE"
    /\ handlers = {}
    /\ setup = "none"
    /\ endpoint = "absent"
    /\ poll = "idle"
    /\ lmsg = NULL
    /\ out_queue = work_queue_new
    /\ in_queue = work_queue_new
    /\ limit \in Limits
    /\ sent = 0
    /\ collected = <<>>
    /\ dispatched = <<>>
    /\ lost = {}
    /\ strays = 0

Next ==
    \/ \E type \in Types : logger_add_message_handler(type)
    \/ StartStore \/ StartAdds \/ StartFails
    \/ Send \/ Collect
    \/ logger_endpoint_startup \/ NeverStarted
    \/ logger_endpoint_poll_func
    \/ logger_endpoint_shutdown

Spec == Init /\ [][Next]_vars

\* The work thread keeps polling and the sender keeps collecting; nobody has to
\* send, to start the logger or to shut it down.
FairSpec == Spec /\ WF_vars(logger_endpoint_poll_func) /\ WF_vars(Collect)

-------------------------------------------------------------------------------
(* Properties.                                                             *)

\* enum logger_state, in its order.
Rank == [INACTIVE |-> 0, STARTING |-> 1, RUNNING |-> 2, TERMINATED |-> 3]

\* A message is back with its sender.
Back(m) == \E i \in DOMAIN collected : collected[i] = m

\* Messages on their way, the one that went furthest first.
Hand     == IF poll \in {"dispatch", "return"} THEN <<lmsg>> ELSE <<>>
InFlight == collected \o in_queue \o Hand \o out_queue

\* The messages in s, second copies aside, and whether each of them is there once
\* and behind those that were sent before it.
Messages(s) == {s[i] : i \in {k \in DOMAIN s : s[k] > 0}}
InOrder(s)  == \A i, j \in DOMAIN s : i < j /\ s[i] > 0 /\ s[j] > 0 => s[i] < s[j]

\* Every message sent is in exactly one place and none overtakes another: what
\* the sender has back, what waits in either queue and what the poll function has
\* in hand are, second copies aside, all messages but the lost ones in this order,
\* whatever their types and whenever the work thread stops.  None is lost by a
\* sender that has no more messages out than one queue holds, as long as no poll
\* read an lmsg it had not set (logger.c:259, 281).
EveryMessageAccounted ==
    /\ InOrder(InFlight)
    /\ Messages(InFlight) = 1 .. sent \ lost
    /\ limit <= Capacity(queue_depth) /\ strays = 0 => lost = {}

\* Messages reach their handlers once each, in the order of sending, those
\* without a handler left out, and never once they are on their way back to the
\* sender, who may release them: logger_endpoint_poll_func pops, dispatches and
\* then returns.
HandledOnceInOrder ==
    LET done == sent - Len(out_queue) - (IF poll = "dispatch" THEN 1 ELSE 0)
    IN  /\ InOrder(dispatched)
        /\ \A i \in DOMAIN dispatched : dispatched[i] > 0
        /\ Messages(dispatched) = {m \in 1 .. done : __logger_get_handler(m)}

\* The life of a logger has one direction whichever of the two threads that
\* write `state` is ahead, handlers are only added before it begins, and a handler
\* is only called in a logger that is RUNNING.
StateAdvances ==
    [][ /\ Rank[state'] >= Rank[state]
        /\ handlers' # handlers => state = "INACTIVE"
        /\ dispatched' # dispatched => state = "RUNNING" ]_vars

\* A message sent to a running logger comes back to its sender, unless in_queue was
\* full when it was returned or the work thread is shut down first.
MessagesComeBack ==
    \A m \in 1 .. MaxSent :
        (sent >= m /\ state = "RUNNING")
            ~> (Back(m) \/ m \in lost \/ state = "TERMINATED")

\* logger.c:284, "message delayed in returning": a message that cannot be
\* returned at once is returned later.
OnlyDelayed == lost = {}

\* logger.h:12, a message is released "when the logger message is returned to the
\* initiating thread": it is returned once.
ReturnedOnce == \A i \in DOMAIN collected : collected[i] > 0
===============================================================================
