-------------------------------- MODULE WorkPool --------------------------------
(***************************************************************************)
(* tsl/offload: a pool of work threads (pool.c, thread.c), each polling    *)
(* the work endpoints (endpoint.c) that its owner handed to it through a   *)
(* work_queue.                                                             *)
(*                                                                         *)
(* One controlling thread owns the pool and makes the work_pool_ calls.    *)
(* It runs against the work threads; what it shares with each of them is   *)
(* the endpoint queue, the word signal_death and struct thread's state.    *)
(* A step makes at most one access to something the other side writes;     *)
(* the callbacks of an endpoint are part of the step that makes them.      *)
(*                                                                         *)
(* The order in which a list of endpoints is polled and in which the       *)
(* pool's threads are visited is left open (lists are sets); the endpoint  *)
(* queue is a FIFO of WORK_THREAD_MAX_QUEUED_ENDPOINTS - 1 entries.        *)
(***************************************************************************)
EXTENDS Threading, Integers, Sequences

CONSTANTS
    Threads,       \* work threads that can be added to the pool
    Endpoints,     \* work endpoints that can be added to a thread
    MaxQueued,     \* WORK_THREAD_MAX_QUEUED_ENDPOINTS (32 in the code)
    StartResults,  \* what pthread_create can answer: subset of BOOLEAN
    MaskResults    \* what cpu_mask_apply can answer: subset of BOOLEAN

\* The queue's size is even: half of it is the budget of one round.
ASSUME QueueAssumption == MaxQueued \in Nat \ {0} /\ MaxQueued % 2 = 0
ASSUME ResultsAssumption == StartResults \subseteq BOOLEAN /\ MaskResults \subseteq BOOLEAN

VARIABLES
    thr,      \* [Threads -> Thread]: thread->thread
    wt,       \* the struct work_thread: none, live, freed
    death,    \* thread->signal_death: ALIVE, DEAD
    epq,      \* thread->ep_queue
    eps,      \* thread->work_endpoints
    wpc,      \* where the work thread is: off, loop, check, poll, stop
    budget,   \* i of __work_thread_check_new_endpoints
    todo,     \* endpoints the current list traversal has not reached
    ep,       \* what has become of each endpoint
    mpc,      \* what the controlling thread is in
    mtodo,    \* threads its traversal of the pool has not reached
    pool      \* pool->work_threads

workVars == <<epq, eps, wpc, budget, todo, ep>>
mainVars == <<mpc, mtodo, pool>>
vars     == <<thr, wt, death, workVars, mainVars>>

-------------------------------------------------------------------------------
(* The pieces of thread.c and endpoint.c the actions are made of.          *)

\* A new struct work_thread, with an empty queue and not told to die; its thread
\* is created and not started.
work_thread_new(t) == wt' = [wt EXCEPT ![t] = "live"]

work_thread_start(t) == thr' = [thr EXCEPT ![t] = Started(Created)]

work_thread_add_endpoint(t, e) == epq' = [epq EXCEPT ![t] = Append(@, e)]

\* The callbacks.  What startup returns is not looked at.
work_endpoint_startup(e)  == ep' = [ep EXCEPT ![e] = "started"]
work_endpoint_shutdown(e) == ep' = [ep EXCEPT ![e] = "stopped"]

-------------------------------------------------------------------------------
(* The controlling thread.                                                 *)

\* When pthread_create fails, work_thread_destroy joins a pthread_t that was
\* never set, which is undefined.
work_pool_add_thread(t) ==
    /\ mpc = "idle"
    /\ wt[t] = "none"
    /\ \E started \in StartResults :
          IF started
          THEN /\ work_thread_new(t)
               /\ work_thread_start(t)
               /\ pool' = pool \cup {t}
               /\ UNCHANGED mpc
          ELSE /\ mpc' = "undefined"
               /\ UNCHANGED <<thr, wt, pool>>
    /\ UNCHANGED <<death, workVars, mtodo>>

__work_pool_find_thread_by_id(t) == t \in pool

\* A_E_NOTFOUND and A_E_BUSY change nothing.
work_pool_add_endpoint(t, e) ==
    /\ mpc = "idle"
    /\ __work_pool_find_thread_by_id(t)
    /\ ep[e] = "new"
    /\ Len(epq[t]) < MaxQueued - 1
    /\ work_thread_add_endpoint(t, e)
    /\ ep' = [ep EXCEPT ![e] = "queued"]
    /\ UNCHANGED <<thr, wt, death, eps, wpc, budget, todo, mainVars>>

\* work_pool_shutdown visits every thread of the pool once.  Its documentation
\* wants it called before work_pool_destroy.
BeginShutdown ==
    /\ mpc = "idle"
    /\ pool # {}
    /\ mpc' = "shutdown"
    /\ mtodo' = pool
    /\ UNCHANGED <<thr, wt, death, workVars, pool>>

\* work_thread_shutdown: a thread that is not RUNNING is not signalled.
work_thread_shutdown(t) ==
    /\ mpc = "shutdown"
    /\ t \in mtodo
    /\ death' = [death EXCEPT ![t] = IF thread_running(thr[t]) THEN "DEAD" ELSE @]
    /\ mtodo' = mtodo \ {t}
    /\ UNCHANGED <<thr, wt, workVars, mpc, pool>>

\* work_pool_shutdown returns and the owner calls work_pool_destroy; there may be
\* any delay between the two.
BeginDestroy ==
    /\ mpc = "shutdown"
    /\ mtodo = {}
    /\ mpc' = "destroy"
    /\ mtodo' = pool
    /\ UNCHANGED <<thr, wt, death, workVars, pool>>

\* Mutant: the test for a running thread is left out, and so is the join.
FreeAtOnce(t) ==
    /\ mpc = "destroy"
    /\ t \in mtodo
    /\ wt' = [wt EXCEPT ![t] = "freed"]
    /\ pool' = pool \ {t}
    /\ mtodo' = mtodo \ {t}
    /\ UNCHANGED <<thr, death, workVars, mpc>>

\* work_pool_destroy unlinks the thread and calls work_thread_destroy, which
\* returns A_OK for a thread that is RUNNING and leaves it alone: the retry loop
\* around the call ends there.  Any other thread is joined.
DestroyLook(t) ==
    /\ mpc = "destroy"
    /\ t \in mtodo
    /\ pool' = pool \ {t}
    /\ IF thread_running(thr[t])
       THEN /\ mtodo' = mtodo \ {t}
            /\ UNCHANGED mpc
       ELSE /\ mpc' = "join"
            /\ mtodo' = mtodo
    /\ UNCHANGED <<thr, wt, death, workVars>>

\* The rest of work_thread_destroy, once thread_join has returned.  The result
\* is the one of the thread: when that is an error work_pool_destroy goes round
\* its retry loop, but its pointer to the thread is NULL by now.
DestroyJoined(t) ==
    /\ mpc = "join"
    /\ t \in mtodo \ pool
    /\ CanJoin(thr[t])
    /\ thr' = [thr EXCEPT ![t] = Destroyed(Joined(@))]
    /\ wt' = [wt EXCEPT ![t] = "freed"]
    /\ epq' = [epq EXCEPT ![t] = <<>>]
    /\ eps' = [eps EXCEPT ![t] = {}]
    /\ ep' = [e \in Endpoints |->
                 IF \E i \in DOMAIN epq[t] : epq[t][i] = e THEN "abandoned" ELSE ep[e]]
    /\ mtodo' = mtodo \ {t}
    /\ mpc' = IF thr[t].ret = "A_OK" THEN "destroy" ELSE "undefined"
    /\ UNCHANGED <<death, wpc, budget, todo, pool>>

\* The pool itself is freed.
DestroyDone ==
    /\ mpc = "destroy"
    /\ mtodo = {}
    /\ mpc' = "gone"
    /\ UNCHANGED <<thr, wt, death, workVars, mtodo, pool>>

Control ==
    \/ BeginDestroy
    \/ DestroyDone
    \/ \E t \in Threads : \/ work_thread_shutdown(t)
                          \/ DestroyLook(t)
                          \/ DestroyJoined(t)

-------------------------------------------------------------------------------
(* A work thread.  It does nothing more when the process has crashed.      *)

Alive == mpc # "undefined"

WrapperStart(t) ==
    /\ Alive
    /\ InWrapper(thr[t])
    /\ \E ok \in MaskResults :
          IF ok
          THEN /\ thr' = [thr EXCEPT ![t] = Entered(@)]
               /\ wpc' = [wpc EXCEPT ![t] = "loop"]
          ELSE /\ thr' = [thr EXCEPT ![t] = Left(@, "FAILED")]
               /\ UNCHANGED wpc
    /\ UNCHANGED <<wt, death, epq, eps, budget, todo, ep, mainVars>>

\* Mutant: signal_death is never looked at.
LoopForever(t) ==
    /\ Alive
    /\ wpc[t] = "loop"
    /\ wpc' = [wpc EXCEPT ![t] = "check"]
    /\ budget' = [budget EXCEPT ![t] = MaxQueued \div 2]
    /\ UNCHANGED <<thr, wt, death, epq, eps, todo, ep, mainVars>>

\* The loop condition of __work_thread_worker_func.
LoopTest(t) ==
    /\ Alive
    /\ wpc[t] = "loop"
    /\ IF death[t] = "ALIVE"
       THEN /\ wpc' = [wpc EXCEPT ![t] = "check"]
            /\ budget' = [budget EXCEPT ![t] = MaxQueued \div 2]
            /\ UNCHANGED todo
       ELSE /\ wpc' = [wpc EXCEPT ![t] = "stop"]
            /\ todo' = [todo EXCEPT ![t] = eps[t]]
            /\ UNCHANGED budget
    /\ UNCHANGED <<thr, wt, death, epq, eps, ep, mainVars>>

\* Mutant: the round ends whether or not the queue is empty.
CheckSkips(t) ==
    /\ Alive
    /\ wpc[t] = "check"
    /\ wpc' = [wpc EXCEPT ![t] = "poll"]
    /\ todo' = [todo EXCEPT ![t] = eps[t]]
    /\ UNCHANGED <<thr, wt, death, epq, eps, budget, ep, mainVars>>

\* One round of __work_thread_check_new_endpoints finds the queue empty ...
CheckEmpty(t) ==
    /\ Alive
    /\ wpc[t] = "check"
    /\ epq[t] = <<>>
    /\ wpc' = [wpc EXCEPT ![t] = "poll"]
    /\ todo' = [todo EXCEPT ![t] = eps[t]]
    /\ UNCHANGED <<thr, wt, death, epq, eps, budget, ep, mainVars>>

\* ... or pops an endpoint, and starts it unless the budget is used up: that
\* endpoint has left the queue and goes nowhere.
CheckPop(t) ==
    /\ Alive
    /\ wpc[t] = "check"
    /\ epq[t] # <<>>
    /\ epq' = [epq EXCEPT ![t] = Tail(@)]
    /\ budget' = [budget EXCEPT ![t] = @ - 1]
    /\ IF budget[t] - 1 > 0
       THEN /\ work_endpoint_startup(Head(epq[t]))
            /\ eps' = [eps EXCEPT ![t] = @ \cup {Head(epq[t])}]
            /\ UNCHANGED <<wpc, todo>>
       ELSE /\ ep' = [ep EXCEPT ![Head(epq[t])] = "dropped"]
            /\ wpc' = [wpc EXCEPT ![t] = "poll"]
            /\ todo' = [todo EXCEPT ![t] = eps[t]]
            /\ UNCHANGED eps
    /\ UNCHANGED <<thr, wt, death, mainVars>>

\* An endpoint that is not due, or whose poll succeeds.
PollOk(t, e) ==
    /\ Alive
    /\ wpc[t] = "poll"
    /\ e \in todo[t]
    /\ todo' = [todo EXCEPT ![t] = @ \ {e}]
    /\ UNCHANGED <<thr, wt, death, epq, eps, wpc, budget, ep, mainVars>>

\* Mutant: an endpoint whose poll failed stays in the list.
PollFailsKept(t, e) ==
    /\ Alive
    /\ wpc[t] = "poll"
    /\ e \in todo[t]
    /\ todo' = [todo EXCEPT ![t] = @ \ {e}]
    /\ work_endpoint_shutdown(e)
    /\ UNCHANGED <<thr, wt, death, epq, eps, wpc, budget, mainVars>>

\* A failing poll: the endpoint is shut down and jettisoned.
PollFails(t, e) ==
    /\ Alive
    /\ wpc[t] = "poll"
    /\ e \in todo[t]
    /\ todo' = [todo EXCEPT ![t] = @ \ {e}]
    /\ eps' = [eps EXCEPT ![t] = @ \ {e}]
    /\ work_endpoint_shutdown(e)
    /\ UNCHANGED <<thr, wt, death, epq, wpc, budget, mainVars>>

\* All endpoints were visited; sleep, and round again.
PollDone(t) ==
    /\ Alive
    /\ wpc[t] = "poll"
    /\ todo[t] = {}
    /\ wpc' = [wpc EXCEPT ![t] = "loop"]
    /\ UNCHANGED <<thr, wt, death, epq, eps, budget, todo, ep, mainVars>>

\* On the way out every endpoint is shut down and unlinked.
StopEndpoint(t, e) ==
    /\ Alive
    /\ wpc[t] = "stop"
    /\ e \in todo[t]
    /\ todo' = [todo EXCEPT ![t] = @ \ {e}]
    /\ eps' = [eps EXCEPT ![t] = @ \ {e}]
    /\ work_endpoint_shutdown(e)
    /\ UNCHANGED <<thr, wt, death, epq, wpc, budget, mainVars>>

\* The work function returns A_OK and the wrapper marks the thread TERMINATED.
Leave(t) ==
    /\ Alive
    /\ wpc[t] = "stop"
    /\ todo[t] = {}
    /\ thr' = [thr EXCEPT ![t] = Left(@, "A_OK")]
    /\ wpc' = [wpc EXCEPT ![t] = "off"]
    /\ UNCHANGED <<wt, death, epq, eps, budget, todo, ep, mainVars>>

PthreadExit(t) ==
    /\ Alive
    /\ CanExit(thr[t])
    /\ thr' = [thr EXCEPT ![t] = Exited(@)]
    /\ UNCHANGED <<wt, death, workVars, mainVars>>

WorkThread(t) ==
    \/ WrapperStart(t)
    \/ LoopTest(t)
    \/ CheckEmpty(t)
    \/ CheckPop(t)
    \/ \E e \in Endpoints : PollOk(t, e) \/ PollFails(t, e) \/ StopEndpoint(t, e)
    \/ PollDone(t)
    \/ Leave(t)
    \/ PthreadExit(t)

-------------------------------------------------------------------------------
\* work_pool_create.
Init ==
    /\ thr = [t \in Threads |-> NoThread]
    /\ wt = [t \in Threads |-> "none"]
    /\ death = [t \in Threads |-> "ALIVE"]
    /\ epq = [t \in Threads |-> <<>>]
    /\ eps = [t \in Threads |-> {}]
    /\ wpc = [t \in Threads |-> "off"]
    /\ budget = [t \in Threads |-> 0]
    /\ todo = [t \in Threads |-> {}]
    /\ ep = [e \in Endpoints |-> "new"]
    /\ mpc = "idle"
    /\ mtodo = {}
    /\ pool = {}

\* Nothing is left to do: the pool is gone and its threads have exited, or the
\* process has crashed.
Finished ==
    /\ \/ mpc = "undefined"
       \/ mpc = "gone" /\ \A t \in Threads : thr[t].os # "live"
    /\ UNCHANGED vars

Next ==
    \/ \E t \in Threads : work_pool_add_thread(t)
    \/ \E t \in Threads, e \in Endpoints : work_pool_add_endpoint(t, e)
    \/ BeginShutdown
    \/ Control
    \/ \E t \in Threads : WorkThread(t)
    \/ Finished

Spec == Init /\ [][Next]_vars

\* Work threads are scheduled, the controlling thread finishes what it began
\* (work_pool_destroy follows work_pool_shutdown), and the callbacks of the
\* endpoints return.
FairSpec ==
    /\ Spec
    /\ WF_vars(Control)
    /\ \A t \in Threads : WF_vars(WorkThread(t))

-------------------------------------------------------------------------------
(* Properties.                                                             *)

TypeOK ==
    /\ thr \in [Threads -> Thread]
    /\ wt \in [Threads -> {"none", "live", "freed"}]
    /\ death \in [Threads -> {"ALIVE", "DEAD"}]
    /\ epq \in [Threads -> Seq(Endpoints)]
    /\ eps \in [Threads -> SUBSET Endpoints]
    /\ wpc \in [Threads -> {"off", "loop", "check", "poll", "stop"}]
    /\ budget \in [Threads -> 0 .. MaxQueued \div 2]
    /\ todo \in [Threads -> SUBSET Endpoints]
    /\ ep \in [Endpoints -> {"new", "queued", "started", "dropped", "stopped", "abandoned"}]
    /\ mpc \in {"idle", "shutdown", "destroy", "join", "undefined", "gone"}
    /\ mtodo \subseteq Threads
    /\ pool \subseteq Threads

\* A struct work_thread is not freed under its thread: whoever still runs
\* __work_thread_worker_func finds its struct, its queue and its list.
NoUseAfterFree ==
    \A t \in Threads : wt[t] = "freed" => wpc[t] = "off" /\ thr[t].os = "joined"

\* A started endpoint is in the list of exactly one work thread, which has not left
\* its loop, and nothing else is in any list: an endpoint is never polled by two
\* threads, nor after its shutdown, and no thread ends without having shut down
\* what it started.
StartedIsListed ==
    \A e \in Endpoints :
        IF ep[e] = "started"
        THEN \E t \in Threads : /\ wpc[t] # "off"
                                /\ \A s \in Threads : e \in eps[s] <=> s = t
        ELSE \A t \in Threads : e \notin eps[t]

\* A signalled work thread exits, whatever its endpoints do.
SignalledExits ==
    \A t \in Threads : (death[t] = "DEAD") ~> (thr[t].os # "live" \/ ~Alive)

\* An endpoint accepted for a thread that lives leaves its queue, unless the
\* thread ends (its mask could not be applied) or the pool is told to stop.
QueuedIsPicked ==
    \A t \in Threads, e \in Endpoints :
        LET Queued == \E i \in DOMAIN epq[t] : epq[t][i] = e
        IN  (Queued /\ thr[t].os = "live")
                ~> (~Queued \/ thr[t].os # "live" \/ mpc # "idle")

\* thread.h:68: a work endpoint is enqueued "to be picked up by the thread": an
\* endpoint that was accepted is started, unless the thread is told to stop.
AcceptedIsStarted == \A e \in Endpoints : ep[e] # "dropped"

\* thread.h:56: work_thread_destroy "Fails if the work thread is still active";
\* so when work_pool_destroy has released the pool every thread is released.
DestroyedIsReaped ==
    mpc = "gone" => \A t \in Threads : wt[t] # "live"

\* pool.h:71: work_pool_shutdown makes the threads of the pool "gracefully shut
\* down".
ShutdownReachesAll ==
    (mpc = "shutdown") ~> (\A t \in Threads : thr[t].os # "live")

\* Every call of the pool returns a result, as pool.h documents: it neither
\* joins a thread that was never created nor follows a NULL pointer.
NothingUndefined == mpc # "undefined"
===============================================================================
