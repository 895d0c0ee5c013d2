------------------------------ MODULE WorkerThread ------------------------------
(***************************************************************************)
(* tsl/worker_thread.c: a thread that runs one application function, and   *)
(* the state word `st' through which its owner asks it to stop.            *)
(*                                                                         *)
(* Each worker has a controlling thread that calls worker_thread_new,      *)
(* _request_shutdown and _delete in any order it likes, one at a time.     *)
(* Both sides access st with single atomic operations: every load, store   *)
(* and compare-and-swap of it is a step of its own.                        *)
(***************************************************************************)
EXTENDS Threading

CONSTANT Workers

VARIABLES
    thr,    \* [Workers -> Thread]: wt->thr
    st,     \* wt->st
    wpc,    \* where the new thread is: off, cas, work, finish, leave
    cpc     \* what the controlling thread is in: idle, request, join

vars == <<thr, st, wpc, cpc>>

States == {"IDLE", "STARTING_UP", "RUNNING", "SHUTDOWN_REQUESTED", "SHUTDOWN"}

-------------------------------------------------------------------------------
(* The controlling thread.                                                 *)

\* worker_thread_new and worker_thread_new_mask.  The struct is the caller's:
\* it may be used again once the previous thread was reaped.
worker_thread_new(w) ==
    /\ cpc[w] = "idle"
    /\ thr[w].state = "NONE"
    /\ st' = [st EXCEPT ![w] = "STARTING_UP"]
    /\ \/ /\ thr' = [thr EXCEPT ![w] = Started(Created)]
          /\ wpc' = [wpc EXCEPT ![w] = "off"]
       \/ \* pthread_create fails: thread_destroy, and st is left as it is
          /\ thr' = [thr EXCEPT ![w] = Destroyed(Created)]
          /\ UNCHANGED wpc
    /\ UNCHANGED cpc

\* worker_thread_request_shutdown looks at st first ...
RequestShutdownLoad(w) ==
    /\ cpc[w] = "idle"
    /\ st[w] \in {"RUNNING", "STARTING_UP"}
    /\ cpc' = [cpc EXCEPT ![w] = "request"]
    /\ UNCHANGED <<thr, st, wpc>>

\* ... and then stores, whatever has happened to st since.
RequestShutdownStore(w) ==
    /\ cpc[w] = "request"
    /\ st' = [st EXCEPT ![w] = "SHUTDOWN_REQUESTED"]
    /\ cpc' = [cpc EXCEPT ![w] = "idle"]
    /\ UNCHANGED <<thr, wpc>>

\* Mutant: worker_thread_delete does not look at the state.
DeleteLoadUnchecked(w) ==
    /\ cpc[w] = "idle"
    /\ cpc' = [cpc EXCEPT ![w] = IF thr[w].state = "NONE" THEN "idle" ELSE "join"]
    /\ UNCHANGED <<thr, st, wpc>>

\* worker_thread_delete answers A_E_BUSY in any other state; with no thread to
\* reap it has nothing to do.
DeleteLoad(w) ==
    /\ cpc[w] = "idle"
    /\ st[w] \in {"SHUTDOWN", "SHUTDOWN_REQUESTED"}
    /\ thr[w].state # "NONE"
    /\ cpc' = [cpc EXCEPT ![w] = "join"]
    /\ UNCHANGED <<thr, st, wpc>>

\* thread_join and thread_destroy.
DeleteJoin(w) ==
    /\ cpc[w] = "join"
    /\ CanJoin(thr[w])
    /\ thr' = [thr EXCEPT ![w] = Destroyed(Joined(@))]
    /\ cpc' = [cpc EXCEPT ![w] = "idle"]
    /\ UNCHANGED <<st, wpc>>

Controller(w) ==
    \/ worker_thread_new(w)
    \/ RequestShutdownLoad(w)
    \/ RequestShutdownStore(w)
    \/ DeleteLoad(w)
    \/ DeleteJoin(w)

-------------------------------------------------------------------------------
(* The worker.                                                             *)

WrapperEnter(w) ==
    /\ InWrapper(thr[w])
    /\ thr' = [thr EXCEPT ![w] = Entered(@)]
    /\ wpc' = [wpc EXCEPT ![w] = "cas"]
    /\ UNCHANGED <<st, cpc>>

\* cpu_mask_apply fails: __worker_thread_function is never called.
WrapperMaskFails(w) ==
    /\ InWrapper(thr[w])
    /\ thr' = [thr EXCEPT ![w] = Left(@, "FAILED")]
    /\ UNCHANGED <<st, wpc, cpc>>

\* Mutant: a plain store instead of the compare-and-swap.
StartUpByStore(w) ==
    /\ wpc[w] = "cas"
    /\ st' = [st EXCEPT ![w] = "RUNNING"]
    /\ wpc' = [wpc EXCEPT ![w] = "work"]
    /\ UNCHANGED <<thr, cpc>>

\* __worker_thread_function: the work function is only entered when nobody has
\* asked for a shutdown yet.
StartUp(w) ==
    /\ wpc[w] = "cas"
    /\ \/ /\ st[w] = "STARTING_UP"
          /\ st' = [st EXCEPT ![w] = "RUNNING"]
          /\ wpc' = [wpc EXCEPT ![w] = "work"]
       \/ /\ st[w] # "STARTING_UP"
          /\ wpc' = [wpc EXCEPT ![w] = "finish"]
          /\ UNCHANGED st
    /\ UNCHANGED <<thr, cpc>>

\* Mutant: a requested shutdown still counts as running.
RunningUntilShutdown(w) == st[w] # "SHUTDOWN"

worker_thread_is_running(w) == st[w] = "RUNNING"

\* The work function asks worker_thread_is_running at the end of each round of
\* its loop and returns when it is told to stop.
WorkLoop(w) ==
    /\ wpc[w] = "work"
    /\ ~worker_thread_is_running(w)
    /\ wpc' = [wpc EXCEPT ![w] = "finish"]
    /\ UNCHANGED <<thr, st, cpc>>

\* It may also return on its own account.
WorkReturns(w) ==
    /\ wpc[w] = "work"
    /\ worker_thread_is_running(w)
    /\ wpc' = [wpc EXCEPT ![w] = "finish"]
    /\ UNCHANGED <<thr, st, cpc>>

\* The last store of __worker_thread_function.
Finish(w) ==
    /\ wpc[w] = "finish"
    /\ st' = [st EXCEPT ![w] = "SHUTDOWN"]
    /\ wpc' = [wpc EXCEPT ![w] = "leave"]
    /\ UNCHANGED <<thr, cpc>>

WrapperLeave(w) ==
    /\ wpc[w] = "leave"
    /\ \E r \in {"A_OK", "FAILED"} : thr' = [thr EXCEPT ![w] = Left(@, r)]
    /\ wpc' = [wpc EXCEPT ![w] = "off"]
    /\ UNCHANGED <<st, cpc>>

PthreadExit(w) ==
    /\ CanExit(thr[w])
    /\ thr' = [thr EXCEPT ![w] = Exited(@)]
    /\ UNCHANGED <<st, wpc, cpc>>

\* What the thread does by itself; WorkReturns is up to the application.
Worker(w) ==
    \/ WrapperEnter(w)
    \/ WrapperMaskFails(w)
    \/ StartUp(w)
    \/ WorkLoop(w)
    \/ Finish(w)
    \/ WrapperLeave(w)
    \/ PthreadExit(w)

-------------------------------------------------------------------------------
Init ==
    /\ thr = [w \in Workers |-> NoThread]
    /\ st = [w \in Workers |-> "IDLE"]
    /\ wpc = [w \in Workers |-> "off"]
    /\ cpc = [w \in Workers |-> "idle"]

Next == \E w \in Workers : Controller(w) \/ Worker(w) \/ WorkReturns(w)

Spec == Init /\ [][Next]_vars

\* Started threads are scheduled, and so is a controller that is in a call; it
\* need not make another call, and the work function need not give up early.
FairSpec ==
    /\ Spec
    /\ \A w \in Workers : /\ WF_vars(Worker(w))
                          /\ WF_vars(RequestShutdownStore(w))
                          /\ WF_vars(DeleteJoin(w))

-------------------------------------------------------------------------------
(* Properties.                                                             *)

TypeOK ==
    /\ thr \in [Workers -> Thread]
    /\ st \in [Workers -> States]
    /\ wpc \in [Workers -> {"off", "cas", "work", "finish", "leave"}]
    /\ cpc \in [Workers -> {"idle", "request", "join"}]

\* The thread never outlives the struct that describes it: when
\* worker_thread_delete has released wt->thr, or worker_thread_new failed, no
\* thread is left that could still touch the caller's struct worker_thread.
NoOrphan ==
    \A w \in Workers :
        thr[w].state = "NONE" => wpc[w] = "off" /\ thr[w].os \in {"none", "joined"}

\* The work function runs only between the compare-and-swap and the final store
\* of __worker_thread_function: st says so to the controlling thread.
WorkIsVisible ==
    \A w \in Workers :
        wpc[w] = "work" => st[w] \in {"RUNNING", "SHUTDOWN_REQUESTED"}

\* A requested shutdown is not forgotten: the state only leaves
\* SHUTDOWN_REQUESTED for SHUTDOWN, or for the next use of the struct.  The
\* worker's own start-up races with the request.
RequestSticks ==
    [][\A w \in Workers :
          st[w] = "SHUTDOWN_REQUESTED" =>
              \/ st'[w] \in {"SHUTDOWN_REQUESTED", "SHUTDOWN"}
              \/ thr[w].state = "NONE"]_st

\* A requested shutdown happens: the thread exits.
RequestIsHonoured ==
    \A w \in Workers :
        (st[w] = "SHUTDOWN_REQUESTED" /\ thr[w].os = "live") ~> (thr[w].os # "live")

\* worker_thread_delete joins only threads that are about to exit: it returns.
DeleteReturns ==
    \A w \in Workers : (cpc[w] = "join") ~> (cpc[w] = "idle")

\* worker_thread.h:94 calls WORKER_THREAD_STATE_SHUTDOWN the terminal state for a
\* thread: as long as the thread has not been reaped st keeps that value.
ShutdownIsTerminal ==
    [][\A w \in Workers :
          st[w] = "SHUTDOWN" /\ thr[w].state # "NONE" => st'[w] = "SHUTDOWN"]_st

\* worker_thread.h:94-95: a thread that is shut down has been flagged as ready
\* to join; worker_thread_delete relies on the flag.
DeadIsFlagged ==
    \A w \in Workers :
        thr[w].os = "exited" => st[w] \in {"SHUTDOWN", "SHUTDOWN_REQUESTED"}
===============================================================================
