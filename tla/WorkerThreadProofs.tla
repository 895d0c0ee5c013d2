--------------------------- MODULE WorkerThreadProofs ---------------------------
(***************************************************************************)
(* Proofs about WorkerThread for every set of workers: the safety          *)
(* invariants of its run, and that a requested shutdown sticks.            *)
(*                                                                         *)
(* What the invariants lack to be inductive is how far the new thread has  *)
(* got, seen from both sides: LifeCycle relates its control point, the     *)
(* state field of struct thread and the pthread behind it.                 *)
(***************************************************************************)
EXTENDS WorkerThread, TLAPS

\* A thread that is in __worker_thread_function runs; one that waits for its
\* wrapper or has left the function is not in it; only a thread that has
\* terminated can have exited, and only a thread that exists is joined.
LifeCycle ==
    \A w \in Workers :
        /\ wpc[w] # "off" => thr[w].state = "RUNNING" /\ thr[w].os = "live"
        /\ thr[w].state = "IDLE" => thr[w].os = "live"
        /\ thr[w].os = "exited" => thr[w].state = "TERMINATED"
        /\ cpc[w] = "join" => thr[w].state # "NONE"

Inv ==
    /\ TypeOK
    /\ NoOrphan
    /\ WorkIsVisible
    /\ LifeCycle

-------------------------------------------------------------------------------
\* What the operations of threading.c leave in a struct thread, field by field.
LEMMA CreateOps ==
    /\ Started(Created) \in Thread
    /\ Started(Created).state = "IDLE"
    /\ Started(Created).os = "live"
    /\ Destroyed(Created) \in Thread
    /\ Destroyed(Created).state = "NONE"
    /\ Destroyed(Created).os = "none"
  BY DEF Started, Created, Destroyed, Thread

\* The same for the operations on an existing one.
LEMMA ThreadOps ==
    ASSUME NEW t \in Thread
    PROVE  /\ Entered(t) \in Thread
           /\ Entered(t).state = "RUNNING"
           /\ Entered(t).os = t.os
           /\ \A r \in {"A_OK", "FAILED"} : /\ Left(t, r) \in Thread
                                           /\ Left(t, r).state = "TERMINATED"
                                           /\ Left(t, r).os = t.os
           /\ Exited(t) \in Thread
           /\ Exited(t).state = t.state
           /\ Exited(t).os = "exited"
           /\ Destroyed(Joined(t)) \in Thread
           /\ Destroyed(Joined(t)).state = "NONE"
           /\ Destroyed(Joined(t)).os = "joined"
  BY DEF Entered, Left, Exited, Joined, Destroyed, Thread

\* No thread exists at first.
LEMMA InitInv == Init => Inv
  BY DEF Init, Inv, TypeOK, NoOrphan, WorkIsVisible, LifeCycle, Thread, NoThread, States

\* What the controlling thread of w does keeps Inv.
LEMMA ControllerStep ==
    ASSUME NEW w \in Workers, Inv, Controller(w)
    PROVE  Inv'
<1> USE DEF Inv, TypeOK, NoOrphan, WorkIsVisible, LifeCycle, States
<1>1. CASE worker_thread_new(w)
  BY <1>1, CreateOps DEF worker_thread_new
<1>2. CASE RequestShutdownLoad(w)
  BY <1>2 DEF RequestShutdownLoad
<1>3. CASE RequestShutdownStore(w)
  BY <1>3 DEF RequestShutdownStore
<1>4. CASE DeleteLoad(w)
  BY <1>4 DEF DeleteLoad
<1>5. CASE DeleteJoin(w)
  BY <1>5, ThreadOps DEF DeleteJoin, CanJoin
<1> QED
  BY <1>1, <1>2, <1>3, <1>4, <1>5 DEF Controller

\* What the thread of w does keeps Inv.
LEMMA WorkerStep ==
    ASSUME NEW w \in Workers, Inv, Worker(w) \/ WorkReturns(w)
    PROVE  Inv'
<1> USE DEF Inv, TypeOK, NoOrphan, WorkIsVisible, LifeCycle, States
<1>1. CASE WrapperEnter(w)
  BY <1>1, ThreadOps DEF WrapperEnter, InWrapper
<1>2. CASE WrapperMaskFails(w)
  BY <1>2, ThreadOps DEF WrapperMaskFails, InWrapper
<1>3. CASE StartUp(w)
  BY <1>3 DEF StartUp
<1>4. CASE WorkLoop(w)
  BY <1>4 DEF WorkLoop
<1>5. CASE WorkReturns(w)
  BY <1>5 DEF WorkReturns
<1>6. CASE Finish(w)
  BY <1>6 DEF Finish
<1>7. CASE WrapperLeave(w)
  BY <1>7, ThreadOps DEF WrapperLeave
<1>8. CASE PthreadExit(w)
  BY <1>8, ThreadOps DEF PthreadExit, CanExit
<1> QED
  BY <1>1, <1>2, <1>3, <1>4, <1>5, <1>6, <1>7, <1>8 DEF Worker

\* Inv is inductive.
LEMMA NextInv == Inv /\ [Next]_vars => Inv'
<1> SUFFICES ASSUME Inv, [Next]_vars PROVE Inv'
  OBVIOUS
<1>1. CASE UNCHANGED vars
  BY <1>1 DEF vars, Inv, TypeOK, NoOrphan, WorkIsVisible, LifeCycle
<1> QED
  BY <1>1, ControllerStep, WorkerStep DEF Next

\* Inv holds in every reachable state.
THEOREM Invariance == Spec => []Inv
<1>1. QED
  BY InitInv, NextInv, PTL DEF Spec

-------------------------------------------------------------------------------
\* The state word, the struct and the control points of both sides stay within
\* their types (worker_thread.c, threading.c).
THEOREM TypeCorrect == Spec => []TypeOK
<1>1. Inv => TypeOK
  BY DEF Inv
<1> QED
  BY <1>1, Invariance, PTL

\* When worker_thread_delete has released the thread, or worker_thread_new could
\* not start it, no thread is left that could touch the caller's struct.
THEOREM ThreadsReaped == Spec => []NoOrphan
<1>1. Inv => NoOrphan
  BY DEF Inv
<1> QED
  BY <1>1, Invariance, PTL

\* The application's work function runs only while st says so.
THEOREM WorkVisible == Spec => []WorkIsVisible
<1>1. Inv => WorkIsVisible
  BY DEF Inv
<1> QED
  BY <1>1, Invariance, PTL

\* worker_thread_request_shutdown is not undone by the worker's start-up, however
\* the two interleave, nor by anything else before the thread is reaped.
THEOREM RequestsStick == Spec => RequestSticks
<1> DEFINE Sticks(w) ==
      st[w] = "SHUTDOWN_REQUESTED" =>
          \/ st'[w] \in {"SHUTDOWN_REQUESTED", "SHUTDOWN"}
          \/ thr[w].state = "NONE"
<1>1. ASSUME Inv, [Next]_vars
      PROVE  [\A w \in Workers : Sticks(w)]_st
  <2> SUFFICES ASSUME NEW v \in Workers, NEW w \in Workers,
                      Controller(v) \/ Worker(v) \/ WorkReturns(v)
               PROVE  Sticks(w)
    BY <1>1 DEF Next, vars
  <2> USE DEF Inv, TypeOK, States
  <2>1. CASE Controller(v)
    BY <1>1, <2>1 DEF Controller, worker_thread_new, RequestShutdownLoad,
         RequestShutdownStore, DeleteLoad, DeleteJoin
  <2>2. CASE Worker(v)
    BY <1>1, <2>2 DEF Worker, WrapperEnter, WrapperMaskFails, StartUp, WorkLoop,
         Finish, WrapperLeave, PthreadExit
  <2>3. CASE WorkReturns(v)
    BY <1>1, <2>3 DEF WorkReturns
  <2> QED
    BY <2>1, <2>2, <2>3
<1> QED
  BY <1>1, Invariance, PTL DEF Spec, RequestSticks
===============================================================================
