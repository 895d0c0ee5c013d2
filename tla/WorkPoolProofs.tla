----------------------------- MODULE WorkPoolProofs -----------------------------
(***************************************************************************)
(* Proofs about WorkPool for every set of work threads and endpoints and   *)
(* every size of the endpoint queue: no struct work_thread is freed under  *)
(* its thread, and endpoints are in the list of the one thread that        *)
(* started them.                                                           *)
(*                                                                         *)
(* Both invariants lack what the two sides of a thread know of each other. *)
(* LifeCycle relates the control point of a work thread, the state field   *)
(* of its struct thread and the pthread; QueuedOnce and Traversal say      *)
(* where an endpoint is before it is started, and how a traversal of the   *)
(* list relates to the list, so that the list is empty when it is left.    *)
(***************************************************************************)
EXTENDS WorkPool, SequenceTheorems, TLAPS

\* A thread in __work_thread_worker_func runs and is live; only one that has
\* terminated can have exited; a struct that was never allocated has no pthread
\* behind it, and one that was freed had its pthread joined.
LifeCycle ==
    \A t \in Threads :
        /\ wpc[t] # "off" => thr[t].state = "RUNNING" /\ thr[t].os = "live"
        /\ thr[t].os = "exited" => thr[t].state = "TERMINATED"
        /\ wt[t] = "none" => thr[t].os = "none"
        /\ wt[t] = "freed" => thr[t].os = "joined"

\* What is in an endpoint queue was accepted and not yet looked at, and is at one
\* place of one queue.
QueuedOnce ==
    \A t \in Threads : \A i \in DOMAIN epq[t] :
        /\ ep[epq[t][i]] = "queued"
        /\ \A s \in Threads : \A j \in DOMAIN epq[s] :
              epq[s][j] = epq[t][i] => s = t /\ j = i

\* An endpoint is in a list exactly if it is started, and in one list.
ListedOnce ==
    \A e \in Endpoints :
        /\ ep[e] = "started" => \E t \in Threads : e \in eps[t]
        /\ \A t \in Threads :
              e \in eps[t] => ep[e] = "started" /\ \A s \in Threads : e \in eps[s] => s = t

\* What a traversal has still to visit is in the list; on the way out it is the
\* whole list, so that nothing is left in it afterwards.
Traversal ==
    \A t \in Threads :
        /\ wpc[t] = "poll" => todo[t] \subseteq eps[t]
        /\ wpc[t] = "stop" => todo[t] = eps[t]
        /\ wpc[t] = "off"  => eps[t] = {}

\* A round of __work_thread_check_new_endpoints that goes on may pop once more.
BudgetLeft == \A t \in Threads : wpc[t] = "check" => budget[t] > 0

Inv ==
    /\ TypeOK
    /\ LifeCycle
    /\ QueuedOnce
    /\ ListedOnce
    /\ Traversal
    /\ BudgetLeft

-------------------------------------------------------------------------------
\* What the operations of threading.c make of a struct thread, as far as the
\* invariant looks at it.
LEMMA ThreadOps ==
    /\ NoThread \in Thread /\ NoThread.os = "none"
    /\ Started(Created) \in Thread
    /\ Started(Created).state = "IDLE" /\ Started(Created).os = "live"
    /\ \A t \in Thread :
          /\ Entered(t) \in Thread
          /\ Entered(t).state = "RUNNING" /\ Entered(t).os = t.os
          /\ \A r \in {"A_OK", "FAILED"} :
                /\ Left(t, r) \in Thread
                /\ Left(t, r).state = "TERMINATED" /\ Left(t, r).os = t.os
          /\ Exited(t) \in Thread
          /\ Exited(t).state = t.state /\ Exited(t).os = "exited"
          /\ Destroyed(Joined(t)) \in Thread
          /\ Destroyed(Joined(t)).os = "joined"
  BY DEF NoThread, Started, Created, Entered, Left, Exited, Joined, Destroyed, Thread

\* The budget of a round is at least one.
LEMMA BudgetPositive == MaxQueued \div 2 \in Nat /\ MaxQueued \div 2 > 0
  BY QueueAssumption

\* A new pool has no threads.
LEMMA InitInv == Init => Inv
  BY ThreadOps, BudgetPositive
     DEF Init, Inv, TypeOK, LifeCycle, QueuedOnce, ListedOnce, Traversal, BudgetLeft

-------------------------------------------------------------------------------
\* Adding a thread keeps Inv.
LEMMA AddThreadStep ==
    ASSUME NEW t \in Threads, Inv, work_pool_add_thread(t)
    PROVE  Inv'
<1> USE DEF Inv
<1>1. wt[t] = "none" /\ UNCHANGED <<death, epq, eps, wpc, budget, todo, ep, mtodo>>
  BY DEF work_pool_add_thread, workVars
<1>2. wpc[t] = "off"
  BY <1>1 DEF LifeCycle, TypeOK
<1>3. CASE /\ thr' = [thr EXCEPT ![t] = Started(Created)]
           /\ wt' = [wt EXCEPT ![t] = "live"]
           /\ pool' = pool \cup {t}
           /\ UNCHANGED mpc
  <2>1. TypeOK'
    BY <1>1, <1>3, ThreadOps DEF TypeOK
  <2>2. LifeCycle'
    BY <1>1, <1>2, <1>3, ThreadOps DEF LifeCycle, TypeOK
  <2> QED
    BY <1>1, <2>1, <2>2 DEF QueuedOnce, ListedOnce, Traversal, BudgetLeft
<1>4. CASE mpc' = "undefined" /\ UNCHANGED <<thr, wt, pool>>
  BY <1>1, <1>4 DEF TypeOK, LifeCycle, QueuedOnce, ListedOnce, Traversal, BudgetLeft
<1> QED
  BY <1>3, <1>4 DEF work_pool_add_thread, work_thread_new, work_thread_start

\* Handing an endpoint to a thread keeps Inv: a new endpoint is in no queue and
\* in no list.
LEMMA AddEndpointStep ==
    ASSUME NEW t \in Threads, NEW e \in Endpoints, Inv, work_pool_add_endpoint(t, e)
    PROVE  Inv'
<1> USE DEF Inv, work_pool_add_endpoint, work_thread_add_endpoint, mainVars
<1>1. /\ epq[t] \in Seq(Endpoints)
      /\ epq'[t] = Append(epq[t], e)
      /\ \A s \in Threads \ {t} : epq'[s] = epq[s]
  BY DEF TypeOK
<1>2. TypeOK'
  BY <1>1, AppendProperties DEF TypeOK
<1>3. LifeCycle' /\ Traversal' /\ BudgetLeft'
  BY DEF LifeCycle, Traversal, BudgetLeft
<1>4. ListedOnce'
  BY DEF ListedOnce, TypeOK
<1>5. QueuedOnce'
  <2>1. \A s \in Threads : \A i \in DOMAIN epq[s] : epq[s][i] # e
    BY DEF QueuedOnce
  <2>2. /\ DOMAIN epq[t] = 1 .. Len(epq[t])
        /\ DOMAIN epq'[t] = 1 .. Len(epq[t]) + 1
        /\ Len(epq[t]) \in Nat
        /\ epq'[t][Len(epq[t]) + 1] = e
        /\ \A i \in DOMAIN epq[t] : epq'[t][i] = epq[t][i]
    BY <1>1
  <2>3. \A s \in Threads : \A i \in DOMAIN epq'[s] :
           \/ i \in DOMAIN epq[s] /\ epq'[s][i] = epq[s][i]
           \/ s = t /\ i = Len(epq[t]) + 1 /\ epq'[s][i] = e
    BY <1>1, <2>2
  <2>4. \A s \in Threads : \A i \in DOMAIN epq[s] : epq[s][i] \in Endpoints
    BY DEF TypeOK
  <2> QED
    BY <2>1, <2>3, <2>4 DEF QueuedOnce, TypeOK
<1> QED
  BY <1>2, <1>3, <1>4, <1>5

\* The traversals of the pool by work_pool_shutdown and work_pool_destroy keep
\* Inv.
LEMMA VisitStep ==
    ASSUME Inv,
           \/ BeginShutdown \/ BeginDestroy \/ DestroyDone
           \/ \E t \in Threads : work_thread_shutdown(t) \/ DestroyLook(t)
    PROVE  Inv'
<1> USE DEF Inv, BeginShutdown, BeginDestroy, DestroyDone, work_thread_shutdown, DestroyLook,
            workVars
<1>1. TypeOK'
  BY ZenonT(30) DEF TypeOK
<1>2. LifeCycle' /\ QueuedOnce' /\ ListedOnce' /\ Traversal' /\ BudgetLeft'
  BY DEF LifeCycle, QueuedOnce, ListedOnce, Traversal, BudgetLeft
<1> QED
  BY <1>1, <1>2

\* Joining a thread and releasing its struct keeps Inv: a thread that has exited
\* has left its loop and its list is empty.
LEMMA JoinStep ==
    ASSUME NEW t \in Threads, Inv, DestroyJoined(t)
    PROVE  Inv'
<1> USE DEF Inv, DestroyJoined, CanJoin
<1>1. wpc[t] = "off" /\ eps[t] = {}
  BY DEF LifeCycle, Traversal, TypeOK
<1>2. TypeOK'
  BY ThreadOps DEF TypeOK
<1>3. LifeCycle'
  BY <1>1, ThreadOps DEF LifeCycle, TypeOK
<1>4. QueuedOnce'
  BY DEF QueuedOnce, TypeOK
<1>5. ListedOnce' /\ Traversal' /\ BudgetLeft'
  BY <1>1 DEF ListedOnce, Traversal, BudgetLeft, QueuedOnce, TypeOK
<1> QED
  BY <1>2, <1>3, <1>4, <1>5

-------------------------------------------------------------------------------
\* The wrapper of a new thread keeps Inv.
LEMMA WrapperStep ==
    ASSUME NEW t \in Threads, Inv, WrapperStart(t)
    PROVE  Inv'
<1> USE DEF Inv
<1>1. /\ thr[t].os = "live" /\ thr[t].state = "IDLE"
      /\ UNCHANGED <<wt, death, epq, eps, budget, todo, ep, mpc, mtodo, pool>>
  BY DEF WrapperStart, InWrapper, mainVars
<1>2. wpc[t] = "off" /\ eps[t] = {}
  BY <1>1 DEF LifeCycle, Traversal, TypeOK
<1>3. CASE /\ thr' = [thr EXCEPT ![t] = Entered(thr[t])]
           /\ wpc' = [wpc EXCEPT ![t] = "loop"]
  <2>1. TypeOK'
    BY <1>1, <1>3, ThreadOps DEF TypeOK
  <2>2. LifeCycle'
    BY <1>1, <1>3, ThreadOps DEF LifeCycle, TypeOK
  <2> QED
    BY <1>1, <1>3, <2>1, <2>2 DEF QueuedOnce, ListedOnce, Traversal, BudgetLeft, TypeOK
<1>4. CASE /\ thr' = [thr EXCEPT ![t] = Left(thr[t], "FAILED")]
           /\ UNCHANGED wpc
  <2>1. TypeOK'
    BY <1>1, <1>4, ThreadOps DEF TypeOK
  <2>2. LifeCycle'
    BY <1>1, <1>2, <1>4, ThreadOps DEF LifeCycle, TypeOK
  <2> QED
    BY <1>1, <1>4, <2>1, <2>2 DEF QueuedOnce, ListedOnce, Traversal, BudgetLeft
<1> QED
  BY <1>3, <1>4 DEF WrapperStart

\* The loop condition keeps Inv.
LEMMA LoopTestStep ==
    ASSUME NEW t \in Threads, Inv, LoopTest(t)
    PROVE  Inv'
<1> USE DEF Inv
<1>1. /\ wpc[t] = "loop"
      /\ UNCHANGED <<thr, wt, death, epq, eps, ep, mpc, mtodo, pool>>
  BY DEF LoopTest, mainVars
<1>2. CASE /\ wpc' = [wpc EXCEPT ![t] = "check"]
           /\ budget' = [budget EXCEPT ![t] = MaxQueued \div 2]
           /\ UNCHANGED todo
  <2>1. TypeOK'
    BY <1>1, <1>2, BudgetPositive DEF TypeOK
  <2>2. LifeCycle' /\ QueuedOnce' /\ ListedOnce' /\ Traversal' /\ BudgetLeft'
    BY <1>1, <1>2, BudgetPositive
       DEF LifeCycle, QueuedOnce, ListedOnce, Traversal, BudgetLeft, TypeOK
  <2> QED
    BY <2>1, <2>2
<1>3. CASE /\ wpc' = [wpc EXCEPT ![t] = "stop"]
           /\ todo' = [todo EXCEPT ![t] = eps[t]]
           /\ UNCHANGED budget
  <2>1. TypeOK'
    BY <1>1, <1>3 DEF TypeOK
  <2>2. LifeCycle' /\ QueuedOnce' /\ ListedOnce' /\ Traversal' /\ BudgetLeft'
    BY <1>1, <1>3 DEF LifeCycle, QueuedOnce, ListedOnce, Traversal, BudgetLeft, TypeOK
  <2> QED
    BY <2>1, <2>2
<1> QED
  BY <1>2, <1>3 DEF LoopTest

\* The other steps that touch no endpoint keep Inv.
LEMMA RoundStep ==
    ASSUME NEW t \in Threads, Inv, CheckEmpty(t) \/ PollDone(t) \/ PthreadExit(t)
    PROVE  Inv'
<1> USE DEF Inv, mainVars
<1>1. CASE CheckEmpty(t)
  <2> USE <1>1 DEF CheckEmpty
  <2>1. TypeOK'
    BY DEF TypeOK
  <2>2. LifeCycle' /\ Traversal' /\ BudgetLeft'
    BY DEF LifeCycle, Traversal, BudgetLeft, TypeOK
  <2>3. QueuedOnce' /\ ListedOnce'
    BY DEF QueuedOnce, ListedOnce
  <2> QED
    BY <2>1, <2>2, <2>3
<1>2. CASE PollDone(t)
  BY <1>2 DEF PollDone, TypeOK, LifeCycle, QueuedOnce, ListedOnce, Traversal, BudgetLeft
<1>3. CASE PthreadExit(t)
  <2> USE <1>3 DEF PthreadExit, CanExit, workVars
  <2>1. TypeOK'
    BY ThreadOps DEF TypeOK
  <2>2. LifeCycle'
    BY ThreadOps DEF LifeCycle, TypeOK
  <2>3. QueuedOnce' /\ ListedOnce' /\ Traversal' /\ BudgetLeft'
    BY DEF QueuedOnce, ListedOnce, Traversal, BudgetLeft
  <2> QED
    BY <2>1, <2>2, <2>3
<1> QED
  BY <1>1, <1>2, <1>3

\* Taking an endpoint from the queue keeps Inv, whether it is started or dropped:
\* it was nowhere else.
LEMMA CheckPopStep ==
    ASSUME NEW t \in Threads, Inv, CheckPop(t)
    PROVE  Inv'
<1> DEFINE e == Head(epq[t])
<1> USE DEF Inv
<1>1. /\ epq[t] \in Seq(Endpoints) /\ epq[t] # <<>>
      /\ epq' = [epq EXCEPT ![t] = Tail(epq[t])]
      /\ budget' = [budget EXCEPT ![t] = budget[t] - 1]
      /\ UNCHANGED <<thr, wt, death, mpc, mtodo, pool>>
      /\ wpc[t] = "check"
  BY DEF CheckPop, mainVars, TypeOK
<1>2. /\ DOMAIN epq[t] = 1 .. Len(epq[t]) /\ Len(epq[t]) \in Nat \ {0}
      /\ e \in Endpoints /\ e = epq[t][1]
      /\ Tail(epq[t]) \in Seq(Endpoints)
      /\ DOMAIN Tail(epq[t]) = 1 .. Len(epq[t]) - 1
      /\ \A i \in 1 .. Len(epq[t]) - 1 : Tail(epq[t])[i] = epq[t][i + 1]
  BY <1>1, HeadTailProperties, LenProperties
<1>3. /\ ep[e] = "queued"
      /\ \A s \in Threads : e \notin eps[s]
  BY <1>2 DEF QueuedOnce, ListedOnce
<1>4. budget[t] > 0 /\ budget[t] \in 0 .. MaxQueued \div 2
  BY <1>1 DEF BudgetLeft, TypeOK
<1>5. /\ epq' \in [Threads -> Seq(Endpoints)]
      /\ budget' \in [Threads -> 0 .. MaxQueued \div 2]
  BY <1>1, <1>2, <1>4, BudgetPositive DEF TypeOK
<1>6. \A s \in Threads : \A i \in DOMAIN epq'[s] :
         /\ IF s = t THEN i + 1 \in DOMAIN epq[t] /\ i + 1 # 1 /\ epq'[s][i] = epq[t][i + 1]
                     ELSE i \in DOMAIN epq[s] /\ epq'[s][i] = epq[s][i]
         /\ i \in Nat
         /\ epq'[s][i] # e
  BY <1>1, <1>2 DEF QueuedOnce, TypeOK
<1> HIDE DEF e
<1>7. ASSUME \A f \in Endpoints \ {e} : ep'[f] = ep[f]
      PROVE  QueuedOnce'
  <2>1. ASSUME NEW s \in Threads, NEW i \in DOMAIN epq'[s]
        PROVE  ep'[epq'[s][i]] = "queued"
    <3>1. \A r \in Threads : \A j \in DOMAIN epq[r] :
             epq[r][j] \in Endpoints /\ ep[epq[r][j]] = "queued"
      BY DEF QueuedOnce, TypeOK
    <3>2. epq'[s][i] \in Endpoints \ {e} /\ ep[epq'[s][i]] = "queued"
      BY <1>6, <3>1
    <3> QED
      BY <1>7, <3>2
  <2>2. ASSUME NEW s \in Threads, NEW i \in DOMAIN epq'[s],
               NEW r \in Threads, NEW j \in DOMAIN epq'[r],
               epq'[r][j] = epq'[s][i]
        PROVE  r = s /\ j = i
    BY <1>6, <2>2 DEF QueuedOnce
  <2> QED
    BY <2>1, <2>2 DEF QueuedOnce
<1>8. CASE /\ ep' = [ep EXCEPT ![e] = "started"]
           /\ eps' = [eps EXCEPT ![t] = eps[t] \cup {e}]
           /\ budget[t] - 1 > 0
           /\ UNCHANGED <<wpc, todo>>
  <2>1. TypeOK'
    BY <1>1, <1>2, <1>5, <1>8 DEF TypeOK
  <2>2. QueuedOnce'
    BY <1>7, <1>8 DEF TypeOK
  <2>3. ListedOnce'
    BY <1>2, <1>3, <1>8 DEF ListedOnce, TypeOK
  <2>4. LifeCycle' /\ Traversal' /\ BudgetLeft'
    BY <1>1, <1>4, <1>8 DEF LifeCycle, Traversal, BudgetLeft, TypeOK
  <2> QED
    BY <2>1, <2>2, <2>3, <2>4
<1>9. CASE /\ ep' = [ep EXCEPT ![e] = "dropped"]
           /\ wpc' = [wpc EXCEPT ![t] = "poll"]
           /\ todo' = [todo EXCEPT ![t] = eps[t]]
           /\ UNCHANGED eps
  <2>1. TypeOK'
    BY <1>1, <1>2, <1>5, <1>9 DEF TypeOK
  <2>2. QueuedOnce'
    BY <1>7, <1>9 DEF TypeOK
  <2>3. ListedOnce'
    BY <1>2, <1>3, <1>9 DEF ListedOnce, TypeOK
  <2>4. LifeCycle' /\ Traversal' /\ BudgetLeft'
    BY <1>1, <1>4, <1>9 DEF LifeCycle, Traversal, BudgetLeft, TypeOK
  <2> QED
    BY <2>1, <2>2, <2>3, <2>4
<1> QED
  BY <1>8, <1>9 DEF CheckPop, work_endpoint_startup, e

\* A visit to an endpoint of the list keeps Inv ...
LEMMA PollOkStep ==
    ASSUME NEW t \in Threads, NEW e \in Endpoints, Inv, PollOk(t, e)
    PROVE  Inv'
  BY DEF Inv, PollOk, mainVars, TypeOK, LifeCycle, QueuedOnce, ListedOnce, Traversal, BudgetLeft

\* ... also one that shuts it down and unlinks it.
LEMMA UnlinkStep ==
    ASSUME NEW t \in Threads, NEW e \in Endpoints, Inv, PollFails(t, e) \/ StopEndpoint(t, e)
    PROVE  Inv'
<1> USE DEF Inv
<1>1. /\ wpc[t] \in {"poll", "stop"}
      /\ e \in todo[t]
      /\ todo' = [todo EXCEPT ![t] = todo[t] \ {e}]
      /\ eps' = [eps EXCEPT ![t] = eps[t] \ {e}]
      /\ ep' = [ep EXCEPT ![e] = "stopped"]
      /\ UNCHANGED <<thr, wt, death, epq, wpc, budget, mpc, mtodo, pool>>
  BY DEF PollFails, StopEndpoint, work_endpoint_shutdown, mainVars
<1>2. e \in eps[t] /\ ep[e] = "started"
  BY <1>1 DEF Traversal, ListedOnce
<1>3. TypeOK'
  BY <1>1 DEF TypeOK
<1>4. QueuedOnce'
  BY <1>1, <1>2 DEF QueuedOnce, TypeOK
<1>5. ListedOnce'
  BY <1>1, <1>2 DEF ListedOnce, TypeOK
<1>6. LifeCycle' /\ Traversal' /\ BudgetLeft'
  BY <1>1, ZenonT(30) DEF LifeCycle, Traversal, BudgetLeft, TypeOK
<1> QED
  BY <1>3, <1>4, <1>5, <1>6

\* A thread that leaves its loop keeps Inv: it has shut down all it had started.
LEMMA LeaveStep ==
    ASSUME NEW t \in Threads, Inv, Leave(t)
    PROVE  Inv'
<1> USE DEF Inv, Leave, mainVars
<1>1. TypeOK'
  BY ThreadOps DEF TypeOK
<1>2. LifeCycle'
  BY ThreadOps DEF LifeCycle, TypeOK
<1>3. QueuedOnce' /\ ListedOnce' /\ Traversal' /\ BudgetLeft'
  BY DEF QueuedOnce, ListedOnce, Traversal, BudgetLeft, TypeOK
<1> QED
  BY <1>1, <1>2, <1>3

-------------------------------------------------------------------------------
\* Inv is inductive.
LEMMA NextInv == Inv /\ [Next]_vars => Inv'
<1> SUFFICES ASSUME Inv, [Next]_vars PROVE Inv'
  OBVIOUS
<1>1. CASE UNCHANGED vars
  BY <1>1 DEF vars, workVars, mainVars, Inv, TypeOK, LifeCycle, QueuedOnce, ListedOnce,
       Traversal, BudgetLeft
<1>2. CASE \E t \in Threads : WorkThread(t)
  BY <1>2, WrapperStep, LoopTestStep, RoundStep, CheckPopStep, PollOkStep, UnlinkStep, LeaveStep DEF WorkThread
<1>3. CASE BeginShutdown \/ Control
  BY <1>3, VisitStep, JoinStep DEF Control
<1> QED
  BY <1>1, <1>2, <1>3, AddThreadStep, AddEndpointStep DEF Next, Finished

\* Inv holds in every reachable state.
THEOREM Invariance == Spec => []Inv
<1>1. QED
  BY InitInv, NextInv, PTL DEF Spec

-------------------------------------------------------------------------------
\* The pool, its threads and its endpoints stay within their types (offload/pool.c,
\* thread.c, endpoint.c); so the budget of a check never falls below zero.
THEOREM TypeCorrect == Spec => []TypeOK
<1>1. Inv => TypeOK
  BY DEF Inv
<1> QED
  BY <1>1, Invariance, PTL

\* work_thread_destroy frees a struct work_thread only when its pthread was joined
\* and has left __work_thread_worker_func, whatever raced with the shutdown.
THEOREM NoUseAfterFreeHolds == Spec => []NoUseAfterFree
<1>1. Inv => NoUseAfterFree
  BY DEF Inv, TypeOK, LifeCycle, NoUseAfterFree
<1> QED
  BY <1>1, Invariance, PTL

\* A started endpoint is in the list of exactly one thread that has not left its
\* loop, and no list holds anything else: no endpoint is polled by two threads or
\* after its shutdown, and none is forgotten by a thread that ends.
THEOREM StartedListed == Spec => []StartedIsListed
<1>1. Inv => StartedIsListed
  <2> SUFFICES ASSUME Inv, NEW e \in Endpoints
               PROVE  IF ep[e] = "started"
                      THEN \E t \in Threads : /\ wpc[t] # "off"
                                              /\ \A s \in Threads : e \in eps[s] <=> s = t
                      ELSE \A t \in Threads : e \notin eps[t]
    BY DEF StartedIsListed
  <2>1. CASE ep[e] = "started"
    <3>1. PICK t \in Threads : e \in eps[t]
      BY <2>1 DEF Inv, ListedOnce
    <3>2. wpc[t] # "off" /\ \A s \in Threads : e \in eps[s] <=> s = t
      BY <3>1 DEF Inv, ListedOnce, Traversal
    <3> QED
      BY <2>1, <3>2
  <2>2. CASE ep[e] # "started"
    BY <2>2 DEF Inv, ListedOnce
  <2> QED
    BY <2>1, <2>2
<1> QED
  BY <1>1, Invariance, PTL
===============================================================================
