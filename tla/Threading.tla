------------------------------- MODULE Threading -------------------------------
(***************************************************************************)
(* tsl/threading.c: the life of one struct thread, as operations on a      *)
(* record.  The modules that use threads (WorkerThread, WorkPool) keep one *)
(* such record per thread and build their actions from these operations.   *)
(*                                                                         *)
(*   state   thread->state; "NONE" when the struct does not exist          *)
(*   os      the pthread behind it (external): none, live, exited, joined  *)
(*   ret     what the pthread returns: A_OK or FAILED                      *)
(*                                                                         *)
(* thread->state is written by the new thread (RUNNING, TERMINATED) and by *)
(* its owner (IDLE, on creation and after a join).  Until the new thread   *)
(* has run its first instructions a started thread still reads IDLE.       *)
(***************************************************************************)

Thread == [state : {"NONE", "IDLE", "RUNNING", "TERMINATED"},
           os    : {"none", "live", "exited", "joined"},
           ret   : {"A_OK", "FAILED"}]

NoThread == [state |-> "NONE", os |-> "none", ret |-> "A_OK"]

\* thread_create: allocated, not started.
Created == [state |-> "IDLE", os |-> "none", ret |-> "A_OK"]

\* thread_start, when pthread_create succeeds; it does not touch the state.
Started(thr) == [thr EXCEPT !.os = "live"]

thread_running(thr) == thr.state = "RUNNING"

\* __thread_wrapper_func: the new thread has not got past cpu_mask_apply yet.
InWrapper(thr) == thr.os = "live" /\ thr.state = "IDLE"

\* The affinity mask was applied and thread->func is about to be called.
Entered(thr) == [thr EXCEPT !.state = "RUNNING"]

\* The function returned r, or r = FAILED and the mask could not be applied.
Left(thr, r) == [thr EXCEPT !.state = "TERMINATED", !.ret = r]

\* pthread_exit, the last thing the wrapper does.
CanExit(thr) == thr.os = "live" /\ thr.state = "TERMINATED"
Exited(thr)  == [thr EXCEPT !.os = "exited"]

\* Mutant: thread_join does not wait.
JoinWithoutWaiting(thr) == TRUE

\* thread_join blocks until the pthread has exited.
CanJoin(thr) == thr.os = "exited"
Joined(thr)  == [thr EXCEPT !.os = "joined", !.state = "IDLE"]

\* thread_destroy answers A_E_BUSY unless the thread is idle.
Destroyed(thr) ==
    IF thr.state = "IDLE" THEN [thr EXCEPT !.state = "NONE"] ELSE thr
===============================================================================
