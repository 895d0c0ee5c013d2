------------------------------ MODULE TimerManager ------------------------------
(***************************************************************************)
(* tsl/timer.c and timer.h: deadline timers on a fixed_heap.  One thread   *)
(* arms and disarms timers and calls timer_manager_fire_next in a loop;    *)
(* what races with it is the clock.                                        *)
(*                                                                         *)
(* A timer whose callback re-arms it does so from within fire_next.  The   *)
(* application arms a timer when, to its knowledge, it is not armed: it    *)
(* was never armed, it fired, arming it failed, or it was disarmed.        *)
(*                                                                         *)
(* The comparison function returns an int: the difference of two 64-bit    *)
(* times is cut to IntBits bits (32 in the code; the unit of time is       *)
(* scaled accordingly).                                                    *)
(***************************************************************************)
EXTENDS HeapOps, FiniteSets

CONSTANTS
    Timers,
    max_timers,    \* capacity given to timer_manager_new
    Delays,        \* usecs given to timer_arm
    IntBits,       \* width of the comparison function's result
    MaxTime,       \* bound: the last time the clock shows
    MaxArms,       \* bound: times a timer is armed
    MaxDisarms     \* bound: calls of timer_disarm

ASSUME TimerAssumption ==
    /\ max_timers \in Nat \ {0}
    /\ Delays \subseteq Nat \ {0}
    /\ IntBits \in Nat \ {0}
    /\ MaxTime \in Nat /\ MaxArms \in Nat /\ MaxDisarms \in Nat
    /\ NULL \notin Timers

VARIABLES
    now,           \* time_get_time
    next_firing,   \* [Timers -> time]; 0 is TIMER_STATE_DISARMED
    armed_timers,  \* mgr->armed_timers: its array
    nr_armed,      \* and its number of entries
    live,          \* mgr->live_timers
    twice,         \* a node was linked that was linked already
    cut,           \* history: deadlines too far apart for an int met in the heap
    view,          \* [Timers -> what the application knows of it]
    pnext,         \* *pnext and the result of fire_next, until the next step
    result,
    arms, disarms  \* how often timers were armed and disarmed

timerVars == <<next_firing, armed_timers, nr_armed, live, twice, cut>>
vars      == <<now, timerVars, view, pnext, result, arms, disarms>>

-------------------------------------------------------------------------------
\* A 64-bit difference returned as an int.
ToInt(d) == ((d + 2 ^ (IntBits - 1)) % (2 ^ IntBits)) - 2 ^ (IntBits - 1)

\* Mutant: the later deadline goes first.
LatestFirst(firing) == [a \in Timers |-> [b \in Timers |-> ToInt(firing[a] - firing[b])]]

__timer_manager_sort_timers(firing) ==
    [a \in Timers |-> [b \in Timers |-> ToInt(firing[b] - firing[a])]]

\* The comparison function tells the deadlines of the timers in S apart.
Comparable(S, firing) ==
    \A a, b \in S : ToInt(firing[b] - firing[a]) = firing[b] - firing[a]

order == __timer_manager_sort_timers(next_firing)

\* Mutant: a timer that found no room in the heap is reported as armed.
AddedUnchecked(t, when, h, n, l) ==
    LET firing == [next_firing EXCEPT ![t] = when]
        fits   == n < max_timers
    IN  /\ arms < MaxArms
        /\ arms' = arms + 1
        /\ next_firing' = firing
        /\ live' = l \cup {t}
        /\ twice' = (twice \/ t \in l)
        /\ cut' = (cut \/ (fits /\ ~Comparable({h[i] : i \in 0 .. n - 1} \cup {t}, firing)))
        /\ armed_timers' = IF fits
                           THEN __fixed_heap_insert(h, t, n, __timer_manager_sort_timers(firing))
                           ELSE h
        /\ nr_armed' = IF fits THEN n + 1 ELSE n
        /\ view' = [view EXCEPT ![t] = "armed"]

\* __timer_manager_add_timer with deadline `when', for a heap of n entries h and
\* a live list l: the timer is linked before it is known whether it fits.
Added(t, when, h, n, l) ==
    LET firing == [next_firing EXCEPT ![t] = when]
        fits   == n < max_timers
    IN  /\ arms < MaxArms
        /\ arms' = arms + 1
        /\ next_firing' = firing
        /\ live' = l \cup {t}
        /\ twice' = (twice \/ t \in l)
        /\ cut' = (cut \/ (fits /\ ~Comparable({h[i] : i \in 0 .. n - 1} \cup {t}, firing)))
        /\ armed_timers' = IF fits
                           THEN __fixed_heap_insert(h, t, n, __timer_manager_sort_timers(firing))
                           ELSE h
        /\ nr_armed' = IF fits THEN n + 1 ELSE n
        /\ view' = [view EXCEPT ![t] = IF fits THEN "armed" ELSE "idle"]

\* The caller has made use of what fire_next has told it.
AnswerUsed == pnext' = 0 /\ result' = "A_OK"

timer_arm(t, usecs) ==
    /\ view[t] # "armed"
    /\ now + usecs <= MaxTime
    /\ Added(t, now + usecs, armed_timers, nr_armed, live)
    /\ AnswerUsed
    /\ UNCHANGED <<now, disarms>>

timer_arm_at(t, when) ==
    /\ view[t] # "armed"
    /\ Added(t, when, armed_timers, nr_armed, live)
    /\ AnswerUsed
    /\ UNCHANGED <<now, disarms>>

\* The timer stays in the heap, at the place it has.
timer_disarm(t) ==
    /\ view[t] = "armed"
    /\ disarms < MaxDisarms
    /\ next_firing' = [next_firing EXCEPT ![t] = 0]
    /\ view' = [view EXCEPT ![t] = "disarmed"]
    /\ disarms' = disarms + 1
    /\ AnswerUsed
    /\ UNCHANGED <<now, armed_timers, nr_armed, live, twice, cut, arms>>

-------------------------------------------------------------------------------
(* timer_manager_fire_next.                                                *)

\* Mutant: a disarmed timer is passed over, and stays at the root of the heap.
DueIfArmed(t) == next_firing[t] # 0 /\ now >= next_firing[t]

Due(t) == now >= next_firing[t]

\* No timer, or none that is due.
FireNothing ==
    /\ nr_armed > 0 => ~Due(armed_timers[0])
    /\ pnext' = IF nr_armed = 0 THEN 0 ELSE next_firing[armed_timers[0]]
    /\ result' = "A_OK"
    /\ UNCHANGED <<now, timerVars, view, arms, disarms>>

\* Mutant: the timer is left in the heap.
NotPopped == armed_timers

Popped == PopRoot(armed_timers, nr_armed, order)

\* What the application makes of a timer that fires.
Fired(t) == IF view[t] = "armed" THEN "idle" ELSE "misfired"

\* The first timer is due and its callback does nothing to the manager.  When
\* the heap is empty afterwards peek_head's A_E_EMPTY is what the caller gets.
FireOnce ==
    LET t == armed_timers[0] IN
    /\ nr_armed > 0
    /\ Due(t)
    /\ armed_timers' = Popped
    /\ nr_armed' = nr_armed - 1
    /\ live' = live \ {t}
    /\ view' = [view EXCEPT ![t] = Fired(t)]
    /\ pnext' = IF nr_armed = 1 THEN 0 ELSE next_firing[armed_timers'[0]]
    /\ result' = IF nr_armed = 1 THEN "A_E_EMPTY" ELSE "A_OK"
    /\ UNCHANGED <<now, next_firing, twice, cut, arms, disarms>>

\* The first timer is due and its callback arms it again.
FireAgain(usecs) ==
    LET t == armed_timers[0] IN
    /\ nr_armed > 0
    /\ Due(t)
    /\ view[t] = "armed"
    /\ now + usecs <= MaxTime
    /\ Added(t, now + usecs, Popped, nr_armed - 1, live \ {t})
    /\ pnext' = next_firing'[armed_timers'[0]]
    /\ result' = "A_OK"
    /\ UNCHANGED <<now, disarms>>

\* timer_manager_delete, and timer_manager_new of the next manager: the timers
\* that were armed are forgotten, whatever their nodes still point to.
timer_manager_delete ==
    /\ armed_timers' = [i \in 0 .. max_timers - 1 |-> NULL]
    /\ nr_armed' = 0
    /\ live' = {}
    /\ view' = [t \in Timers |-> "idle"]
    /\ cut' = FALSE
    /\ AnswerUsed
    /\ UNCHANGED <<now, next_firing, twice, arms, disarms>>

Tick ==
    /\ now < MaxTime
    /\ now' = now + 1
    /\ AnswerUsed
    /\ UNCHANGED <<timerVars, view, arms, disarms>>

-------------------------------------------------------------------------------
\* timer_manager_new.
Init ==
    /\ now = 1
    /\ next_firing = [t \in Timers |-> 0]
    /\ armed_timers = [i \in 0 .. max_timers - 1 |-> NULL]
    /\ nr_armed = 0
    /\ live = {}
    /\ twice = FALSE
    /\ cut = FALSE
    /\ view = [t \in Timers |-> "idle"]
    /\ pnext = 0
    /\ result = "A_OK"
    /\ arms = 0
    /\ disarms = 0

FireNext == FireNothing \/ FireOnce \/ \E d \in Delays : FireAgain(d)

Next ==
    \/ \E t \in Timers : \/ \E d \in Delays : timer_arm(t, d)
                         \/ \E w \in 1 .. MaxTime : timer_arm_at(t, w)
                         \/ timer_disarm(t)
    \/ FireNext
    \/ timer_manager_delete
    \/ Tick

Spec == Init /\ [][Next]_vars

\* Time passes and the owner keeps calling timer_manager_fire_next.
FairSpec == Spec /\ WF_vars(Tick) /\ WF_vars(FireNext)

-------------------------------------------------------------------------------
(* Properties.                                                             *)

Pending == {armed_timers[i] : i \in 0 .. nr_armed - 1}

\* A timer the application was told is armed is in the heap, whatever happened to
\* the others: at capacity, re-armed by its callback, next to disarmed ones.
ArmedIsPending == \A t \in Timers : view[t] = "armed" => t \in Pending

\* As long as timer_disarm is not used, and no two deadlines have been in the heap
\* that are further apart than an int can say, timers fire in the order of their
\* deadlines: the one timer_manager_fire_next looks at is never later than another
\* armed one.
EarliestFirst ==
    disarms = 0 /\ ~cut /\ nr_armed > 0 =>
        \A t \in Pending : next_firing[armed_timers[0]] <= next_firing[t]

\* As long as timer_disarm is not used, a timer fires once for each time it was
\* armed.
FiresOnce == disarms = 0 => \A t \in Timers : view[t] # "misfired"

\* Under the same two conditions the caller of timer_manager_fire_next may sleep
\* until *pnext: no timer that was pending on return, one armed again by its
\* callback included, is due before it.
SleepIsSafe ==
    [][disarms = 0 /\ ~cut' /\ nr_armed' > 0 /\ FireNext =>
          \A t \in Pending' : pnext' <= next_firing'[t]]_vars

\* Once the application has stopped arming timers for times that have passed
\* already, every armed timer fires or is disarmed, even in a heap whose order
\* timer_disarm has broken.
ArmedFires ==
    \A t \in Timers : (view[t] = "armed") ~> (view[t] # "armed")

\* timer.h: timer_disarm disarms the timer, "preventing it from firing".
DisarmedStaysQuiet == \A t \in Timers : view[t] # "misfired"

\* timer.h: armed_timers is a "Min-heap of timers, sorted by time".
SortedByTime ==
    \A i \in 1 .. nr_armed - 1 :
        next_firing[armed_timers[FIXED_HEAP_PARENT(i)]] <= next_firing[armed_timers[i]]

\* timer.h: timer_manager_fire_next returns "A_OK on success".
FiringIsSuccess == result = "A_OK"

\* timer.h: live_timers is a list of all live timers, so each is in it once.
LinkedOnce == ~twice
===============================================================================
