------------------------------ MODULE LoggerProofs ------------------------------
(***************************************************************************)
(* Proofs about Logger for every depth of its queues, every set of types,  *)
(* any number of messages and any number of polls that read an lmsg they   *)
(* did not set: where every message is, what handlers are given, and that  *)
(* the life of a logger has one direction.                                 *)
(*                                                                         *)
(* The inductive invariant cuts the messages sent at one place: those      *)
(* after Popped wait in out_queue, one may be in the hands of the poll     *)
(* function, and those up to Settled are on their way back, in order,      *)
(* unless they were lost.                                                  *)
(***************************************************************************)
EXTENDS Logger, SequenceTheorems, TLAPS

TypeOK ==
    /\ state \in {"INACTIVE", "STARTING", "RUNNING", "TERMINATED"}
    /\ handlers \subseteq Types
    /\ setup \in {"none", "adding", "done"}
    /\ endpoint \in {"absent", "queued", "listed", "gone"}
    /\ poll \in {"idle", "pop", "dispatch", "return", "stray"}
    /\ lmsg \in 0 .. MaxSent
    /\ out_queue \in Seq(Int)
    /\ in_queue \in Seq(Int)
    /\ limit \in Limits
    /\ sent \in 0 .. MaxSent
    /\ collected \in Seq(Int)
    /\ dispatched \in Seq(Int)
    /\ lost \subseteq 1 .. MaxSent
    /\ strays \in Nat

\* How far the setting-up thread and the work thread are, and what `state' says.
LifeCycle ==
    /\ setup = "none" <=> state = "INACTIVE"
    /\ setup = "adding" => state = "STARTING"
    /\ setup # "done" => endpoint = "absent"
    /\ endpoint = "queued" => state = "STARTING"
    /\ endpoint = "listed" <=> state = "RUNNING"
    /\ poll # "idle" => endpoint = "listed"

\* Messages the poll function has taken from out_queue, those of them that are on
\* their way back or lost, and those that were looked up in the tree.
Popped  == sent - Len(out_queue)
Settled == Popped - (IF poll \in {"dispatch", "return"} THEN 1 ELSE 0)
Handled == Popped - (IF poll = "dispatch" THEN 1 ELSE 0)
WayBack == collected \o in_queue

\* out_queue holds the messages after Popped, nothing was popped before the start,
\* and the message in hand is the last one popped.
Outward ==
    /\ Popped \in Nat
    /\ \A i \in 1 .. Len(out_queue) : out_queue[i] = Popped + i
    /\ endpoint \in {"absent", "queued"} => Popped = 0
    /\ poll = "pop" => out_queue # <<>>
    /\ poll \in {"dispatch", "return"} => lmsg = Popped
    /\ poll = "stray" => lmsg > 0 /\ strays > 0
    /\ lmsg <= Popped

\* The way back holds the settled messages that are not lost, in order, and no
\* NULL, which would look like an empty queue.
Inward ==
    /\ Settled \in Nat
    /\ InOrder(WayBack)
    /\ Messages(WayBack) = 1 .. Settled \ lost
    /\ lost \subseteq 1 .. Settled
    /\ \A i \in 1 .. Len(in_queue) : in_queue[i] # NULL

\* What the handlers were given.
Dispatched ==
    /\ InOrder(dispatched)
    /\ \A i \in DOMAIN dispatched : dispatched[i] > 0
    /\ Messages(dispatched) = {m \in 1 .. Handled : __logger_get_handler(m)}

\* A sender keeps to its limit; while that is what a queue holds and no poll read a
\* stale lmsg, nothing is lost and nothing is returned twice.
Window ==
    /\ sent - Len(collected) <= limit
    /\ limit <= Capacity(queue_depth) /\ strays = 0 => lost = {} /\ Len(WayBack) = Settled

Inv ==
    /\ TypeOK
    /\ LifeCycle
    /\ Outward
    /\ Inward
    /\ Dispatched
    /\ Window

-------------------------------------------------------------------------------
(* Sequences of messages.                                                  *)

\* What Messages has for elements.
LEMMA MessagesMember ==
    ASSUME NEW s, NEW m
    PROVE  m \in Messages(s) <=> \E i \in DOMAIN s : s[i] = m /\ s[i] > 0
  BY DEF Messages

\* A message, or a second copy of one, that joins s at its end.
LEMMA AppendOrder ==
    ASSUME NEW s \in Seq(Int), NEW e \in Int, InOrder(s),
           e > 0 => \A m \in Messages(s) : m < e
    PROVE  /\ Append(s, e) \in Seq(Int)
           /\ Len(Append(s, e)) = Len(s) + 1
           /\ InOrder(Append(s, e))
           /\ Messages(Append(s, e)) = Messages(s) \cup (IF e > 0 THEN {e} ELSE {})
<1> DEFINE a == Append(s, e)
<1>1. /\ a \in Seq(Int) /\ Len(a) = Len(s) + 1 /\ Len(s) \in Nat
      /\ DOMAIN s = 1 .. Len(s) /\ DOMAIN a = 1 .. Len(s) + 1
      /\ \A i \in 1 .. Len(s) : a[i] = s[i] /\ s[i] \in Int
      /\ a[Len(s) + 1] = e
  BY AppendProperties, LenProperties, ElementOfSeq
<1> HIDE DEF a
<1>2. InOrder(a)
  <2> SUFFICES ASSUME NEW i \in DOMAIN a, NEW j \in DOMAIN a, i < j, a[i] > 0, a[j] > 0
               PROVE  a[i] < a[j]
    BY DEF InOrder
  <2>1. i \in 1 .. Len(s)
    BY <1>1
  <2>2. a[i] \in Messages(s)
    BY <1>1, <2>1, MessagesMember
  <2> QED
    BY <1>1, <2>1, <2>2, SMTT(30) DEF InOrder
<1>3. ASSUME NEW m
      PROVE  m \in Messages(a) <=> m \in Messages(s) \cup (IF e > 0 THEN {e} ELSE {})
  <2>1. m \in Messages(a) <=> \E i \in 1 .. Len(s) + 1 : a[i] = m /\ a[i] > 0
    BY <1>1, MessagesMember
  <2>2. m \in Messages(s) <=> \E i \in 1 .. Len(s) : s[i] = m /\ s[i] > 0
    BY <1>1, MessagesMember
  <2>3. Len(s) + 1 \in 1 .. Len(s) + 1 /\ 1 .. Len(s) + 1 = 1 .. Len(s) \cup {Len(s) + 1}
    BY <1>1
  <2> QED
    BY <1>1, <2>1, <2>2, <2>3
<1> QED
  BY <1>1, <1>2, <1>3 DEF a

\* One sequence of messages followed by another of later ones.
LEMMA ConcatOrder ==
    ASSUME NEW s \in Seq(Int), NEW t \in Seq(Int), InOrder(s), InOrder(t),
           \A m \in Messages(s), n \in Messages(t) : m < n
    PROVE  /\ s \o t \in Seq(Int)
           /\ InOrder(s \o t)
           /\ Messages(s \o t) = Messages(s) \cup Messages(t)
<1> DEFINE c == s \o t
<1>1. /\ c \in Seq(Int) /\ Len(s) \in Nat /\ Len(t) \in Nat
      /\ DOMAIN s = 1 .. Len(s) /\ DOMAIN t = 1 .. Len(t) /\ DOMAIN c = 1 .. Len(s) + Len(t)
      /\ \A i \in 1 .. Len(s) : c[i] = s[i] /\ s[i] \in Int
      /\ \A i \in 1 .. Len(t) : c[Len(s) + i] = t[i] /\ t[i] \in Int
  BY ConcatProperties, LenProperties, ElementOfSeq
<1> HIDE DEF c
<1>2. \A i \in 1 .. Len(s) + Len(t) :
         \/ i \in 1 .. Len(s) /\ c[i] = s[i]
         \/ i - Len(s) \in 1 .. Len(t) /\ c[i] = t[i - Len(s)]
  <2> TAKE i \in 1 .. Len(s) + Len(t)
  <2>1. CASE i <= Len(s)
    BY <1>1, <2>1
  <2>2. CASE ~(i <= Len(s))
    <3>1. i - Len(s) \in 1 .. Len(t) /\ i = Len(s) + (i - Len(s))
      BY <1>1, <2>2
    <3> QED
      BY <1>1, <3>1
  <2> QED
    BY <2>1, <2>2
<1>3. InOrder(c)
  <2> SUFFICES ASSUME NEW i \in 1 .. Len(s) + Len(t), NEW j \in 1 .. Len(s) + Len(t),
                      i < j, c[i] > 0, c[j] > 0
               PROVE  c[i] < c[j]
    BY <1>1 DEF InOrder
  <2>1. CASE i \in 1 .. Len(s) /\ j \in 1 .. Len(s)
    BY <1>1, <2>1 DEF InOrder
  <2>2. CASE i \in 1 .. Len(s) /\ j \notin 1 .. Len(s)
    <3>1. c[j] = t[j - Len(s)] /\ j - Len(s) \in 1 .. Len(t)
      BY <1>2, <2>2
    <3>2. c[i] \in Messages(s) /\ c[j] \in Messages(t)
      BY <1>1, <2>2, <3>1, MessagesMember
    <3> QED
      BY <3>2
  <2>3. CASE i \notin 1 .. Len(s)
    <3>1. j \notin 1 .. Len(s)
      BY <1>1, <2>3
    <3>2. /\ c[i] = t[i - Len(s)] /\ i - Len(s) \in 1 .. Len(t)
          /\ c[j] = t[j - Len(s)] /\ j - Len(s) \in 1 .. Len(t)
      BY <1>2, <2>3, <3>1
    <3>3. \A p, q \in 1 .. Len(t) : p < q /\ t[p] > 0 /\ t[q] > 0 => t[p] < t[q]
      BY <1>1 DEF InOrder
    <3>4. i - Len(s) < j - Len(s)
      BY <1>1
    <3> QED
      BY <3>2, <3>3, <3>4
  <2> QED
    BY <2>1, <2>2, <2>3
<1>4. ASSUME NEW m
      PROVE  m \in Messages(c) <=> m \in Messages(s) \cup Messages(t)
  <2>1. m \in Messages(c) => m \in Messages(s) \cup Messages(t)
    <3> SUFFICES ASSUME m \in Messages(c) PROVE m \in Messages(s) \cup Messages(t)
      OBVIOUS
    <3>1. PICK i \in DOMAIN c : c[i] = m /\ c[i] > 0
      BY MessagesMember
    <3>2. CASE i \in 1 .. Len(s) /\ c[i] = s[i]
      BY <1>1, <3>1, <3>2, MessagesMember
    <3>3. CASE i - Len(s) \in 1 .. Len(t) /\ c[i] = t[i - Len(s)]
      BY <1>1, <3>1, <3>3, MessagesMember
    <3> QED
      BY <1>1, <1>2, <3>2, <3>3
  <2>2. m \in Messages(s) => m \in Messages(c)
    <3> SUFFICES ASSUME m \in Messages(s) PROVE m \in Messages(c)
      OBVIOUS
    <3>1. PICK i \in DOMAIN s : s[i] = m /\ s[i] > 0
      BY MessagesMember
    <3>2. i \in DOMAIN c /\ c[i] = m
      BY <1>1, <3>1
    <3> QED
      BY <3>1, <3>2, MessagesMember
  <2>3. m \in Messages(t) => m \in Messages(c)
    <3> SUFFICES ASSUME m \in Messages(t) PROVE m \in Messages(c)
      OBVIOUS
    <3>1. PICK i \in DOMAIN t : t[i] = m /\ t[i] > 0
      BY MessagesMember
    <3>2. Len(s) + i \in DOMAIN c /\ c[Len(s) + i] = m
      BY <1>1, <3>1
    <3> QED
      BY <3>1, <3>2, MessagesMember
  <2> QED
    BY <2>1, <2>2, <2>3
<1> QED
  BY <1>1, <1>3, <1>4 DEF c

\* A message that moves from the head of one sequence to the end of the one before
\* it stays in its place.
LEMMA MoveHead ==
    ASSUME NEW s \in Seq(Int), NEW t \in Seq(Int), t # <<>>
    PROVE  /\ Head(t) \in Int /\ Tail(t) \in Seq(Int)
           /\ Append(s, Head(t)) \in Seq(Int)
           /\ Append(s, Head(t)) \o Tail(t) = s \o t
<1>1. Head(t) \in Int /\ Tail(t) \in Seq(Int) /\ t = <<Head(t)>> \o Tail(t)
  BY HeadTailProperties, ConcatProperties, LenProperties, ElementOfSeq, SeqEqual
<1>2. Append(s, Head(t)) = s \o <<Head(t)>> /\ Append(s, Head(t)) \in Seq(Int)
  BY <1>1, AppendIsConcat, AppendProperties
<1>3. <<Head(t)>> \in Seq(Int)
  BY <1>1
<1>4. (s \o <<Head(t)>>) \o Tail(t) = s \o (<<Head(t)>> \o Tail(t))
  BY <1>1, <1>3, ConcatAssociative
<1> QED
  BY <1>1, <1>2, <1>4

\* Joining the second of two sequences is joining both.
LEMMA AppendBehind ==
    ASSUME NEW s \in Seq(Int), NEW t \in Seq(Int), NEW e \in Int
    PROVE  s \o Append(t, e) = Append(s \o t, e)
<1>1. /\ Append(t, e) = t \o <<e>> /\ s \o t \in Seq(Int) /\ <<e>> \in Seq(Int)
      /\ Append(s \o t, e) = (s \o t) \o <<e>>
  BY AppendIsConcat, ConcatProperties
<1> QED
  BY <1>1, ConcatAssociative

-------------------------------------------------------------------------------
\* A new logger is empty.
LEMMA InitInv == Init => Inv
<1> SUFFICES ASSUME Init PROVE Inv
  OBVIOUS
<1> USE DEF Init, work_queue_new, NULL
<1>1. TypeOK
  BY MessageAssumption DEF TypeOK
<1>2. /\ WayBack = <<>> /\ Len(<<>>) = 0 /\ DOMAIN <<>> = {}
      /\ Popped = 0 /\ Settled = 0 /\ Handled = 0
  <2>1. collected = <<>> /\ in_queue = <<>> /\ out_queue = <<>> /\ sent = 0 /\ poll = "idle"
    OBVIOUS
  <2> HIDE DEF Init
  <2>2. <<>> \in Seq(Int) /\ <<>> \o <<>> = <<>> /\ Len(<<>>) = 0
    BY ConcatEmptySeq, EmptySeq
  <2>3. DOMAIN <<>> = {}
    BY <2>2, LenProperties
  <2>4. WayBack = <<>>
    BY <2>1, <2>2 DEF WayBack
  <2>5. \A a, b \in Nat : a = 0 /\ b = 0 => a - b = 0
    OBVIOUS
  <2>6. Popped = 0
    BY <2>1, <2>2, <2>5 DEF Popped
  <2>7. Settled = Popped /\ Handled = Popped
    BY <2>1, <2>6, <2>5 DEF Settled, Handled
  <2> QED
    BY <2>2, <2>3, <2>4, <2>6, <2>7
<1>3. InOrder(<<>>) /\ Messages(<<>>) = {}
  BY <1>2 DEF InOrder, Messages
<1>4. LifeCycle /\ Outward
  BY <1>2 DEF LifeCycle, Outward
<1>5. Inward /\ Dispatched
  BY <1>2, <1>3 DEF Inward, Dispatched
<1>6. Window
  BY <1>2, LimitsAssumption DEF Window
<1> QED
  BY <1>1, <1>4, <1>5, <1>6 DEF Inv

\* Steps that only move the setting-up thread, the endpoint and `state' keep what
\* is known of the messages.
LEMMA QuietStep ==
    ASSUME Inv, LifeCycle', TypeOK',
           UNCHANGED <<lmsg, out_queue, in_queue, limit, sent, collected, dispatched, lost,
                       strays, handlers>>,
           \/ UNCHANGED poll
           \/ poll = "idle" /\ poll' = "pop" /\ out_queue # <<>>,
           endpoint' \in {"absent", "queued"} => endpoint \in {"absent", "queued"}
    PROVE  Inv'
<1>1. /\ Popped' = Popped /\ Settled' = Settled /\ Handled' = Handled /\ WayBack' = WayBack
  BY DEF Popped, Settled, Handled, WayBack
<1>2. Outward'
  BY <1>1 DEF Inv, Outward
<1>3. Inward'
  BY <1>1 DEF Inv, Inward, InOrder, Messages
<1>4. Dispatched'
  BY <1>1 DEF Inv, Dispatched, InOrder, Messages, __logger_get_handler
<1>5. Window'
  BY <1>1 DEF Inv, Window
<1> QED
  BY <1>2, <1>3, <1>4, <1>5 DEF Inv

\* Registering a handler keeps Inv: nothing was dispatched yet.
LEMMA HandlerStep ==
    ASSUME Inv, NEW type \in Types, logger_add_message_handler(type)
    PROVE  Inv'
<1> USE DEF Inv
<1>1. /\ setup = "none" /\ handlers' = handlers \cup {type}
      /\ UNCHANGED <<state, setup, endpoint, poll, lmsg, out_queue, in_queue, limit, sent,
                     collected, dispatched, lost, strays>>
  BY DEF logger_add_message_handler, workVars, clientVars
<1>2. Handled = 0
  BY <1>1 DEF LifeCycle, Outward, Handled
<1>3. /\ Popped' = Popped /\ Settled' = Settled /\ Handled' = Handled /\ WayBack' = WayBack
  BY <1>1 DEF Popped, Settled, Handled, WayBack
<1>4. TypeOK' /\ LifeCycle'
  BY <1>1 DEF TypeOK, LifeCycle
<1>5. Outward'
  BY <1>1, <1>3 DEF Outward
<1>6. Inward'
  BY <1>1, <1>3 DEF Inward, InOrder, Messages
<1>7. Window'
  BY <1>1, <1>3 DEF Window
<1>8. Dispatched'
  <2>1. 1 .. Handled = {}
    BY <1>2
  <2> QED
    BY <1>1, <1>3, <2>1 DEF Dispatched, InOrder, Messages
<1> QED
  BY <1>4, <1>5, <1>6, <1>7, <1>8

\* Starting, ending and the beginning of a poll keep Inv.
LEMMA ControlStep ==
    ASSUME Inv,
           \/ StartStore \/ StartAdds \/ StartFails
           \/ logger_endpoint_startup \/ NeverStarted \/ PollFill
           \/ logger_endpoint_shutdown
    PROVE  Inv'
<1> USE DEF Inv, workVars, clientVars
<1>1. CASE StartStore
  BY <1>1, QuietStep DEF StartStore, TypeOK, LifeCycle
<1>2. CASE StartAdds
  BY <1>2, QuietStep DEF StartAdds, TypeOK, LifeCycle
<1>3. CASE StartFails
  BY <1>3, QuietStep DEF StartFails, TypeOK, LifeCycle
<1>4. CASE logger_endpoint_startup
  BY <1>4, QuietStep DEF logger_endpoint_startup, TypeOK, LifeCycle
<1>5. CASE NeverStarted
  BY <1>5, QuietStep DEF NeverStarted, TypeOK, LifeCycle
<1>6. CASE logger_endpoint_shutdown
  BY <1>6, QuietStep DEF logger_endpoint_shutdown, TypeOK, LifeCycle
<1>7. CASE PollFill
  <2>1. out_queue # <<>>
    BY <1>7, EmptySeq DEF PollFill, work_queue_fill
  <2> QED
    BY <1>7, <2>1, QuietStep DEF PollFill, TypeOK, LifeCycle
<1> QED
  BY <1>1, <1>2, <1>3, <1>4, <1>5, <1>6, <1>7

\* Sending keeps Inv, also when out_queue is full.
LEMMA SendStep ==
    ASSUME Inv, Send
    PROVE  Inv'
<1> USE DEF Inv
<1>1. /\ sent < MaxSent /\ sent - Len(collected) < limit
      /\ UNCHANGED <<state, handlers, setup, endpoint, poll, lmsg, dispatched, lost, strays,
                     in_queue, limit, collected>>
  BY DEF Send, workVars
<1>2. CASE out_queue' = out_queue /\ sent' = sent
  BY <1>1, <1>2, QuietStep DEF TypeOK, LifeCycle
<1>3. CASE out_queue' = Append(out_queue, sent + 1) /\ sent' = sent + 1
  <2>1. /\ out_queue' \in Seq(Int) /\ Len(out_queue') = Len(out_queue) + 1
        /\ Len(out_queue) \in Nat /\ sent \in Nat /\ Len(collected) \in Nat
        /\ out_queue'[Len(out_queue) + 1] = sent + 1
        /\ \A i \in 1 .. Len(out_queue) : out_queue'[i] = out_queue[i]
    BY <1>3, AppendProperties, LenProperties DEF TypeOK
  <2>2. /\ Popped' = Popped /\ Settled' = Settled /\ Handled' = Handled /\ WayBack' = WayBack
    BY <1>1, <1>3, <2>1 DEF Popped, Settled, Handled, WayBack
  <2>3. TypeOK' /\ LifeCycle'
    BY <1>1, <1>3, <2>1, MessageAssumption DEF TypeOK, LifeCycle
  <2>4. Outward'
    <3>1. \A i \in 1 .. Len(out_queue) + 1 : out_queue'[i] = Popped + i
      BY <2>1, SMTT(30) DEF Outward, Popped
    <3> QED
      BY <1>1, <2>1, <2>2, <3>1, EmptySeq DEF Outward
  <2>5. Inward'
    BY <1>1, <2>2 DEF Inward, InOrder, Messages
  <2>6. Dispatched'
    BY <1>1, <2>2 DEF Dispatched, InOrder, Messages, __logger_get_handler
  <2>7. Window'
    <3>1. sent' - Len(collected') <= limit'
      BY <1>1, <1>3, <2>1, LimitsAssumption DEF TypeOK
    <3> QED
      BY <1>1, <2>2, <3>1 DEF Window
  <2> QED
    BY <2>3, <2>4, <2>5, <2>6, <2>7
<1> QED
  BY <1>2, <1>3 DEF Send, work_queue_push

\* Collecting keeps Inv: a message stays in its place on the way back.
LEMMA CollectStep ==
    ASSUME Inv, Collect
    PROVE  Inv'
<1> USE DEF Inv
<1>1. UNCHANGED <<state, handlers, setup, endpoint, poll, lmsg, dispatched, lost, strays,
                  out_queue, limit, sent>>
  BY DEF Collect, workVars
<1>2. CASE in_queue' = in_queue /\ collected' = collected
  BY <1>1, <1>2, QuietStep DEF TypeOK, LifeCycle
<1>3. CASE in_queue # <<>> /\ in_queue' = Tail(in_queue)
           /\ collected' = Append(collected, Head(in_queue))
  <2>1. /\ in_queue' \in Seq(Int) /\ collected' \in Seq(Int)
        /\ WayBack' = WayBack
    BY <1>3, MoveHead DEF TypeOK, WayBack
  <2>2. /\ Len(collected') = Len(collected) + 1 /\ Len(collected) \in Nat
        /\ Len(in_queue') = Len(in_queue) - 1 /\ Len(in_queue) \in Nat
        /\ \A i \in 1 .. Len(in_queue') : in_queue'[i] = in_queue[i + 1]
    BY <1>3, AppendProperties, LenProperties, HeadTailProperties DEF TypeOK
  <2>3. /\ Popped' = Popped /\ Settled' = Settled /\ Handled' = Handled
    BY <1>1 DEF Popped, Settled, Handled
  <2>4. TypeOK' /\ LifeCycle'
    BY <1>1, <2>1 DEF TypeOK, LifeCycle
  <2>5. Outward' /\ Dispatched'
    BY <1>1, <2>3 DEF Outward, Dispatched, InOrder, Messages, __logger_get_handler
  <2>6. Inward'
    <3>1. \A i \in 1 .. Len(in_queue') : in_queue'[i] # NULL
      BY <2>2 DEF Inward
    <3> QED
      BY <1>1, <2>1, <2>3, <3>1 DEF Inward, InOrder, Messages
  <2>7. Window'
    BY <1>1, <2>1, <2>2, <2>3, LimitsAssumption, SMTT(30) DEF Window, TypeOK
  <2> QED
    BY <2>4, <2>5, <2>6, <2>7
<1>4. in_queue # <<>> => Head(in_queue) # NULL
  <2>1. in_queue # <<>> => 1 \in 1 .. Len(in_queue) /\ Head(in_queue) = in_queue[1]
    BY HeadTailProperties, EmptySeq, LenProperties DEF TypeOK
  <2> QED
    BY <2>1 DEF Inward
<1> QED
  BY <1>2, <1>3, <1>4 DEF Collect, work_queue_pop, ck_ring_dequeue

-------------------------------------------------------------------------------
(* The poll function.                                                      *)

\* A poll that reads a stale lmsg keeps Inv.
LEMMA PollEmptyStep ==
    ASSUME Inv, PollEmpty
    PROVE  Inv'
<1> USE DEF Inv
<1>1. /\ poll = "idle" /\ endpoint = "listed" /\ lmsg # NULL
      /\ poll' = "stray" /\ strays' = strays + 1
      /\ UNCHANGED <<state, handlers, setup, endpoint, lmsg, out_queue, in_queue, limit, sent,
                     collected, dispatched, lost>>
  BY DEF PollEmpty, clientVars
<1>2. Popped' = Popped /\ Settled' = Settled /\ Handled' = Handled /\ WayBack' = WayBack
  BY <1>1 DEF Popped, Settled, Handled, WayBack
<1>3. TypeOK' /\ LifeCycle' /\ strays' # 0 /\ strays' > 0 /\ lmsg > 0
  BY <1>1 DEF TypeOK, LifeCycle, NULL
<1>4. Outward'
  BY <1>1, <1>2, <1>3 DEF Outward
<1>5. Inward' /\ Dispatched'
  BY <1>1, <1>2 DEF Inward, Dispatched, InOrder, Messages, __logger_get_handler
<1>6. Window'
  BY <1>1, <1>2, <1>3 DEF Window
<1> QED
  BY <1>3, <1>4, <1>5, <1>6

\* Taking a message keeps Inv: it is the next one.
LEMMA PollPopStep ==
    ASSUME Inv, PollPop
    PROVE  Inv'
<1> USE DEF Inv
<1>1. /\ poll = "pop" /\ poll' = "dispatch" /\ out_queue # <<>>
      /\ lmsg' = Head(out_queue) /\ out_queue' = Tail(out_queue)
      /\ UNCHANGED <<state, handlers, setup, endpoint, in_queue, limit, sent, collected,
                     dispatched, lost, strays>>
  BY DEF PollPop, work_queue_pop, ck_ring_dequeue, clientVars, Outward
<1>2. /\ Len(out_queue) \in Nat /\ Len(out_queue) # 0 /\ out_queue' \in Seq(Int)
      /\ Len(out_queue') = Len(out_queue) - 1
      /\ Head(out_queue) = out_queue[1]
      /\ \A i \in 1 .. Len(out_queue) - 1 : out_queue'[i] = out_queue[i + 1]
  BY <1>1, HeadTailProperties, LenProperties, EmptySeq DEF TypeOK
<1>3. /\ sent \in Nat /\ Popped \in Nat
      /\ Popped' = Popped + 1 /\ Settled' = Settled /\ Handled' = Handled /\ WayBack' = WayBack
      /\ Popped + 1 <= sent
  <2>1. sent \in Nat /\ Popped \in Nat
    BY DEF TypeOK, Outward
  <2>2. Popped' = Popped + 1 /\ Popped + 1 <= sent
    BY <1>1, <1>2, <2>1 DEF Popped
  <2>3. Settled' = Popped' - 1 /\ Handled' = Popped' - 1 /\ Settled = Popped /\ Handled = Popped
    BY <1>1, <2>1 DEF Settled, Handled
  <2> QED
    BY <1>1, <2>1, <2>2, <2>3 DEF WayBack
<1>4. lmsg' = Popped'
  BY <1>1, <1>2, <1>3 DEF Outward
<1>5. TypeOK' /\ LifeCycle'
  BY <1>1, <1>2, <1>3, <1>4, MessageAssumption DEF TypeOK, LifeCycle
<1>6. Outward'
  <2>1. endpoint' = "listed"
    BY <1>1 DEF LifeCycle
  <2>2. \A i \in 1 .. Len(out_queue) - 1 : out_queue'[i] = Popped' + i
    BY <1>2, <1>3 DEF Outward
  <2> QED
    BY <1>1, <1>2, <1>3, <1>4, <2>1, <2>2 DEF Outward
<1>7. Inward' /\ Dispatched'
  BY <1>1, <1>3 DEF Inward, Dispatched, InOrder, Messages, __logger_get_handler
<1>8. Window'
  BY <1>1, <1>3 DEF Window
<1> QED
  BY <1>5, <1>6, <1>7, <1>8

\* Looking the type up and calling the handler keeps Inv: the message is later than
\* all that were dispatched.
LEMMA PollDispatchStep ==
    ASSUME Inv, PollDispatch
    PROVE  Inv'
<1> USE DEF Inv
<1>1. /\ poll = "dispatch" /\ poll' = "return"
      /\ UNCHANGED <<state, handlers, setup, endpoint, lmsg, out_queue, in_queue, limit, sent,
                     collected, lost, strays>>
  BY DEF PollDispatch, clientVars
<1>2. /\ Popped' = Popped /\ Settled' = Settled /\ WayBack' = WayBack
      /\ Handled = Popped - 1 /\ Handled' = Popped
      /\ lmsg = Popped /\ Popped \in Nat /\ Popped > 0
  BY <1>1 DEF Popped, Settled, Handled, WayBack, Outward, Inward
<1>3. Outward' /\ Inward'
  BY <1>1, <1>2 DEF Outward, Inward, InOrder, Messages
<1>4. Window' /\ LifeCycle'
  BY <1>1, <1>2 DEF Window, LifeCycle
<1>5. \A m \in Messages(dispatched) : m < lmsg
  BY <1>2 DEF Dispatched
<1>6. CASE __logger_get_handler(lmsg) /\ dispatched' = Append(dispatched, lmsg)
  <2>1. lmsg \in Int /\ dispatched \in Seq(Int)
    BY DEF TypeOK
  <2>2. /\ dispatched' \in Seq(Int) /\ InOrder(dispatched')
        /\ Messages(dispatched') = Messages(dispatched) \cup {lmsg}
    BY <1>2, <1>5, <1>6, <2>1, AppendOrder DEF Dispatched
  <2>3. \A i \in DOMAIN dispatched' : dispatched'[i] > 0
    <3>1. /\ DOMAIN dispatched' = 1 .. Len(dispatched) + 1 /\ Len(dispatched) \in Nat
          /\ DOMAIN dispatched = 1 .. Len(dispatched)
          /\ \A i \in 1 .. Len(dispatched) : dispatched'[i] = dispatched[i]
          /\ dispatched'[Len(dispatched) + 1] = lmsg
      BY <1>6, <2>1, AppendProperties, LenProperties
    <3> QED
      BY <1>2, <3>1 DEF Dispatched
  <2>4. {m \in 1 .. Handled' : __logger_get_handler(m)'}
          = {m \in 1 .. Handled : __logger_get_handler(m)} \cup {lmsg}
    BY <1>1, <1>2, <1>6 DEF __logger_get_handler
  <2>5. Dispatched'
    BY <2>2, <2>3, <2>4 DEF Dispatched, InOrder, Messages
  <2> QED
    BY <1>1, <1>3, <1>4, <2>2, <2>5 DEF TypeOK
<1>7. CASE ~__logger_get_handler(lmsg) /\ dispatched' = dispatched
  <2>1. {m \in 1 .. Handled' : __logger_get_handler(m)'}
          = {m \in 1 .. Handled : __logger_get_handler(m)}
    BY <1>1, <1>2, <1>7 DEF __logger_get_handler
  <2>2. Dispatched'
    BY <1>7, <2>1 DEF Dispatched, InOrder, Messages
  <2> QED
    BY <1>1, <1>3, <1>4, <1>7, <2>2 DEF TypeOK
<1> QED
  BY <1>6, <1>7 DEF PollDispatch

\* Returning a message, or a second copy of one, keeps Inv.  A sender that has no
\* more messages out than in_queue holds always finds room for it.
LEMMA PollReturnStep ==
    ASSUME Inv, PollReturn
    PROVE  Inv'
<1> DEFINE copy == IF poll = "stray" THEN -lmsg ELSE lmsg
           full == ~(Len(in_queue) < Capacity(queue_depth))
<1> USE DEF Inv
<1>1. /\ poll \in {"return", "stray"} /\ poll' = "idle"
      /\ UNCHANGED <<state, handlers, setup, endpoint, lmsg, out_queue, limit, sent, collected,
                     dispatched, strays>>
  BY DEF PollReturn, clientVars
<1>2. /\ in_queue' = IF full THEN in_queue ELSE Append(in_queue, copy)
      /\ lost' = IF full /\ poll = "return" THEN lost \cup {lmsg} ELSE lost
  BY <1>1 DEF PollReturn, work_queue_push, ck_ring_enqueue
<1>3. /\ Popped' = Popped /\ Popped \in Nat /\ Settled \in Nat
      /\ Settled' = Popped /\ Handled = Popped /\ Handled' = Popped
      /\ Settled = IF poll = "return" THEN Popped - 1 ELSE Popped
  BY <1>1 DEF Popped, Settled, Handled, Outward, Inward
<1>4. /\ lmsg \in Nat /\ lmsg > 0 /\ lmsg <= Popped
      /\ poll = "return" => lmsg = Popped
      /\ copy \in Int /\ copy # 0
      /\ poll = "return" => copy = lmsg
      /\ poll = "stray" => copy < 0
  BY <1>1, <1>3 DEF Outward, TypeOK
<1>5. /\ in_queue \in Seq(Int) /\ collected \in Seq(Int) /\ WayBack \in Seq(Int)
      /\ Len(in_queue) \in Nat /\ Len(collected) \in Nat
      /\ Len(WayBack) = Len(collected) + Len(in_queue)
  BY ConcatProperties, LenProperties DEF TypeOK, WayBack
<1> HIDE DEF copy
<1>6. /\ Outward' /\ LifeCycle' /\ Dispatched'
  <2>1. Outward'
    BY <1>1, <1>3 DEF Outward
  <2>2. LifeCycle'
    BY <1>1 DEF LifeCycle
  <2>3. Dispatched'
    BY <1>1, <1>3 DEF Dispatched, InOrder, Messages, __logger_get_handler
  <2> QED
    BY <2>1, <2>2, <2>3
<1>7. limit \in Nat /\ Popped <= sent /\ sent \in Nat /\ Capacity(queue_depth) \in Nat
  BY LimitsAssumption, DepthAssumption, LenProperties DEF TypeOK, Popped, Capacity, Sizes
<1>8. \A m \in Messages(WayBack) : m \in 1 .. Settled
  BY DEF Inward
<1>9. CASE ~full
  <2>1. in_queue' = Append(in_queue, copy) /\ lost' = lost
    BY <1>2, <1>9
  <2>2. WayBack' = Append(WayBack, copy)
    BY <1>1, <1>4, <1>5, <2>1, AppendBehind DEF WayBack
  <2>3. copy > 0 => \A m \in Messages(WayBack) : m < copy
    BY <1>1, <1>3, <1>4, <1>8
  <2>4. /\ Append(WayBack, copy) \in Seq(Int)
        /\ Len(Append(WayBack, copy)) = Len(WayBack) + 1
        /\ InOrder(Append(WayBack, copy))
        /\ Messages(Append(WayBack, copy))
             = Messages(WayBack) \cup (IF copy > 0 THEN {copy} ELSE {})
    BY <1>4, <1>5, <2>3, AppendOrder DEF Inward
  <2>5. TypeOK'
    <3>1. in_queue' \in Seq(Int)
      BY <1>4, <1>5, <2>1
    <3> QED
      BY <1>1, <2>1, <3>1 DEF TypeOK
  <2>6. Messages(Append(WayBack, copy)) = 1 .. Popped \ lost
    <3>1. Messages(WayBack) = 1 .. Settled \ lost /\ lost \subseteq 1 .. Settled
      BY DEF Inward
    <3>2. CASE poll = "return"
      BY <1>3, <1>4, <2>4, <3>1, <3>2
    <3>3. CASE poll = "stray"
      BY <1>3, <1>4, <2>4, <3>1, <3>3
    <3> QED
      BY <1>1, <3>2, <3>3
  <2>7. \A i \in 1 .. Len(in_queue') : in_queue'[i] # NULL
    <3>1. /\ Len(in_queue') = Len(in_queue) + 1 /\ in_queue'[Len(in_queue) + 1] = copy
          /\ \A i \in 1 .. Len(in_queue) : in_queue'[i] = in_queue[i]
      BY <1>4, <1>5, <2>1, AppendProperties
    <3>2. \A i \in 1 .. Len(in_queue) : in_queue[i] # NULL
      BY DEF Inward
    <3>3. \A i \in 1 .. Len(in_queue) + 1 : i \in 1 .. Len(in_queue) \/ i = Len(in_queue) + 1
      BY <1>5
    <3> QED
      BY <1>4, <3>1, <3>2, <3>3 DEF NULL
  <2>8. Inward'
    <3>1. lost \subseteq 1 .. Popped
      BY <1>3 DEF Inward
    <3> QED
      BY <1>3, <2>1, <2>2, <2>4, <2>6, <2>7, <3>1 DEF Inward, InOrder, Messages
  <2>9. Window'
    BY <1>1, <1>3, <1>5, <2>1, <2>2, <2>4, SMTT(30) DEF Window, Outward, TypeOK
  <2> QED
    BY <1>6, <2>5, <2>8, <2>9
<1>10. CASE full
  <2>1. in_queue' = in_queue /\ WayBack' = WayBack
    BY <1>1, <1>2, <1>10 DEF WayBack
  <2>2. CASE poll = "return"
    <3>1. lost' = lost \cup {lmsg}
      BY <1>2, <1>10, <2>2
    <3>2. TypeOK'
      BY <1>1, <1>4, <2>1, <3>1 DEF TypeOK
    <3>3. 1 .. Popped \ lost' = 1 .. Settled \ lost /\ lost' \subseteq 1 .. Popped
      BY <1>3, <1>4, <2>2, <3>1 DEF Inward
    <3>4. Inward'
      BY <1>3, <2>1, <3>3 DEF Inward, InOrder, Messages
    <3>5. ~(limit <= Capacity(queue_depth) /\ strays = 0)
      BY <1>3, <1>5, <1>7, <1>10, <2>2 DEF Window
    <3>6. Window'
      BY <1>1, <3>5 DEF Window
    <3> QED
      BY <1>6, <3>2, <3>4, <3>6
  <2>3. CASE poll = "stray"
    <3>1. lost' = lost /\ Settled' = Settled /\ strays' # 0
      BY <1>1, <1>2, <1>3, <1>10, <2>3 DEF Outward, TypeOK
    <3>2. TypeOK'
      BY <1>1, <2>1, <3>1 DEF TypeOK
    <3>3. Inward' /\ Window'
      BY <1>1, <2>1, <3>1 DEF Inward, InOrder, Messages, Window
    <3> QED
      BY <1>6, <3>2, <3>3
  <2> QED
    BY <1>1, <2>2, <2>3
<1> QED
  BY <1>9, <1>10

-------------------------------------------------------------------------------
\* Inv is inductive.
LEMMA NextInv == Inv /\ [Next]_vars => Inv'
<1> SUFFICES ASSUME Inv, [Next]_vars PROVE Inv'
  OBVIOUS
<1>1. CASE UNCHANGED vars
  <2>1. /\ UNCHANGED <<lmsg, out_queue, in_queue, limit, sent, collected, dispatched, lost,
                       strays, handlers, poll, endpoint, state, setup>>
    BY <1>1 DEF vars, workVars, clientVars
  <2>2. TypeOK' /\ LifeCycle'
    BY <2>1 DEF Inv, TypeOK, LifeCycle
  <2> QED
    BY <2>1, <2>2, QuietStep
<1> QED
  BY <1>1, HandlerStep, ControlStep, SendStep, CollectStep, PollEmptyStep, PollPopStep,
     PollDispatchStep, PollReturnStep DEF Next, logger_endpoint_poll_func

\* Inv holds in every reachable state.
THEOREM Invariance == Spec => []Inv
<1>1. QED
  BY InitInv, NextInv, PTL DEF Spec

-------------------------------------------------------------------------------
\* The logger, its queues and its counters stay within their types (logger.c).
THEOREM TypeCorrect == Spec => []TypeOK
<1>1. Inv => TypeOK
  BY DEF Inv
<1> QED
  BY <1>1, Invariance, PTL

\* Every message sent is at one place on its way through the logger, none overtakes
\* another, and a sender that has no more messages out than a queue holds loses
\* none as long as no poll of logger_endpoint_poll_func read an lmsg it did not set.
THEOREM MessagesAccounted == Spec => []EveryMessageAccounted
<1>1. Inv => EveryMessageAccounted
  <2> SUFFICES ASSUME Inv PROVE EveryMessageAccounted
    OBVIOUS
  <2> USE DEF Inv
  <2>1. /\ WayBack \in Seq(Int) /\ Hand \in Seq(Int) /\ out_queue \in Seq(Int)
        /\ sent \in Nat /\ Popped \in Nat /\ Settled \in Nat /\ Len(out_queue) \in Nat
        /\ DOMAIN out_queue = 1 .. Len(out_queue)
        /\ Popped + Len(out_queue) = sent
    <3>1. WayBack \in Seq(Int) /\ Len(out_queue) \in Nat /\ DOMAIN out_queue = 1 .. Len(out_queue)
      BY ConcatProperties, LenProperties DEF TypeOK, WayBack
    <3>2. Hand \in Seq(Int)
      BY DEF TypeOK, Hand
    <3>3. sent \in Nat /\ out_queue \in Seq(Int) /\ Popped \in Nat /\ Settled \in Nat
      BY DEF TypeOK, Outward, Inward
    <3>4. Popped + Len(out_queue) = sent
      BY <3>1, <3>3 DEF Popped
    <3> QED
      BY <3>1, <3>2, <3>3, <3>4
  <2>2. InOrder(Hand) /\ Messages(Hand) = Settled + 1 .. Popped
    <3>1. CASE poll \in {"dispatch", "return"}
      <4>1. Hand = <<lmsg>> /\ lmsg = Popped /\ Settled = Popped - 1
        BY <3>1 DEF Hand, Outward, Settled
      <4>2. DOMAIN Hand = {1} /\ Hand[1] = Popped /\ Popped > 0
        BY <2>1, <4>1
      <4>3. Messages(Hand) = {Popped}
        BY <4>2 DEF Messages
      <4>4. {Popped} = Settled + 1 .. Popped
        BY <2>1, <4>1
      <4>5. InOrder(Hand)
        BY <4>2 DEF InOrder
      <4> QED
        BY <4>3, <4>4, <4>5
    <3>2. CASE poll \notin {"dispatch", "return"}
      <4>1. Hand = <<>> /\ Settled = Popped
        BY <2>1, <3>2 DEF Hand, Settled
      <4>2. DOMAIN Hand = {}
        BY <2>1, <4>1, LenProperties, EmptySeq
      <4>3. Messages(Hand) = {} /\ InOrder(Hand)
        BY <4>2 DEF Messages, InOrder
      <4>4. Settled + 1 .. Popped = {}
        BY <2>1, <4>1
      <4> QED
        BY <4>3, <4>4
    <3> QED
      BY <3>1, <3>2
  <2>3. InOrder(out_queue) /\ Messages(out_queue) = Popped + 1 .. sent
    <3>1. \A i \in DOMAIN out_queue : out_queue[i] = Popped + i /\ i \in Nat /\ i > 0
      BY <2>1 DEF Outward
    <3>2. InOrder(out_queue)
      BY <2>1, <3>1 DEF InOrder
    <3>3. ASSUME NEW m
          PROVE  m \in Messages(out_queue) <=> m \in Popped + 1 .. sent
      <4>1. ASSUME m \in Messages(out_queue) PROVE m \in Popped + 1 .. sent
        <5>1. PICK i \in DOMAIN out_queue : out_queue[i] = m
          BY <4>1, MessagesMember
        <5>2. m = Popped + i /\ i \in Nat /\ i > 0
          BY <3>1, <5>1
        <5> QED
          BY <2>1, <5>1, <5>2
      <4>2. ASSUME m \in Popped + 1 .. sent PROVE m \in Messages(out_queue)
        <5>1. m - Popped \in DOMAIN out_queue /\ Popped + (m - Popped) = m /\ m > 0
          BY <2>1, <4>2
        <5>2. out_queue[m - Popped] = m
          BY <3>1, <5>1
        <5> QED
          BY <5>1, <5>2, MessagesMember
      <4> QED
        BY <4>1, <4>2
    <3> QED
      BY <3>2, <3>3
  <2>4. Messages(WayBack) = 1 .. Settled \ lost /\ lost \subseteq 1 .. Settled
        /\ InOrder(WayBack)
    BY DEF Inward
  <2>5. Settled <= Popped /\ Popped <= sent
    BY <2>1 DEF Settled
  <2>6. /\ WayBack \o Hand \in Seq(Int) /\ InOrder(WayBack \o Hand)
        /\ Messages(WayBack \o Hand) = Messages(WayBack) \cup Messages(Hand)
    <3>1. \A m \in Messages(WayBack), n \in Messages(Hand) : m < n
      BY <2>1, <2>2, <2>4
    <3> QED
      BY <2>1, <2>2, <2>4, <3>1, ConcatOrder
  <2>7. Messages(WayBack \o Hand) = 1 .. Popped \ lost
    BY <2>1, <2>2, <2>4, <2>5, <2>6
  <2>8. /\ InOrder(InFlight)
        /\ Messages(InFlight) = Messages(WayBack \o Hand) \cup Messages(out_queue)
    <3>1. \A m \in Messages(WayBack \o Hand), n \in Messages(out_queue) : m < n
      BY <2>1, <2>3, <2>7
    <3>2. InFlight = (WayBack \o Hand) \o out_queue
      BY DEF InFlight, WayBack
    <3> QED
      BY <2>1, <2>3, <2>6, <3>1, <3>2, ConcatOrder
  <2>9. Messages(InFlight) = 1 .. sent \ lost
    BY <2>1, <2>3, <2>4, <2>5, <2>7, <2>8
  <2> QED
    BY <2>8, <2>9 DEF EveryMessageAccounted, Window
<1> QED
  BY <1>1, Invariance, PTL

\* Handlers are given the messages that have one, once each and in the order of
\* sending, and before the message is on its way back (logger_endpoint_poll_func).
THEOREM HandledInOrder == Spec => []HandledOnceInOrder
<1>1. Inv => HandledOnceInOrder
  BY DEF Inv, Dispatched, HandledOnceInOrder, Handled, Popped
<1> QED
  BY <1>1, Invariance, PTL

\* logger_start, the work thread's startup and its shutdown write `state' in one
\* direction only; handlers are added before the first write, and called only
\* between the second and the last.
THEOREM LifeAdvances == Spec => StateAdvances
<1> DEFINE Advances ==
      /\ Rank[state'] >= Rank[state]
      /\ handlers' # handlers => state = "INACTIVE"
      /\ dispatched' # dispatched => state = "RUNNING"
<1>1. ASSUME Inv, [Next]_vars
      PROVE  [Advances]_vars
  <2> SUFFICES ASSUME Next PROVE Advances
    BY <1>1
  <2>1. /\ state = "INACTIVE" \/ handlers' = handlers
        /\ state = "RUNNING" \/ dispatched' = dispatched
        /\ \/ state' = state
           \/ state = "INACTIVE" /\ state' = "STARTING"
           \/ state = "STARTING" /\ state' \in {"RUNNING", "TERMINATED"}
           \/ state = "RUNNING" /\ state' = "TERMINATED"
    BY <1>1 DEF Inv, LifeCycle, Next, logger_add_message_handler, StartStore, StartAdds,
         StartFails, Send, Collect, logger_endpoint_startup, NeverStarted,
         logger_endpoint_poll_func, PollFill, PollEmpty, PollPop, PollDispatch, PollReturn,
         logger_endpoint_shutdown, workVars, clientVars
  <2> QED
    BY <1>1, <2>1 DEF Rank, Inv, TypeOK
<1> QED
  BY <1>1, Invariance, PTL DEF Spec, StateAdvances
===============================================================================
