--------------------------- MODULE ClosableQueue ---------------------------
(***************************************************************************)
(* What ArmoryThreading::BlockingQueue (ThreadSafeClasses.h) promises the  *)
(* threads it connects, without its counters, mutexes and notifications.   *)
(* Entries leave in the order they entered, each to one consumer.  Closing *)
(* refuses later pushes, and a consumer leaves only when the queue is      *)
(* terminated, or once it is closed and the consumer has at some moment    *)
(* found it empty: that observation may be out of date.  Terminating takes *)
(* effect in two moments: first consumers may leave, entries or not, while *)
(* producers are still let in, and only then is the gate shut.             *)
(***************************************************************************)
EXTENDS Sequences

CONSTANTS Producers, Consumers, Entries,
          NoEntry      \* stands for "nothing", not an entry

VARIABLES
    queue,     \* the entries, oldest first
    pushing,   \* the entry a producer was let in with and has not queued yet
    popping,   \* what each consumer knows of the queue
    closed     \* "open", or how the queue was closed

vars == <<queue, pushing, popping, closed>>

ConsumerState == {"ready", "sawEmpty", "stopped"}
Closing == {"open", "completed", "terminating", "terminated"}

(* The gate is open until the queue is completed or wholly terminated. *)
Admitting == closed \in {"open", "terminating"}

Init ==
    /\ queue = <<>>
    /\ pushing = [p \in Producers |-> NoEntry]
    /\ popping = [c \in Consumers |-> "ready"]
    /\ closed = "open"

(* A producer passes the gate with an entry. *)
Admit(p, e) ==
    /\ Admitting
    /\ pushing[p] = NoEntry
    /\ pushing' = [pushing EXCEPT ![p] = e]
    /\ UNCHANGED <<queue, popping, closed>>

(* The admitted entry joins the queue, closed or not by now. *)
Enqueue(p) ==
    /\ pushing[p] # NoEntry
    /\ queue' = Append(queue, pushing[p])
    /\ pushing' = [pushing EXCEPT ![p] = NoEntry]
    /\ UNCHANGED <<popping, closed>>

(* Both at once, for a producer that is also the one who closes. *)
Push(e) ==
    /\ Admitting
    /\ queue' = Append(queue, e)
    /\ pushing' = pushing
    /\ UNCHANGED <<popping, closed>>

Take(c) ==
    /\ popping[c] = "ready"
    /\ queue # <<>>
    /\ queue' = Tail(queue)
    /\ pushing' = pushing
    /\ UNCHANGED <<popping, closed>>

SeeEmpty(c) ==
    /\ popping[c] = "ready"
    /\ queue = <<>>
    /\ popping' = [popping EXCEPT ![c] = "sawEmpty"]
    /\ pushing' = pushing
    /\ UNCHANGED <<queue, closed>>

(* A queue that still admits makes the consumer look again. *)
LookAgain(c) ==
    /\ popping[c] = "sawEmpty"
    /\ Admitting
    /\ popping' = [popping EXCEPT ![c] = "ready"]
    /\ pushing' = pushing
    /\ UNCHANGED <<queue, closed>>

(* StopBlockingLoop. *)
Stop(c) ==
    /\ \/ popping[c] = "ready" /\ closed \in {"terminating", "terminated"}
       \/ popping[c] = "sawEmpty" /\ ~Admitting
    /\ popping' = [popping EXCEPT ![c] = "stopped"]
    /\ pushing' = pushing
    /\ UNCHANGED <<queue, closed>>

(* A caller that ignores StopBlockingLoop calls pop_front again. *)
Again(c) ==
    /\ popping[c] = "stopped"
    /\ popping' = [popping EXCEPT ![c] = "ready"]
    /\ pushing' = pushing
    /\ UNCHANGED <<queue, closed>>

(* terminate() or completed(), once. *)
Close(how) ==
    /\ \/ closed = "open" /\ how \in {"completed", "terminating"}
       \/ closed = "terminating" /\ how = "terminated"
    /\ closed' = how
    /\ pushing' = pushing
    /\ UNCHANGED <<queue, popping>>

Next ==
    \/ \E p \in Producers : Enqueue(p) \/ \E e \in Entries : Admit(p, e)
    \/ \E e \in Entries : Push(e)
    \/ \E c \in Consumers :
           Take(c) \/ SeeEmpty(c) \/ LookAgain(c) \/ Stop(c) \/ Again(c)
    \/ \E how \in Closing : Close(how)

Spec == Init /\ [][Next]_vars
=============================================================================
