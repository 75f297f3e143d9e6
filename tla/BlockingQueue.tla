--------------------------- MODULE BlockingQueue ---------------------------
(***************************************************************************)
(* ArmoryThreading::BlockingQueue (ThreadSafeClasses.h), the FIFO that     *)
(* connects the threads of the database server: scanner stages, zero-conf  *)
(* workers, notification threads, sockets.                                 *)
(*                                                                         *)
(* One step is one atomic access: a load or store of an atomic, the body   *)
(* of Queue<T>::pop_front / push_back (under mu_), or a section guarded by *)
(* condVarMutex_.  A thread inside condVar_.wait is at "wait"; notify_all  *)
(* sends every such thread back to the top of its loop.                    *)
(*                                                                         *)
(* One thread (the closer) may call terminate() or completed(), once.  No  *)
(* caller in the repository uses clear().                                  *)
(***************************************************************************)
EXTENDS Integers, Sequences, FiniteSets

CONSTANTS Producers, Consumers,
          Pollers,     \* the consumers that also call pop_front(false)
          Retriers,    \* the consumers that call again after StopBlockingLoop
          MaxPush      \* push_back calls per producer, a bound of the model

ASSUME ThreadsFinite == IsFiniteSet(Producers) /\ IsFiniteSet(Consumers)
ASSUME MaxPushNat == MaxPush \in Nat

VARIABLES
    queue,       \* Queue<T>::queue_
    flag,        \* flag_
    waiting,     \* waiting_
    terminated,  \* terminated_
    completed,   \* completed_
    ppc,         \* where each producer is in push_back
    cpc,         \* where each consumer is in pop_front
    mode,        \* the argument of the consumer's current pop_front
    held,        \* the entry a consumer has taken and not yet returned
    kpc,         \* where the closer is
    sent         \* push_back calls each producer has made

vars == <<queue, flag, waiting, terminated, completed, ppc, cpc, mode, held,
          kpc, sent>>

Entry == Producers \X (1..MaxPush)
NoEntry == <<>>

ProducerAt == {"idle", "push", "flag"}
ConsumerAt == {"idle", "check", "pop", "taken", "dec", "data", "locked", "wait",
               "stopped"}
CloserAt == {"idle", "terminating", "notifying", "spin", "reset", "closed"}

PopMode == {"blocking", "polling"}

(* Consumers counted in waiting_: from fetch_add to fetch_sub. *)
InPop == {"check", "pop", "taken", "data", "locked", "wait"}

(* condVarMutex_ is held across steps only inside wait_on_data and
   terminate(). *)
MutexFree ==
    /\ \A c \in Consumers : cpc[c] # "locked"
    /\ kpc \notin {"terminating", "notifying"}

Init ==
    /\ queue = <<>>
    /\ flag = 0
    /\ waiting = 0
    /\ terminated = FALSE
    /\ completed = FALSE
    /\ ppc = [p \in Producers |-> "idle"]
    /\ cpc = [c \in Consumers |-> "idle"]
    /\ mode = [c \in Consumers |-> "blocking"]
    /\ held = [c \in Consumers |-> NoEntry]
    /\ kpc = "idle"
    /\ sent = [p \in Producers |-> 0]

-----------------------------------------------------------------------------
(* push_back *)

(* The load of completed_: a closed queue drops the entry. *)
PushLoadCompleted(p) ==
    /\ ppc[p] = "idle"
    /\ sent[p] < MaxPush
    /\ sent' = [sent EXCEPT ![p] = @ + 1]
    /\ ppc' = [ppc EXCEPT ![p] = IF completed THEN "idle" ELSE "push"]
    /\ UNCHANGED <<queue, flag, waiting, terminated, completed, cpc, mode,
                   held, kpc>>

(* Queue<T>::push_back, under mu_. *)
PushEntry(p) ==
    /\ ppc[p] = "push"
    /\ queue' = Append(queue, <<p, sent[p]>>)
    /\ ppc' = [ppc EXCEPT ![p] = "flag"]
    /\ UNCHANGED <<flag, waiting, terminated, completed, cpc, mode, held,
                   kpc, sent>>

(* condVar_.notify_all(): every waiter goes back to its loop. *)
Notified == [c \in Consumers |-> IF cpc[c] = "wait" THEN "check" ELSE cpc[c]]

(* Mutant: ++flag_ without waking anybody. *)
PushRaiseFlagSilently(p) ==
    /\ ppc[p] = "flag"
    /\ MutexFree
    /\ flag' = flag + 1
    /\ ppc' = [ppc EXCEPT ![p] = "idle"]
    /\ UNCHANGED <<queue, waiting, terminated, completed, cpc, mode, held, kpc,
                   sent>>

(* Mutant: the flag is only raised for a thread that is inside pop_front. *)
PushRaiseFlagIfWaiting(p) ==
    /\ ppc[p] = "flag"
    /\ MutexFree
    /\ flag' = IF waiting > 0 THEN flag + 1 ELSE flag
    /\ cpc' = Notified
    /\ ppc' = [ppc EXCEPT ![p] = "idle"]
    /\ UNCHANGED <<queue, waiting, terminated, completed, mode, held, kpc,
                   sent>>

(* ++flag_ and notify_all, under condVarMutex_. *)
PushRaiseFlag(p) ==
    /\ ppc[p] = "flag"
    /\ MutexFree
    /\ flag' = flag + 1
    /\ cpc' = Notified
    /\ ppc' = [ppc EXCEPT ![p] = "idle"]
    /\ UNCHANGED <<queue, waiting, terminated, completed, mode, held, kpc,
                   sent>>

-----------------------------------------------------------------------------
(* pop_front(block) *)

PopEnter(c) ==
    /\ cpc[c] = "idle"
    /\ waiting' = waiting + 1
    /\ \E m \in IF c \in Pollers THEN PopMode ELSE {"blocking"} :
           mode' = [mode EXCEPT ![c] = m]
    /\ cpc' = [cpc EXCEPT ![c] = "check"]
    /\ UNCHANGED <<queue, flag, terminated, completed, ppc, held, kpc, sent>>

(* A caller that swallows StopBlockingLoop and calls pop_front again, as the
   first loop of processOutputs does. *)
PopAgain(c) ==
    /\ c \in Retriers
    /\ cpc[c] = "stopped"
    /\ waiting' = waiting + 1
    /\ cpc' = [cpc EXCEPT ![c] = "check"]
    /\ UNCHANGED <<queue, flag, terminated, completed, ppc, mode, held, kpc,
                   sent>>

(* Mutant: the top of the loop stops on completed_ too, queue unseen. *)
PopLoadCompletedFirst(c) ==
    /\ cpc[c] = "check"
    /\ IF terminated \/ completed
       THEN /\ cpc' = [cpc EXCEPT ![c] = "stopped"]
            /\ waiting' = waiting - 1
       ELSE /\ cpc' = [cpc EXCEPT ![c] = "pop"]
            /\ UNCHANGED waiting
    /\ UNCHANGED <<queue, flag, terminated, completed, ppc, mode, held, kpc,
                   sent>>

(* The load of terminated_ at the top of the loop; the throw leaves through
   the catch(...) that decrements waiting_. *)
PopLoadTerminated(c) ==
    /\ cpc[c] = "check"
    /\ IF terminated
       THEN /\ cpc' = [cpc EXCEPT ![c] = "stopped"]
            /\ waiting' = waiting - 1
       ELSE /\ cpc' = [cpc EXCEPT ![c] = "pop"]
            /\ UNCHANGED waiting
    /\ UNCHANGED <<queue, flag, terminated, completed, ppc, mode, held, kpc,
                   sent>>

(* Queue<T>::pop_front, under mu_, on a queue that has an entry. *)
PopEntry(c) ==
    /\ cpc[c] = "pop"
    /\ queue # <<>>
    /\ held' = [held EXCEPT ![c] = Head(queue)]
    /\ queue' = Tail(queue)
    /\ cpc' = [cpc EXCEPT ![c] = "taken"]
    /\ UNCHANGED <<flag, waiting, terminated, completed, ppc, mode, kpc,
                   sent>>

(* Queue<T>::pop_front on an empty queue throws IsEmpty: a non-blocking
   caller gets the exception, a blocking one goes on to wait_on_data. *)
PopIsEmpty(c) ==
    /\ cpc[c] = "pop"
    /\ queue = <<>>
    /\ IF mode[c] = "blocking"
       THEN /\ cpc' = [cpc EXCEPT ![c] = "data"]
            /\ UNCHANGED waiting
       ELSE /\ cpc' = [cpc EXCEPT ![c] = "idle"]
            /\ waiting' = waiting - 1
    /\ UNCHANGED <<queue, flag, terminated, completed, ppc, mode, held, kpc,
                   sent>>

PopLeaveWaiting(c) ==
    /\ cpc[c] = "taken"
    /\ waiting' = waiting - 1
    /\ cpc' = [cpc EXCEPT ![c] = "dec"]
    /\ UNCHANGED <<queue, flag, terminated, completed, ppc, mode, held, kpc,
                   sent>>

(* Mutant: the return path also runs the catch block's fetch_sub. *)
PopLowerFlagAndWaiting(c) ==
    /\ cpc[c] = "dec"
    /\ MutexFree
    /\ flag' = flag - 1
    /\ waiting' = waiting - 1
    /\ held' = [held EXCEPT ![c] = NoEntry]
    /\ cpc' = [cpc EXCEPT ![c] = "idle"]
    /\ UNCHANGED <<queue, terminated, completed, ppc, mode, kpc, sent>>

(* --flag_ under condVarMutex_, and the return. *)
PopLowerFlag(c) ==
    /\ cpc[c] = "dec"
    /\ MutexFree
    /\ flag' = flag - 1
    /\ held' = [held EXCEPT ![c] = NoEntry]
    /\ cpc' = [cpc EXCEPT ![c] = "idle"]
    /\ UNCHANGED <<queue, waiting, terminated, completed, ppc, mode, kpc,
                   sent>>

(* Mutant: a throw out of wait_on_data does not decrement waiting_. *)
PopLoadCompletedLeaksWaiting(c) ==
    /\ cpc[c] = "data"
    /\ MutexFree
    /\ cpc' = [cpc EXCEPT ![c] = IF completed THEN "stopped" ELSE "locked"]
    /\ UNCHANGED <<queue, flag, waiting, terminated, completed, ppc, mode, held,
                   kpc, sent>>

(* wait_on_data takes condVarMutex_ and loads completed_: a closed queue
   throws, whatever it still holds. *)
PopLoadCompleted(c) ==
    /\ cpc[c] = "data"
    /\ MutexFree
    /\ IF completed
       THEN /\ cpc' = [cpc EXCEPT ![c] = "stopped"]
            /\ waiting' = waiting - 1
       ELSE /\ cpc' = [cpc EXCEPT ![c] = "locked"]
            /\ UNCHANGED waiting
    /\ UNCHANGED <<queue, flag, terminated, completed, ppc, mode, held, kpc,
                   sent>>

(* Mutant: wait_on_data sleeps without looking at flag_. *)
PopWaitBlindly(c) ==
    /\ cpc[c] = "locked"
    /\ cpc' = [cpc EXCEPT ![c] = "wait"]
    /\ UNCHANGED <<queue, flag, waiting, terminated, completed, ppc, mode, held,
                   kpc, sent>>

(* The rest of wait_on_data, with the mutex held: return when the flag is up,
   sleep otherwise; both release the mutex.  completed() may have stored
   completed_ and notified since the load. *)
PopWaitOnData(c) ==
    /\ cpc[c] = "locked"
    /\ cpc' = [cpc EXCEPT ![c] = IF flag > 0 THEN "check" ELSE "wait"]
    /\ UNCHANGED <<queue, flag, waiting, terminated, completed, ppc, mode, held,
                   kpc, sent>>

(* std::condition_variable::wait may return without a notification. *)
PopSpuriousWakeup(c) ==
    /\ cpc[c] = "wait"
    /\ cpc' = [cpc EXCEPT ![c] = "check"]
    /\ UNCHANGED <<queue, flag, waiting, terminated, completed, ppc, mode,
                   held, kpc, sent>>

-----------------------------------------------------------------------------
(* terminate() and completed() *)

(* terminate() takes condVarMutex_ and stores terminated_.  The threads at the
   top of pop_front's loop and in push_back load the two flags without the
   mutex: a consumer may stop on terminated_ while a producer is let in. *)
TerminateStore ==
    /\ kpc = "idle"
    /\ MutexFree
    /\ terminated' = TRUE
    /\ kpc' = "terminating"
    /\ UNCHANGED <<queue, flag, waiting, completed, ppc, cpc, mode, held, sent>>

(* completed_.store(true), the mutex still held. *)
TerminateComplete ==
    /\ kpc = "terminating"
    /\ completed' = TRUE
    /\ kpc' = "notifying"
    /\ UNCHANGED <<queue, flag, waiting, terminated, ppc, cpc, mode, held, sent>>

(* Mutant: terminate() without notify_all. *)
TerminateSilently ==
    /\ kpc = "notifying"
    /\ kpc' = "closed"
    /\ UNCHANGED <<queue, flag, waiting, terminated, completed, ppc, cpc, mode,
                   held, sent>>

(* notify_all and the release of the mutex. *)
TerminateNotify ==
    /\ kpc = "notifying"
    /\ cpc' = Notified
    /\ kpc' = "closed"
    /\ UNCHANGED <<queue, flag, waiting, terminated, completed, ppc, mode, held,
                   sent>>

(* completed_.store(true), outside condVarMutex_. *)
CompletedStore ==
    /\ kpc = "idle"
    /\ completed' = TRUE
    /\ kpc' = "spin"
    /\ UNCHANGED <<queue, flag, waiting, terminated, ppc, cpc, mode, held,
                   sent>>

(* Mutant: completed() notifies once instead of until waiting_ is zero. *)
CompletedNotifyOnce ==
    /\ kpc = "spin"
    /\ cpc' = Notified
    /\ kpc' = "reset"
    /\ UNCHANGED <<queue, flag, waiting, terminated, completed, ppc, mode,
                   held, sent>>

(* while (waiting_ > 0) notify_all() *)
CompletedSpin ==
    /\ kpc = "spin"
    /\ IF waiting > 0
       THEN cpc' = Notified /\ UNCHANGED kpc
       ELSE kpc' = "reset" /\ UNCHANGED cpc
    /\ UNCHANGED <<queue, flag, waiting, terminated, completed, ppc, mode,
                   held, sent>>

CompletedResetFlag ==
    /\ kpc = "reset"
    /\ MutexFree
    /\ flag' = 0
    /\ kpc' = "closed"
    /\ UNCHANGED <<queue, waiting, terminated, completed, ppc, cpc, mode,
                   held, sent>>

-----------------------------------------------------------------------------
Producer(p) == PushLoadCompleted(p) \/ PushEntry(p) \/ PushRaiseFlag(p)

(* The steps a thread inside pop_front takes without outside help. *)
PopStep(c) ==
    \/ PopLoadTerminated(c) \/ PopEntry(c) \/ PopIsEmpty(c)
    \/ PopLeaveWaiting(c) \/ PopLowerFlag(c) \/ PopLoadCompleted(c)
    \/ PopWaitOnData(c)

Consumer(c) ==
    PopEnter(c) \/ PopAgain(c) \/ PopStep(c) \/ PopSpuriousWakeup(c)

(* The rest of terminate() or completed(), once begun. *)
CloseStep ==
    \/ TerminateComplete \/ TerminateNotify
    \/ CompletedSpin \/ CompletedResetFlag

Closer == TerminateStore \/ CompletedStore \/ CloseStep

Next ==
    \/ \E p \in Producers : Producer(p)
    \/ \E c \in Consumers : Consumer(c)
    \/ Closer

Spec == Init /\ [][Next]_vars

(* Threads inside an operation are scheduled, and a consumer thread loops on
   pop_front until it throws; nobody is obliged to push, to close or to call
   again once stopped. *)
Fairness ==
    /\ \A p \in Producers : WF_vars(PushEntry(p) \/ PushRaiseFlag(p))
    /\ \A c \in Consumers : WF_vars(PopEnter(c) \/ PopStep(c))
    /\ WF_vars(CloseStep)

FairSpec == Spec /\ Fairness

-----------------------------------------------------------------------------
(* The state of the container is well typed: what each thread holds, where it
   is, and flag_, the one counter that may go below zero. *)
TypeOK ==
    /\ queue \in Seq(Entry)
    /\ flag \in Int
    /\ waiting \in Nat
    /\ terminated \in BOOLEAN
    /\ completed \in BOOLEAN
    /\ ppc \in [Producers -> ProducerAt]
    /\ cpc \in [Consumers -> ConsumerAt]
    /\ mode \in [Consumers -> PopMode]
    /\ held \in [Consumers -> Entry \cup {NoEntry}]
    /\ kpc \in CloserAt
    /\ sent \in [Producers -> 0..MaxPush]

Raising == {p \in Producers : ppc[p] = "flag"}
Lowering == {c \in Consumers : cpc[c] \in {"taken", "dec"}}
Popping == {c \in Consumers : cpc[c] \in InPop}

(* flag_ counts the queued entries, less the pushes that have not raised it
   yet, plus the pops that have not lowered it yet, until the queue closes. *)
FlagAccounting ==
    ~completed => flag = Len(queue) - Cardinality(Raising) + Cardinality(Lowering)

(* waiting_ is exactly the number of threads between the two ends of
   pop_front, which is what completed() spins on. *)
WaitingAccounting == waiting = Cardinality(Popping)

(* The two counters of the queue agree with what its threads are doing: flag_
   with the entries, the pushes and the pops in flight, waiting_ with the
   threads inside pop_front, on every path out of it, exceptions included. *)
CountersAgree == FlagAccounting /\ WaitingAccounting

(* No wakeup is lost: while the queue is open, a consumer asleep in
   wait_on_data next to a queued entry is about to be notified by the push of
   some entry, even though pop_front takes entries and lowers flag_ in two
   separate critical sections. *)
NoLostWakeup ==
    (~completed /\ queue # <<>> /\ \E c \in Consumers : cpc[c] = "wait")
        => Raising # {}

(* Neither terminate() nor completed() returns while a thread sleeps in the
   queue, or is past its last look at completed_ and about to: completed()
   stores its flag and notifies without the mutex. *)
NoSleeperLeftBehind ==
    kpc \in {"reset", "closed"}
        => \A c \in Consumers : cpc[c] \notin {"locked", "wait"}

(* While the queue stays open a pushed entry is eventually taken by a consumer
   that keeps calling pop_front. *)
EntriesTaken == (queue # <<>>) ~> (queue = <<>> \/ completed)

(* terminate() and completed() release the threads that block in pop_front:
   each call ends, after any number of entries and races. *)
CloseReleases ==
    \A c \in Consumers \ Pollers : completed ~> (cpc[c] = "stopped")

(* completed(), which spins on waiting_, returns, provided the threads that
   poll, or call again once stopped, give up in the end: each of their calls
   raises waiting_ again. *)
CompletedReturns ==
    <>[](\A c \in Pollers \cup Retriers : cpc[c] = "stopped")
        => ((kpc = "spin") ~> (kpc = "closed"))

-----------------------------------------------------------------------------
(* The abstract queue: the counters, the mutex and the waits disappear.  A
   thread in wait_on_data that has not read completed_ yet acts on what it
   saw of the queue before. *)
AbstractPushing ==
    [p \in Producers |-> IF ppc[p] = "push" THEN <<p, sent[p]>> ELSE NoEntry]

AbstractPopping ==
    [c \in Consumers |-> CASE cpc[c] = "stopped" -> "stopped"
                           [] cpc[c] = "data" -> "sawEmpty"
                           [] OTHER -> "ready"]

AbstractClosed ==
    CASE terminated /\ completed -> "terminated"
      [] terminated /\ ~completed -> "terminating"
      [] ~terminated /\ completed -> "completed"
      [] ~terminated /\ ~completed -> "open"

Abstract == INSTANCE ClosableQueue
    WITH Entries <- Entry, pushing <- AbstractPushing,
         popping <- AbstractPopping, closed <- AbstractClosed

(* BlockingQueue implements the closable queue: whatever the interleaving of
   its counters and notifications, entries leave in order, none is taken
   twice or invented, and a consumer stops only when the closing rules let it. *)
ImplementsClosableQueue == Abstract!Spec
=============================================================================
