----------------------- MODULE BlockingQueue_proofs ------------------------
(* Proofs about BlockingQueue, for any number of producers, consumers and
   pushes. *)
EXTENDS BlockingQueue, FiniteSetTheorems, TLAPS

-----------------------------------------------------------------------------
(* Facts about finite sets of threads. *)

LEMMA ThreadSets ==
    /\ IsFiniteSet(Raising) /\ IsFiniteSet(Lowering) /\ IsFiniteSet(Popping)
    /\ Cardinality(Raising) \in Nat
    /\ Cardinality(Lowering) \in Nat
    /\ Cardinality(Popping) \in Nat
<1>1. Raising \subseteq Producers /\ Lowering \subseteq Consumers /\ Popping \subseteq Consumers
  BY DEF Raising, Lowering, Popping
<1> QED
  BY <1>1, ThreadsFinite, FS_Subset, FS_CardinalityType

(* A thread joins a finite set of threads. *)
LEMMA CardinalityJoin ==
    ASSUME NEW S, NEW T, NEW x, IsFiniteSet(S), x \notin S, T = S \cup {x}
    PROVE  Cardinality(T) = Cardinality(S) + 1
  BY FS_AddElement

(* A thread leaves a finite set of threads. *)
LEMMA CardinalityLeave ==
    ASSUME NEW S, NEW T, NEW x, IsFiniteSet(S), x \in S, T = S \ {x}
    PROVE  Cardinality(T) = Cardinality(S) - 1
  BY FS_RemoveElement

-----------------------------------------------------------------------------
(* The inductive invariant.  NoLostWakeup alone is not inductive: a sleeper
   must be tied to flag_, and flag_ to the queue. *)

(* TypeOK without waiting_, whose type follows from WaitingAccounting. *)
Typed ==
    /\ queue \in Seq(Entry)
    /\ flag \in Int
    /\ terminated \in BOOLEAN
    /\ completed \in BOOLEAN
    /\ ppc \in [Producers -> ProducerAt]
    /\ cpc \in [Consumers -> ConsumerAt]
    /\ mode \in [Consumers -> PopMode]
    /\ held \in [Consumers -> Entry \cup {NoEntry}]
    /\ kpc \in CloserAt
    /\ sent \in [Producers -> 0..MaxPush]

(* While the queue is open nobody sleeps on a raised flag_. *)
SleepersSawFlagDown ==
    ~completed /\ (\E c \in Consumers : cpc[c] = "wait") => flag <= 0

(* A producer that is about to enqueue has counted its push. *)
PushCounted == \A p \in Producers : ppc[p] = "push" => sent[p] > 0

(* The closer's place in terminate() or completed() says what it has set, and
   terminate() has the mutex from its first store to its notification. *)
CloserSet ==
    /\ (kpc \in {"idle", "terminating"}) = ~completed
    /\ terminated => kpc \in {"terminating", "notifying", "closed"}
    /\ kpc \in {"terminating", "notifying"}
          => terminated /\ \A c \in Consumers : cpc[c] # "locked"
    /\ kpc \in {"reset", "closed"}
          => \A c \in Consumers : cpc[c] \notin {"locked", "wait"}

IInv ==
    /\ Typed
    /\ PushCounted
    /\ FlagAccounting
    /\ WaitingAccounting
    /\ SleepersSawFlagDown
    /\ CloserSet

LEMMA InitIInv == Init => IInv
<1> SUFFICES ASSUME Init PROVE IInv
  OBVIOUS
<1>1. Typed
  <2>1. queue \in Seq(Entry)
    BY DEF Init
  <2>2. held \in [Consumers -> Entry \cup {NoEntry}]
    BY DEF Init
  <2>3. sent \in [Producers -> 0..MaxPush]
    BY MaxPushNat DEF Init
  <2>4. terminated \in BOOLEAN /\ completed \in BOOLEAN
    BY DEF Init
  <2>5. flag \in Int
    BY DEF Init
  <2>6. /\ ppc \in [Producers -> ProducerAt]
        /\ cpc \in [Consumers -> ConsumerAt]
        /\ mode \in [Consumers -> PopMode]
        /\ kpc \in CloserAt
    BY DEF Init, ProducerAt, ConsumerAt, CloserAt, PopMode
  <2> QED
    BY <2>1, <2>2, <2>3, <2>4, <2>5, <2>6 DEF Typed
<1>2. PushCounted /\ SleepersSawFlagDown /\ CloserSet
  BY DEF Init, PushCounted, SleepersSawFlagDown, CloserSet
<1>3. Raising = {} /\ Lowering = {} /\ Popping = {}
  BY DEF Init, Raising, Lowering, Popping, InPop
<1>4. FlagAccounting /\ WaitingAccounting
  BY <1>3, FS_EmptySet DEF Init, FlagAccounting, WaitingAccounting
<1> QED
  BY <1>1, <1>2, <1>4 DEF IInv

(* Every step keeps the state well typed. *)
LEMMA NextTyped == Typed /\ PushCounted /\ [Next]_vars => Typed'
<1> SUFFICES ASSUME Typed, PushCounted, [Next]_vars PROVE Typed'
  OBVIOUS
<1> USE MaxPushNat DEF Typed, ProducerAt, ConsumerAt, CloserAt, PopMode
<1>1. ASSUME NEW p \in Producers, PushLoadCompleted(p) PROVE Typed'
  <2>1. sent' \in [Producers -> 0..MaxPush]
    BY <1>1 DEF PushLoadCompleted
  <2>2. ppc' \in [Producers -> ProducerAt]
    BY <1>1 DEF PushLoadCompleted
  <2> QED
    BY <1>1, <2>1, <2>2 DEF PushLoadCompleted
<1>2. ASSUME NEW p \in Producers, PushEntry(p) PROVE Typed'
  <2>1. <<p, sent[p]>> \in Entry
    BY <1>2 DEF PushEntry, PushCounted, Entry
  <2> QED
    BY <1>2, <2>1 DEF PushEntry
<1>3. ASSUME NEW p \in Producers, PushRaiseFlag(p) PROVE Typed'
  BY <1>3 DEF PushRaiseFlag, Notified
<1>4. ASSUME NEW c \in Consumers, PopEnter(c) \/ PopAgain(c) PROVE Typed'
  BY <1>4 DEF PopEnter, PopAgain
<1>5. ASSUME NEW c \in Consumers, PopLoadTerminated(c) PROVE Typed'
  BY <1>5 DEF PopLoadTerminated
<1>6. ASSUME NEW c \in Consumers, PopEntry(c) PROVE Typed'
  <2>1. Head(queue) \in Entry /\ Tail(queue) \in Seq(Entry)
    BY <1>6 DEF PopEntry
  <2> QED
    BY <1>6, <2>1 DEF PopEntry
<1>7. ASSUME NEW c \in Consumers, PopIsEmpty(c) PROVE Typed'
  BY <1>7 DEF PopIsEmpty
<1>8. ASSUME NEW c \in Consumers, PopLeaveWaiting(c) PROVE Typed'
  BY <1>8 DEF PopLeaveWaiting
<1>9. ASSUME NEW c \in Consumers, PopLowerFlag(c) PROVE Typed'
  BY <1>9 DEF PopLowerFlag
<1>10. ASSUME NEW c \in Consumers, PopWaitOnData(c) PROVE Typed'
  BY <1>10 DEF PopWaitOnData
<1>17. ASSUME NEW c \in Consumers, PopLoadCompleted(c) PROVE Typed'
  BY <1>17 DEF PopLoadCompleted
<1>11. ASSUME NEW c \in Consumers, PopSpuriousWakeup(c) PROVE Typed'
  BY <1>11 DEF PopSpuriousWakeup
<1>12. CASE TerminateStore \/ TerminateComplete \/ TerminateNotify
  BY <1>12 DEF TerminateStore, TerminateComplete, TerminateNotify, Notified
<1>13. CASE CompletedStore
  BY <1>13 DEF CompletedStore
<1>14. CASE CompletedSpin
  BY <1>14 DEF CompletedSpin, Notified
<1>15. CASE CompletedResetFlag
  BY <1>15 DEF CompletedResetFlag
<1>16. CASE UNCHANGED vars
  BY <1>16 DEF vars
<1> QED
  BY <1>1, <1>2, <1>3, <1>4, <1>5, <1>6, <1>7, <1>8, <1>9, <1>10, <1>11,
     <1>12, <1>13, <1>14, <1>15, <1>16, <1>17
  DEF Next, Producer, Consumer, PopStep, Closer, CloseStep

(* Every step keeps the accounting: for each action, how it moves a thread in
   or out of the three sets, then the counters, then the sleepers. *)
LEMMA NextIInv == IInv /\ [Next]_vars => IInv'
<1> SUFFICES ASSUME IInv, [Next]_vars PROVE IInv'
  OBVIOUS
<1> USE DEF Typed, MutexFree, ProducerAt, ConsumerAt, CloserAt
<1> DEFINE Kept == /\ PushCounted /\ FlagAccounting /\ WaitingAccounting
                   /\ SleepersSawFlagDown /\ CloserSet
<1>t. Typed /\ Typed' /\ PushCounted
  BY NextTyped DEF IInv
<1>s. /\ IsFiniteSet(Raising) /\ IsFiniteSet(Lowering) /\ IsFiniteSet(Popping)
      /\ Cardinality(Raising) \in Nat
      /\ Cardinality(Lowering) \in Nat
      /\ Cardinality(Popping) \in Nat
  BY ThreadSets
<1>n. flag \in Int /\ Len(queue) \in Nat
  BY <1>t
<1>i. FlagAccounting /\ WaitingAccounting /\ SleepersSawFlagDown /\ CloserSet
  BY DEF IInv
<1>1. ASSUME NEW p \in Producers, PushLoadCompleted(p) PROVE Kept'
  <2>1. Raising' = Raising /\ Lowering' = Lowering /\ Popping' = Popping
    BY <1>1, <1>t DEF PushLoadCompleted, Raising, Lowering, Popping, InPop
  <2>2. FlagAccounting' /\ WaitingAccounting'
    BY <1>1, <1>n, <1>s, <1>i, <2>1 DEF PushLoadCompleted, FlagAccounting, WaitingAccounting
  <2>3. PushCounted' /\ SleepersSawFlagDown' /\ CloserSet'
    BY <1>1, <1>t, <1>i DEF PushLoadCompleted, PushCounted, SleepersSawFlagDown, CloserSet
  <2> QED
    BY <2>2, <2>3
<1>2. ASSUME NEW p \in Producers, PushEntry(p) PROVE Kept'
  <2>1. Lowering' = Lowering /\ Popping' = Popping
    BY <1>2, <1>t DEF PushEntry, Raising, Lowering, Popping, InPop
  <2>2. p \notin Raising /\ Raising' = Raising \cup {p}
    BY <1>2, <1>t DEF PushEntry, Raising, InPop
  <2>3. Cardinality(Raising') = Cardinality(Raising) + 1
    BY <2>2, <1>s, CardinalityJoin
  <2>4. FlagAccounting' /\ WaitingAccounting'
    BY <1>2, <1>t, <1>s, <1>i, <2>1, <2>3 DEF PushEntry, FlagAccounting, WaitingAccounting
  <2>5. PushCounted' /\ SleepersSawFlagDown' /\ CloserSet'
    BY <1>2, <1>t, <1>i DEF PushEntry, PushCounted, SleepersSawFlagDown, CloserSet
  <2> QED
    BY <2>4, <2>5
<1>3. ASSUME NEW p \in Producers, PushRaiseFlag(p) PROVE Kept'
  <2>1. Lowering' = Lowering /\ Popping' = Popping
    BY <1>3, <1>t DEF PushRaiseFlag, Notified, Raising, Lowering, Popping, InPop
  <2>2. p \in Raising /\ Raising' = Raising \ {p}
    BY <1>3, <1>t DEF PushRaiseFlag, Notified, Raising, InPop
  <2>3. Cardinality(Raising') = Cardinality(Raising) - 1
    BY <2>2, <1>s, CardinalityLeave
  <2>4. FlagAccounting' /\ WaitingAccounting'
    BY <1>3, <1>n, <1>s, <1>i, <2>1, <2>3 DEF PushRaiseFlag, FlagAccounting, WaitingAccounting
  <2>5. PushCounted' /\ SleepersSawFlagDown' /\ CloserSet'
    BY <1>3, <1>t, <1>i DEF PushRaiseFlag, Notified, PushCounted, SleepersSawFlagDown, CloserSet
  <2> QED
    BY <2>4, <2>5
<1>4. ASSUME NEW c \in Consumers, PopEnter(c) \/ PopAgain(c) PROVE Kept'
  <2>1. Raising' = Raising /\ Lowering' = Lowering
    BY <1>4, <1>t DEF PopEnter, PopAgain, Raising, Lowering, Popping, InPop
  <2>2. c \notin Popping /\ Popping' = Popping \cup {c}
    BY <1>4, <1>t DEF PopEnter, PopAgain, Popping, InPop
  <2>3. Cardinality(Popping') = Cardinality(Popping) + 1
    BY <2>2, <1>s, CardinalityJoin
  <2>4. FlagAccounting' /\ WaitingAccounting'
    BY <1>4, <1>n, <1>s, <1>i, <2>1, <2>3 DEF PopEnter, PopAgain, FlagAccounting, WaitingAccounting
  <2>5. PushCounted' /\ SleepersSawFlagDown' /\ CloserSet'
    BY <1>4, <1>t, <1>i DEF PopEnter, PopAgain, PushCounted, SleepersSawFlagDown, CloserSet
  <2> QED
    BY <2>4, <2>5
<1>5. ASSUME NEW c \in Consumers, PopLoadTerminated(c) PROVE Kept'
  <2>1. CASE terminated
   <3>1. Raising' = Raising /\ Lowering' = Lowering
     BY <1>5, <2>1, <1>t DEF PopLoadTerminated, Raising, Lowering, Popping, InPop
   <3>2. c \in Popping /\ Popping' = Popping \ {c}
     BY <1>5, <2>1, <1>t DEF PopLoadTerminated, Popping, InPop
   <3>3. Cardinality(Popping') = Cardinality(Popping) - 1
     BY <3>2, <1>s, CardinalityLeave
   <3>4. FlagAccounting' /\ WaitingAccounting'
     BY <1>5, <2>1, <1>n, <1>s, <1>i, <3>1, <3>3 DEF PopLoadTerminated, FlagAccounting, WaitingAccounting
   <3>5. PushCounted' /\ SleepersSawFlagDown' /\ CloserSet'
     BY <1>5, <2>1, <1>t, <1>i DEF PopLoadTerminated, PushCounted, SleepersSawFlagDown, CloserSet
   <3> QED
     BY <3>4, <3>5
  <2>2. CASE ~(terminated)
   <3>1. Raising' = Raising /\ Lowering' = Lowering /\ Popping' = Popping
     BY <1>5, <2>2, <1>t DEF PopLoadTerminated, Raising, Lowering, Popping, InPop
   <3>2. FlagAccounting' /\ WaitingAccounting'
     BY <1>5, <2>2, <1>n, <1>s, <1>i, <3>1 DEF PopLoadTerminated, FlagAccounting, WaitingAccounting
   <3>3. PushCounted' /\ SleepersSawFlagDown' /\ CloserSet'
     BY <1>5, <2>2, <1>t, <1>i DEF PopLoadTerminated, PushCounted, SleepersSawFlagDown, CloserSet
   <3> QED
     BY <3>2, <3>3
  <2> QED
    BY <2>1, <2>2
<1>6. ASSUME NEW c \in Consumers, PopEntry(c) PROVE Kept'
  <2>1. Raising' = Raising /\ Popping' = Popping
    BY <1>6, <1>t DEF PopEntry, Raising, Lowering, Popping, InPop
  <2>2. c \notin Lowering /\ Lowering' = Lowering \cup {c}
    BY <1>6, <1>t DEF PopEntry, Lowering, InPop
  <2>3. Cardinality(Lowering') = Cardinality(Lowering) + 1
    BY <2>2, <1>s, CardinalityJoin
  <2>4. FlagAccounting' /\ WaitingAccounting'
    BY <1>6, <1>t, <1>s, <1>i, <2>1, <2>3 DEF PopEntry, FlagAccounting, WaitingAccounting
  <2>5. PushCounted' /\ SleepersSawFlagDown' /\ CloserSet'
    BY <1>6, <1>t, <1>i DEF PopEntry, PushCounted, SleepersSawFlagDown, CloserSet
  <2> QED
    BY <2>4, <2>5
<1>7. ASSUME NEW c \in Consumers, PopIsEmpty(c) PROVE Kept'
  <2>1. CASE mode[c] # "blocking"
   <3>1. Raising' = Raising /\ Lowering' = Lowering
     BY <1>7, <2>1, <1>t DEF PopIsEmpty, Raising, Lowering, Popping, InPop
   <3>2. c \in Popping /\ Popping' = Popping \ {c}
     BY <1>7, <2>1, <1>t DEF PopIsEmpty, Popping, InPop
   <3>3. Cardinality(Popping') = Cardinality(Popping) - 1
     BY <3>2, <1>s, CardinalityLeave
   <3>4. FlagAccounting' /\ WaitingAccounting'
     BY <1>7, <2>1, <1>n, <1>s, <1>i, <3>1, <3>3 DEF PopIsEmpty, FlagAccounting, WaitingAccounting
   <3>5. PushCounted' /\ SleepersSawFlagDown' /\ CloserSet'
     BY <1>7, <2>1, <1>t, <1>i DEF PopIsEmpty, PushCounted, SleepersSawFlagDown, CloserSet
   <3> QED
     BY <3>4, <3>5
  <2>2. CASE ~(mode[c] # "blocking")
   <3>1. Raising' = Raising /\ Lowering' = Lowering /\ Popping' = Popping
     BY <1>7, <2>2, <1>t DEF PopIsEmpty, Raising, Lowering, Popping, InPop
   <3>2. FlagAccounting' /\ WaitingAccounting'
     BY <1>7, <2>2, <1>n, <1>s, <1>i, <3>1 DEF PopIsEmpty, FlagAccounting, WaitingAccounting
   <3>3. PushCounted' /\ SleepersSawFlagDown' /\ CloserSet'
     BY <1>7, <2>2, <1>t, <1>i DEF PopIsEmpty, PushCounted, SleepersSawFlagDown, CloserSet
   <3> QED
     BY <3>2, <3>3
  <2> QED
    BY <2>1, <2>2
<1>8. ASSUME NEW c \in Consumers, PopLeaveWaiting(c) PROVE Kept'
  <2>1. Raising' = Raising /\ Lowering' = Lowering
    BY <1>8, <1>t DEF PopLeaveWaiting, Raising, Lowering, Popping, InPop
  <2>2. c \in Popping /\ Popping' = Popping \ {c}
    BY <1>8, <1>t DEF PopLeaveWaiting, Popping, InPop
  <2>3. Cardinality(Popping') = Cardinality(Popping) - 1
    BY <2>2, <1>s, CardinalityLeave
  <2>4. FlagAccounting' /\ WaitingAccounting'
    BY <1>8, <1>n, <1>s, <1>i, <2>1, <2>3 DEF PopLeaveWaiting, FlagAccounting, WaitingAccounting
  <2>5. PushCounted' /\ SleepersSawFlagDown' /\ CloserSet'
    BY <1>8, <1>t, <1>i DEF PopLeaveWaiting, PushCounted, SleepersSawFlagDown, CloserSet
  <2> QED
    BY <2>4, <2>5
<1>9. ASSUME NEW c \in Consumers, PopLowerFlag(c) PROVE Kept'
  <2>1. Raising' = Raising /\ Popping' = Popping
    BY <1>9, <1>t DEF PopLowerFlag, Raising, Lowering, Popping, InPop
  <2>2. c \in Lowering /\ Lowering' = Lowering \ {c}
    BY <1>9, <1>t DEF PopLowerFlag, Lowering, InPop
  <2>3. Cardinality(Lowering') = Cardinality(Lowering) - 1
    BY <2>2, <1>s, CardinalityLeave
  <2>4. FlagAccounting' /\ WaitingAccounting'
    BY <1>9, <1>n, <1>s, <1>i, <2>1, <2>3 DEF PopLowerFlag, FlagAccounting, WaitingAccounting
  <2>5. PushCounted' /\ SleepersSawFlagDown' /\ CloserSet'
    BY <1>9, <1>t, <1>i DEF PopLowerFlag, PushCounted, SleepersSawFlagDown, CloserSet
  <2> QED
    BY <2>4, <2>5
<1>17. ASSUME NEW c \in Consumers, PopLoadCompleted(c) PROVE Kept'
  <2>1. CASE completed
   <3>1. Raising' = Raising /\ Lowering' = Lowering
     BY <1>17, <2>1, <1>t DEF PopLoadCompleted, Raising, Lowering, Popping, InPop
   <3>2. c \in Popping /\ Popping' = Popping \ {c}
     BY <1>17, <2>1, <1>t DEF PopLoadCompleted, Popping, InPop
   <3>3. Cardinality(Popping') = Cardinality(Popping) - 1
     BY <3>2, <1>s, CardinalityLeave
   <3>4. FlagAccounting' /\ WaitingAccounting'
     BY <1>17, <2>1, <1>n, <1>s, <1>i, <3>1, <3>3 DEF PopLoadCompleted, FlagAccounting, WaitingAccounting
   <3>5. PushCounted' /\ SleepersSawFlagDown' /\ CloserSet'
     BY <1>17, <2>1, <1>t, <1>i DEF PopLoadCompleted, PushCounted, SleepersSawFlagDown, CloserSet
   <3> QED
     BY <3>4, <3>5
  <2>2. CASE ~(completed)
   <3>1. Raising' = Raising /\ Lowering' = Lowering /\ Popping' = Popping
     BY <1>17, <2>2, <1>t DEF PopLoadCompleted, Raising, Lowering, Popping, InPop
   <3>2. FlagAccounting' /\ WaitingAccounting'
     BY <1>17, <2>2, <1>n, <1>s, <1>i, <3>1 DEF PopLoadCompleted, FlagAccounting, WaitingAccounting
   <3>3. PushCounted' /\ SleepersSawFlagDown' /\ CloserSet'
     BY <1>17, <2>2, <1>t, <1>i DEF PopLoadCompleted, PushCounted, SleepersSawFlagDown, CloserSet
   <3> QED
     BY <3>2, <3>3
  <2> QED
    BY <2>1, <2>2
<1>10. ASSUME NEW c \in Consumers, PopWaitOnData(c) PROVE Kept'
  <2>1. Raising' = Raising /\ Lowering' = Lowering /\ Popping' = Popping
    BY <1>10, <1>t DEF PopWaitOnData, Raising, Lowering, Popping, InPop
  <2>2. FlagAccounting' /\ WaitingAccounting'
    BY <1>10, <1>n, <1>s, <1>i, <2>1 DEF PopWaitOnData, FlagAccounting, WaitingAccounting
  <2>3. PushCounted' /\ SleepersSawFlagDown' /\ CloserSet'
    BY <1>10, <1>t, <1>i DEF PopWaitOnData, PushCounted, SleepersSawFlagDown, CloserSet
  <2> QED
    BY <2>2, <2>3
<1>11. ASSUME NEW c \in Consumers, PopSpuriousWakeup(c) PROVE Kept'
  <2>1. Raising' = Raising /\ Lowering' = Lowering /\ Popping' = Popping
    BY <1>11, <1>t DEF PopSpuriousWakeup, Raising, Lowering, Popping, InPop
  <2>2. FlagAccounting' /\ WaitingAccounting'
    BY <1>11, <1>n, <1>s, <1>i, <2>1 DEF PopSpuriousWakeup, FlagAccounting, WaitingAccounting
  <2>3. PushCounted' /\ SleepersSawFlagDown' /\ CloserSet'
    BY <1>11, <1>t, <1>i DEF PopSpuriousWakeup, PushCounted, SleepersSawFlagDown, CloserSet
  <2> QED
    BY <2>2, <2>3
<1>12. ASSUME TerminateStore PROVE Kept'
  <2>1. Raising' = Raising /\ Lowering' = Lowering /\ Popping' = Popping
    BY <1>12, <1>t DEF TerminateStore, Raising, Lowering, Popping, InPop
  <2>2. FlagAccounting' /\ WaitingAccounting'
    BY <1>12, <1>n, <1>s, <1>i, <2>1 DEF TerminateStore, FlagAccounting, WaitingAccounting
  <2>3. PushCounted' /\ SleepersSawFlagDown' /\ CloserSet'
    BY <1>12, <1>t, <1>i DEF TerminateStore, PushCounted, SleepersSawFlagDown, CloserSet
  <2> QED
    BY <2>2, <2>3
<1>19. ASSUME TerminateComplete PROVE Kept'
  <2>1. Raising' = Raising /\ Lowering' = Lowering /\ Popping' = Popping
    BY <1>19, <1>t DEF TerminateComplete, Raising, Lowering, Popping, InPop
  <2>2. FlagAccounting' /\ WaitingAccounting'
    BY <1>19, <1>n, <1>s, <1>i, <2>1 DEF TerminateComplete, FlagAccounting, WaitingAccounting
  <2>3. PushCounted' /\ SleepersSawFlagDown' /\ CloserSet'
    BY <1>19, <1>t, <1>i DEF TerminateComplete, PushCounted, SleepersSawFlagDown, CloserSet
  <2> QED
    BY <2>2, <2>3
<1>20. ASSUME TerminateNotify PROVE Kept'
  <2>1. Raising' = Raising /\ Lowering' = Lowering /\ Popping' = Popping
    BY <1>20, <1>t DEF TerminateNotify, Notified, Raising, Lowering, Popping, InPop
  <2>2. FlagAccounting' /\ WaitingAccounting'
    BY <1>20, <1>n, <1>s, <1>i, <2>1 DEF TerminateNotify, FlagAccounting, WaitingAccounting
  <2>3. PushCounted' /\ SleepersSawFlagDown' /\ CloserSet'
    BY <1>20, <1>t, <1>i DEF TerminateNotify, Notified, PushCounted, SleepersSawFlagDown, CloserSet
  <2> QED
    BY <2>2, <2>3
<1>13. ASSUME CompletedStore PROVE Kept'
  <2>1. Raising' = Raising /\ Lowering' = Lowering /\ Popping' = Popping
    BY <1>13, <1>t DEF CompletedStore, Raising, Lowering, Popping, InPop
  <2>2. FlagAccounting' /\ WaitingAccounting'
    BY <1>13, <1>n, <1>s, <1>i, <2>1 DEF CompletedStore, FlagAccounting, WaitingAccounting
  <2>3. PushCounted' /\ SleepersSawFlagDown' /\ CloserSet'
    BY <1>13, <1>t, <1>i DEF CompletedStore, PushCounted, SleepersSawFlagDown, CloserSet
  <2> QED
    BY <2>2, <2>3
<1>14. ASSUME CompletedSpin PROVE Kept'
  <2>1. Raising' = Raising /\ Lowering' = Lowering /\ Popping' = Popping
    BY <1>14, <1>t DEF CompletedSpin, Notified, Raising, Lowering, Popping, InPop
  <2>2. FlagAccounting' /\ WaitingAccounting'
    BY <1>14, <1>n, <1>s, <1>i, <2>1 DEF CompletedSpin, FlagAccounting, WaitingAccounting
  <2>0. waiting = 0 => \A c \in Consumers : cpc[c] \notin {"locked", "wait"}
    BY <1>s, <1>i, FS_EmptySet DEF WaitingAccounting, Popping, InPop
  <2>3. PushCounted' /\ SleepersSawFlagDown' /\ CloserSet'
    BY <1>14, <1>t, <1>s, <1>i, <2>0
    DEF CompletedSpin, Notified, WaitingAccounting, PushCounted, SleepersSawFlagDown, CloserSet
  <2> QED
    BY <2>2, <2>3
<1>15. ASSUME CompletedResetFlag PROVE Kept'
  <2>1. Raising' = Raising /\ Lowering' = Lowering /\ Popping' = Popping
    BY <1>15, <1>t DEF CompletedResetFlag, Raising, Lowering, Popping, InPop
  <2>2. FlagAccounting' /\ WaitingAccounting'
    BY <1>15, <1>n, <1>s, <1>i, <2>1 
    DEF CompletedResetFlag, FlagAccounting, WaitingAccounting, CloserSet
  <2>3. PushCounted' /\ SleepersSawFlagDown' /\ CloserSet'
    BY <1>15, <1>t, <1>i DEF CompletedResetFlag, PushCounted, SleepersSawFlagDown, CloserSet
  <2> QED
    BY <2>2, <2>3
<1>16. ASSUME UNCHANGED vars PROVE Kept'
  <2>1. Raising' = Raising /\ Lowering' = Lowering /\ Popping' = Popping
    BY <1>16, <1>t DEF vars, Raising, Lowering, Popping, InPop
  <2>2. FlagAccounting' /\ WaitingAccounting'
    BY <1>16, <1>n, <1>s, <1>i, <2>1 DEF vars, FlagAccounting, WaitingAccounting
  <2>3. PushCounted' /\ SleepersSawFlagDown' /\ CloserSet'
    BY <1>16, <1>t, <1>i DEF vars, PushCounted, SleepersSawFlagDown, CloserSet
  <2> QED
    BY <2>2, <2>3
<1>18. Kept'
  BY <1>1, <1>2, <1>3, <1>4, <1>5, <1>6, <1>7, <1>8, <1>9, <1>10, <1>11, <1>12, <1>13, <1>14, <1>15, <1>16, <1>17,
     <1>19, <1>20
  DEF Next, Producer, Consumer, PopStep, Closer, CloseStep
<1> QED
  BY <1>18, <1>t DEF IInv
-----------------------------------------------------------------------------
LEMMA Invariance == Spec => []IInv
  BY InitIInv, NextIInv, PTL DEF Spec

(* The container's state stays well typed, for any threads and any number of
   pushes. *)
THEOREM TypeCorrect == Spec => []TypeOK
<1>1. IInv => TypeOK
  BY ThreadSets DEF IInv, Typed, WaitingAccounting, TypeOK
<1> QED
  BY <1>1, Invariance, PTL

(* flag_ counts the queued entries up to the pushes and pops in flight, and
   waiting_ the threads inside pop_front. *)
THEOREM CountersCorrect == Spec => []CountersAgree
<1>1. IInv => CountersAgree
  BY DEF IInv, CountersAgree
<1> QED
  BY <1>1, Invariance, PTL

(* No consumer sleeps next to a queued entry with no notification on its way,
   however pushes and pops interleave. *)
THEOREM WakeupsNotLost == Spec => []NoLostWakeup
<1>1. IInv => NoLostWakeup
  <2> SUFFICES ASSUME IInv, ~completed, queue # <<>>,
                      NEW c \in Consumers, cpc[c] = "wait"
               PROVE  Raising # {}
    BY DEF NoLostWakeup
  <2>1. flag <= 0 /\ flag \in Int
    BY DEF IInv, SleepersSawFlagDown, Typed
  <2>2. Len(queue) \in Nat /\ Len(queue) > 0
    BY DEF IInv, Typed
  <2>3. Cardinality(Raising) > 0
    BY <2>1, <2>2, ThreadSets DEF IInv, FlagAccounting
  <2> QED
    BY <2>3, FS_EmptySet
<1> QED
  BY <1>1, Invariance, PTL

(* completed() leaves no thread asleep in the queue it has closed. *)
THEOREM SleepersReleased == Spec => []NoSleeperLeftBehind
<1>1. IInv => NoSleeperLeftBehind
  BY DEF IInv, CloserSet, NoSleeperLeftBehind
<1> QED
  BY <1>1, Invariance, PTL

-----------------------------------------------------------------------------
(* The refinement of ClosableQueue. *)

(* An entry is never mistaken for "nothing". *)
LEMMA EntryIsNotNoEntry == \A p \in Producers, n \in Nat : <<p, n>> # NoEntry
BY DEF NoEntry

(* A step that changes neither the entries, nor what a thread was let in with
   or knows, nor the closing flags, is a stuttering step of the abstract
   queue. *)
LEMMA InvisibleStep ==
    ASSUME UNCHANGED <<queue, completed, terminated>>,
           AbstractPushing' = AbstractPushing,
           AbstractPopping' = AbstractPopping
    PROVE  [Abstract!Next]_(Abstract!vars)
<1>1. AbstractClosed' = AbstractClosed
  BY DEF AbstractClosed
<1> QED
  BY <1>1 DEF Abstract!vars

(* Producers and consumers that stay where the abstraction cannot tell the
   difference. *)
LEMMA SamePushing ==
    ASSUME ppc' = ppc, sent' = sent
    PROVE  AbstractPushing' = AbstractPushing
BY DEF AbstractPushing

LEMMA SamePopping ==
    ASSUME cpc' = cpc
    PROVE  AbstractPopping' = AbstractPopping
BY DEF AbstractPopping

LEMMA NotifiedIsInvisible ==
    ASSUME Typed, cpc' = Notified
    PROVE  AbstractPopping' = AbstractPopping
BY DEF Typed, Notified, AbstractPopping, ConsumerAt

(* A step of the concrete queue is a step of the abstract one or a stutter. *)
LEMMA NextSimulates ==
    IInv /\ [Next]_vars => [Abstract!Next]_(Abstract!vars)
<1> SUFFICES ASSUME IInv, [Next]_vars
             PROVE  [Abstract!Next]_(Abstract!vars)
  OBVIOUS
<1> USE DEF IInv
<1>1. ASSUME NEW p \in Producers, PushLoadCompleted(p)
      PROVE  [Abstract!Next]_(Abstract!vars)
  <2>1. AbstractPopping' = AbstractPopping /\ AbstractClosed' = AbstractClosed
    BY <1>1 DEF PushLoadCompleted, AbstractPopping, AbstractClosed
  <2>2. CASE completed
    <3>1. AbstractPushing' = AbstractPushing
      BY <1>1, <2>2 DEF PushLoadCompleted, AbstractPushing, Typed
    <3> QED
      BY <1>1, <3>1, <2>1, InvisibleStep DEF PushLoadCompleted
  <2>3. CASE ~completed
    <3>1. AbstractClosed \in {"open", "terminating"}
      BY <2>3 DEF AbstractClosed, Typed
    <3>2. <<p, sent[p] + 1>> \in Entry
      BY <1>1, MaxPushNat DEF PushLoadCompleted, Entry, Typed
    <3>3. AbstractPushing[p] = NoEntry
      BY <1>1 DEF PushLoadCompleted, AbstractPushing
    <3>4. AbstractPushing' =
            [AbstractPushing EXCEPT ![p] = <<p, sent[p] + 1>>]
      BY <1>1, <2>3 DEF PushLoadCompleted, AbstractPushing, Typed
    <3>5. Abstract!Admit(p, <<p, sent[p] + 1>>)
      BY <1>1, <2>1, <3>1, <3>3, <3>4 DEF PushLoadCompleted, Abstract!Admit, Abstract!Admitting
    <3> QED
      BY <3>2, <3>5 DEF Abstract!Next
  <2> QED
    BY <2>2, <2>3
<1>2. ASSUME NEW p \in Producers, PushEntry(p)
      PROVE  [Abstract!Next]_(Abstract!vars)
  <2>1. AbstractPopping' = AbstractPopping /\ AbstractClosed' = AbstractClosed
    BY <1>2 DEF PushEntry, AbstractPopping, AbstractClosed
  <2>2. AbstractPushing[p] = <<p, sent[p]>>
    BY <1>2 DEF PushEntry, AbstractPushing
  <2>3. AbstractPushing[p] # NoEntry
    BY <2>2, EntryIsNotNoEntry DEF Typed
  <2>4. AbstractPushing' = [AbstractPushing EXCEPT ![p] = NoEntry]
    BY <1>2 DEF PushEntry, AbstractPushing, Typed
  <2>5. Abstract!Enqueue(p)
    BY <1>2, <2>1, <2>2, <2>3, <2>4 DEF PushEntry, Abstract!Enqueue
  <2> QED
    BY <2>5 DEF Abstract!Next
<1>3. ASSUME NEW p \in Producers, PushRaiseFlag(p)
      PROVE  [Abstract!Next]_(Abstract!vars)
  <2>1. AbstractPopping' = AbstractPopping
    BY <1>3, NotifiedIsInvisible DEF PushRaiseFlag
  <2>2. AbstractPushing' = AbstractPushing
    BY <1>3 DEF PushRaiseFlag, AbstractPushing, Typed
  <2> QED
    BY <1>3, <2>1, <2>2, InvisibleStep DEF PushRaiseFlag
<1>4. ASSUME NEW c \in Consumers,
             PopEnter(c) \/ PopLeaveWaiting(c) \/ PopLowerFlag(c)
                \/ PopWaitOnData(c) \/ PopSpuriousWakeup(c)
      PROVE  [Abstract!Next]_(Abstract!vars)
  <2>1. AbstractPopping' = AbstractPopping
    BY <1>4 DEF PopEnter, PopLeaveWaiting, PopLowerFlag, PopWaitOnData,
                PopSpuriousWakeup, AbstractPopping, Typed
  <2>2. AbstractPushing' = AbstractPushing
    BY <1>4, SamePushing DEF PopEnter, PopLeaveWaiting, PopLowerFlag,
                             PopWaitOnData, PopSpuriousWakeup
  <2>3. UNCHANGED <<queue, completed, terminated>>
    BY <1>4 DEF PopEnter, PopLeaveWaiting, PopLowerFlag, PopWaitOnData,
                PopSpuriousWakeup
  <2> QED
    BY <2>1, <2>2, <2>3, InvisibleStep
<1>5. ASSUME NEW c \in Consumers, PopLoadTerminated(c)
      PROVE  [Abstract!Next]_(Abstract!vars)
  <2>1. AbstractPushing' = AbstractPushing /\ AbstractClosed' = AbstractClosed
    BY <1>5 DEF PopLoadTerminated, AbstractPushing, AbstractClosed
  <2>2. CASE terminated
    <3>1. /\ AbstractClosed \in {"terminating", "terminated"}
          /\ AbstractPopping[c] = "ready"
      BY <1>5, <2>2 DEF PopLoadTerminated, AbstractClosed, AbstractPopping, Typed
    <3>2. AbstractPopping' = [AbstractPopping EXCEPT ![c] = "stopped"]
      BY <1>5, <2>2 DEF PopLoadTerminated, AbstractPopping, Typed
    <3>3. Abstract!Stop(c)
      BY <1>5, <2>1, <3>1, <3>2 DEF PopLoadTerminated, Abstract!Stop
    <3> QED
      BY <3>3 DEF Abstract!Next
  <2>3. CASE ~terminated
    <3>1. AbstractPopping' = AbstractPopping
      BY <1>5, <2>3 DEF PopLoadTerminated, AbstractPopping, Typed
    <3> QED
      BY <1>5, <2>1, <3>1, InvisibleStep DEF PopLoadTerminated
  <2> QED
    BY <2>2, <2>3
<1>6. ASSUME NEW c \in Consumers, PopEntry(c)
      PROVE  [Abstract!Next]_(Abstract!vars)
  <2>1. AbstractPushing' = AbstractPushing /\ AbstractClosed' = AbstractClosed
    BY <1>6 DEF PopEntry, AbstractPushing, AbstractClosed
  <2>2. AbstractPopping' = AbstractPopping /\ AbstractPopping[c] = "ready"
    BY <1>6 DEF PopEntry, AbstractPopping, Typed
  <2>3. Abstract!Take(c)
    BY <1>6, <2>1, <2>2 DEF PopEntry, Abstract!Take
  <2> QED
    BY <2>3 DEF Abstract!Next
<1>7. ASSUME NEW c \in Consumers, PopIsEmpty(c)
      PROVE  [Abstract!Next]_(Abstract!vars)
  <2>1. AbstractPushing' = AbstractPushing /\ AbstractClosed' = AbstractClosed
    BY <1>7 DEF PopIsEmpty, AbstractPushing, AbstractClosed
  <2>2. CASE mode[c] = "blocking"
    <3>1. /\ AbstractPopping[c] = "ready"
          /\ AbstractPopping' = [AbstractPopping EXCEPT ![c] = "sawEmpty"]
      BY <1>7, <2>2 DEF PopIsEmpty, AbstractPopping, Typed
    <3>2. Abstract!SeeEmpty(c)
      BY <1>7, <2>1, <3>1 DEF PopIsEmpty, Abstract!SeeEmpty
    <3> QED
      BY <3>2 DEF Abstract!Next
  <2>3. CASE mode[c] # "blocking"
    <3>1. AbstractPopping' = AbstractPopping
      BY <1>7, <2>3 DEF PopIsEmpty, AbstractPopping, Typed
    <3> QED
      BY <1>7, <2>1, <3>1, InvisibleStep DEF PopIsEmpty
  <2> QED
    BY <2>2, <2>3
<1>8. ASSUME NEW c \in Consumers, PopLoadCompleted(c)
      PROVE  [Abstract!Next]_(Abstract!vars)
  <2>1. AbstractPushing' = AbstractPushing /\ AbstractClosed' = AbstractClosed
    BY <1>8 DEF PopLoadCompleted, AbstractPushing, AbstractClosed
  <2>2. AbstractPopping[c] = "sawEmpty"
    BY <1>8 DEF PopLoadCompleted, AbstractPopping
  <2>3. CASE completed
    <3>1. AbstractPopping' = [AbstractPopping EXCEPT ![c] = "stopped"]
      BY <1>8, <2>3 DEF PopLoadCompleted, AbstractPopping, Typed
    <3>2. AbstractClosed \notin {"open", "terminating"}
      BY <2>3 DEF AbstractClosed, Typed
    <3>3. Abstract!Stop(c)
      BY <1>8, <2>1, <2>2, <3>1, <3>2
      DEF PopLoadCompleted, Abstract!Stop, Abstract!Admitting
    <3> QED
      BY <3>3 DEF Abstract!Next
  <2>4. CASE ~completed
    <3>1. AbstractPopping' = [AbstractPopping EXCEPT ![c] = "ready"]
      BY <1>8, <2>4 DEF PopLoadCompleted, AbstractPopping, Typed
    <3>2. AbstractClosed \in {"open", "terminating"}
      BY <2>4 DEF AbstractClosed, Typed
    <3>3. Abstract!LookAgain(c)
      BY <1>8, <2>1, <2>2, <3>1, <3>2
      DEF PopLoadCompleted, Abstract!LookAgain, Abstract!Admitting
    <3> QED
      BY <3>3 DEF Abstract!Next
  <2> QED
    BY <2>3, <2>4
<1>9. ASSUME TerminateStore \/ TerminateComplete \/ CompletedStore
      PROVE  [Abstract!Next]_(Abstract!vars)
  <2> USE DEF TerminateStore, TerminateComplete, CompletedStore
  <2>1. AbstractPushing' = AbstractPushing /\ AbstractPopping' = AbstractPopping
    BY <1>9, SamePushing, SamePopping
  <2>2. \/ AbstractClosed = "open" /\ AbstractClosed' \in {"completed", "terminating"}
        \/ AbstractClosed = "terminating" /\ AbstractClosed' = "terminated"
    BY <1>9 DEF AbstractClosed, CloserSet, Typed
  <2>3. Abstract!Close(AbstractClosed')
    BY <1>9, <2>1, <2>2 DEF Abstract!Close
  <2>4. AbstractClosed' \in Abstract!Closing
    BY <2>2 DEF Abstract!Closing
  <2> QED
    BY <2>3, <2>4 DEF Abstract!Next
<1>10. ASSUME CompletedSpin \/ CompletedResetFlag \/ TerminateNotify
       PROVE  [Abstract!Next]_(Abstract!vars)
  <2>1. AbstractPushing' = AbstractPushing
    BY <1>10 DEF CompletedSpin, CompletedResetFlag, TerminateNotify, AbstractPushing
  <2>2. AbstractPopping' = AbstractPopping
    BY <1>10, NotifiedIsInvisible, SamePopping
    DEF CompletedSpin, CompletedResetFlag, TerminateNotify
  <2> QED
    BY <1>10, <2>1, <2>2, InvisibleStep DEF CompletedSpin, CompletedResetFlag, TerminateNotify
<1>12. ASSUME NEW c \in Consumers, PopAgain(c)
       PROVE  [Abstract!Next]_(Abstract!vars)
  <2>1. AbstractPushing' = AbstractPushing /\ AbstractClosed' = AbstractClosed
    BY <1>12 DEF PopAgain, AbstractPushing, AbstractClosed
  <2>2. /\ AbstractPopping[c] = "stopped"
        /\ AbstractPopping' = [AbstractPopping EXCEPT ![c] = "ready"]
    BY <1>12 DEF PopAgain, AbstractPopping, Typed
  <2>3. Abstract!Again(c)
    BY <1>12, <2>1, <2>2 DEF PopAgain, Abstract!Again
  <2> QED
    BY <2>3 DEF Abstract!Next
<1>11. CASE UNCHANGED vars
  BY <1>11, InvisibleStep, SamePushing, SamePopping DEF vars
<1> QED
  BY <1>1, <1>2, <1>3, <1>4, <1>5, <1>6, <1>7, <1>8, <1>9, <1>10, <1>11,
     <1>12
  DEF Next, Producer, Consumer, PopStep, Closer, CloseStep

(* BlockingQueue implements ClosableQueue for any number of threads and any
   number of pushes: order, single delivery and the rules for stopping hold
   under every interleaving of its atomic accesses. *)
THEOREM QueueRefinement == Spec => ImplementsClosableQueue
<1>1. Init => Abstract!Init
  BY DEF Init, Abstract!Init, AbstractPushing, AbstractPopping, AbstractClosed
<1> QED
  BY <1>1, Invariance, NextSimulates, PTL
  DEF Spec, ImplementsClosableQueue, Abstract!Spec
=============================================================================
