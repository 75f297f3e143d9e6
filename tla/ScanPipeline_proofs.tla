------------------------- MODULE ScanPipeline_proofs -------------------------
(***************************************************************************)
(* Proofs about ScanPipeline, for any number of batches, blocks, workers,  *)
(* any queue depth, any spends that do not point forward, any unreadable   *)
(* blocks and any batch whose creation may throw.                          *)
(***************************************************************************)
EXTENDS ScanPipeline, SequenceTheorems, TLAPS

-----------------------------------------------------------------------------
(* The inductive invariant *)

(* The batches in the hands of each stage, told by where it is: the last one
   pushed by the scan thread, taken by the outputs stage, handed on by it and by
   the inputs stage, in SUBSSH, and counted as written. *)
Pushed == IF scanAt \in {"throttle", "wait"} THEN count + 1 ELSE count
OutTaken == IF outNext # None THEN outNext ELSE outBatch
OutPassed == IF outAt \in {"next", "join"} THEN outBatch - 1 ELSE outBatch
InPassed == IF inAt = "join" THEN inBatch - 1 ELSE inBatch
Stored == IF comAt \in {"stxo", "subssh"} THEN comBatch - 1 ELSE comBatch
Written == IF comAt \in {"stxo", "subssh", "finish"} THEN comBatch - 1 ELSE comBatch
InStxo == IF comAt = "stxo" THEN comBatch - 1 ELSE comBatch

(* A queue holds the batches after a up to b, in order. *)
Run(q, a, b) == a <= b /\ q = [i \in 1..(b - a) |-> a + i]

Places ==
    /\ scanAt \in {"batch", "throttle", "wait", "close", "join", "reported"}
    /\ outAt \in {"first", "next", "join", "close", "done"}
    /\ inAt \in {"pop", "join", "close", "done"}
    /\ comAt \in {"pop", "stxo", "subssh", "finish", "done"}
    /\ {outputClosed, inputClosed, commitClosed} \subseteq {"open", "completed"}

Numbers ==
    /\ count \in Nat /\ Pushed <= NBatches
    /\ outBatch \in Nat /\ outNext \in Nat /\ inBatch \in Nat /\ comBatch \in Nat
    /\ outAt = "first" <=> outBatch = 0
    /\ outNext # None => outAt = "join" /\ outNext = outBatch + 1
    /\ inAt = "join" => inBatch > 0
    /\ comAt \in {"stxo", "subssh", "finish"} => comBatch > 0
    /\ subsshTop = Stored /\ completed = Written /\ promised = 1..completed

Order ==
    /\ Run(outputQueue, OutTaken, Pushed)
    /\ Run(inputQueue, inBatch, OutPassed)
    /\ Run(commitQueue, comBatch, InPassed)

(* The outputs stage gives its last batch away only when no other can come. *)
LastKept ==
    /\ outAt \in {"close", "done"} \/ (outAt = "join" /\ outNext = None) => outputClosed # "open"
    /\ outputClosed # "open" => scanAt \in {"join", "reported"}

Throttled ==
    /\ scanAt = "batch" => count - completed <= Depth
    /\ scanAt = "wait" => count >= Depth

Conveyor == Places /\ Numbers /\ Order /\ LastKept /\ Throttled

Hinted ==
    /\ hinting \in BOOLEAN /\ hints \subseteq Batch
    /\ hinting => comAt \in {"stxo", "subssh", "finish"}
    /\ \A b \in 1..comBatch : b \in hints \/ (b = comBatch /\ hinting)

BlocksOf(b) == {b} \X (1..BatchSize)
Paid(k) == OldOutputs \cup {blk \in Block : blk[1] <= k}
SpentBy(k) == {o \in Output : \E blk \in Block : blk[1] <= k /\ o \in Spends[blk]}
SpentIn(b, n) == {o \in Output : \E i \in 1..BatchSize : i < n /\ o \in Spends[<<b, i>>]}

OutputsHeld ==
    /\ counter \in [Batch -> 1..(BatchSize + 1)]
    /\ blockMap \in [Batch -> SUBSET Block]
    /\ \A b \in Batch : blockMap[b] \subseteq BlocksOf(b)
    /\ outRun \subseteq Workers
    /\ outGot \in [Workers -> SUBSET Block]
    /\ \A w \in Workers : outGot[w] \subseteq BlocksOf(outBatch)
    /\ \A w \in Workers \ outRun : outGot[w] = {}
    /\ outRun # {} => outAt \in {"next", "join"}

InputsHeld ==
    /\ inRun \subseteq Workers
    /\ inGot \in [Workers -> SUBSET Output]
    /\ spent \in [Batch -> SUBSET Output]
    /\ \A w \in Workers \ inRun : inGot[w] = {}
    /\ inRun # {} => inAt = "join"
    /\ inAt = "join" /\ inRun # Workers => counter[inBatch] = BatchSize + 1
    /\ \A b \in Batch : b > inBatch => spent[b] = {}

(* What the workers of a stage hold together. *)
Gathered(got) == UNION {got[w] : w \in Workers}

(* What the inputs stage has matched so far. *)
Matched ==
    /\ inAt # "join" => utxoMap = Paid(inBatch) \ SpentBy(inBatch)
    /\ inAt = "join" =>
         /\ utxoMap = (Paid(inBatch - 1) \cup blockMap[inBatch]) \ SpentBy(inBatch - 1)
         /\ spent[inBatch] \cup Gathered(inGot)
              = SpentIn(inBatch, counter[inBatch]) \cap utxoMap
         /\ ~dead => \A i \in 1..BatchSize :
                        i < counter[inBatch] => <<inBatch, i>> \in blockMap[inBatch]

Passed ==
    \A b \in Batch : b <= InPassed =>
        /\ blockMap[b] = BlocksOf(b)
        /\ spent[b] = SpentBy(b) \ SpentBy(b - 1)

Committed == stxo = ScannedTo(InStxo)

PipeInv == Conveyor /\ Hinted /\ OutputsHeld /\ InputsHeld /\ Matched /\ Passed /\ Committed /\ dead \in BOOLEAN

-----------------------------------------------------------------------------
(* Queues of consecutive batches *)

LEMMA RunAppend ==
    ASSUME NEW a \in Nat, NEW b \in Nat, NEW q, Run(q, a, b)
    PROVE  Run(Append(q, b + 1), a, b + 1)
<1>1. a <= b /\ q = [i \in 1..(b - a) |-> a + i]
  BY DEF Run
<1>2. q \in Seq(Nat) /\ Len(q) = b - a
  BY <1>1
<1>3. /\ Append(q, b + 1) \in Seq(Nat)
      /\ Len(Append(q, b + 1)) = b - a + 1
      /\ \A i \in 1..(b - a) : Append(q, b + 1)[i] = q[i]
      /\ Append(q, b + 1)[b - a + 1] = b + 1
  BY <1>1, <1>2, AppendProperties
<1>4. \A i \in 1..(b + 1 - a) : Append(q, b + 1)[i] = a + i
  BY <1>1, <1>3
<1>5. Append(q, b + 1) = [i \in 1..(b + 1 - a) |-> a + i]
  BY <1>1, <1>3, <1>4
<1> QED
  BY <1>1, <1>5 DEF Run

LEMMA RunTake ==
    ASSUME NEW a \in Nat, NEW b \in Nat, NEW q, Run(q, a, b), q # <<>>
    PROVE  a < b /\ Head(q) = a + 1 /\ Run(Tail(q), a + 1, b)
<1>1. a <= b /\ q = [i \in 1..(b - a) |-> a + i]
  BY DEF Run
<1>2. q \in Seq(Nat) /\ Len(q) = b - a
  BY <1>1
<1>3. a < b
  BY <1>1, <1>2, EmptySeq
<1>4. Head(q) = a + 1
  BY <1>1, <1>2, <1>3
<1>5. /\ Tail(q) \in Seq(Nat) /\ Len(Tail(q)) = b - a - 1
      /\ \A i \in 1..(b - a - 1) : Tail(q)[i] = q[i + 1]
  BY <1>2, <1>3, HeadTailProperties
<1>6. \A i \in 1..(b - (a + 1)) : Tail(q)[i] = (a + 1) + i
  BY <1>1, <1>5
<1>7. Tail(q) = [i \in 1..(b - (a + 1)) |-> (a + 1) + i]
  BY <1>1, <1>3, <1>5, <1>6
<1>8. a + 1 <= b
  BY <1>3
<1> QED
  BY <1>3, <1>4, <1>7, <1>8, Zenon DEF Run

LEMMA RunTyped ==
    ASSUME NEW a \in Nat, NEW b \in Nat, NEW q, Run(q, a, b), b <= NBatches
    PROVE  q \in Seq(Batch)
BY SizesPositive DEF Run, Batch


LEMMA Residue ==
    ASSUME NEW n \in Nat, n < UintMod
    PROVE  Unsigned(n) = n
BY SizesPositive DEF Unsigned

LEMMA RunBound ==
    ASSUME NEW a, NEW b, NEW q, Run(q, a, b)
    PROVE  a <= b
BY DEF Run
-----------------------------------------------------------------------------
(* Conveyor *)

conveyorVars == <<queues, scanVars, outAt, outBatch, outNext, inAt, inBatch,
                  comAt, comBatch, subsshTop, doneVars>>

(* What the order of the queues says about the numbers. *)
LEMMA Ranks ==
    ASSUME Conveyor
    PROVE  /\ OutTaken \in Nat /\ Pushed \in Nat /\ OutPassed \in Nat
           /\ InPassed \in Nat /\ completed \in Nat /\ subsshTop \in Nat
           /\ completed <= comBatch /\ subsshTop <= comBatch /\ comBatch <= InPassed
           /\ InPassed <= inBatch /\ inBatch <= OutPassed /\ OutPassed <= outBatch
           /\ outBatch <= OutTaken /\ OutTaken <= Pushed /\ Pushed <= NBatches
           /\ scanAt \in {"throttle", "wait"} => completed <= count
<1> USE DEF Conveyor
<1>1. /\ OutTaken \in Nat /\ Pushed \in Nat /\ OutPassed \in Nat
      /\ InPassed \in Nat /\ completed \in Nat /\ subsshTop \in Nat
  BY DEF OutTaken, Pushed, OutPassed, InPassed, Numbers, Stored, Written, Places, None
<1>2. completed <= comBatch /\ subsshTop <= comBatch
  BY DEF Numbers, Stored, Written
<1>3. comBatch <= InPassed /\ inBatch <= OutPassed /\ OutTaken <= Pushed
  BY RunBound DEF Order
<1>4. InPassed <= inBatch /\ OutPassed <= outBatch /\ outBatch <= OutTaken
  BY DEF InPassed, OutPassed, OutTaken, Numbers
<1>5. ASSUME scanAt \in {"throttle", "wait"}
      PROVE  completed <= count
  <2>1. OutPassed <= count
    <3>1. outputClosed = "open"
      BY <1>5 DEF LastKept, Places
    <3>2. outAt \in {"first", "next"} \/ (outAt = "join" /\ outNext # None)
      BY <3>1 DEF LastKept, Places
    <3>3. Pushed = count + 1
      BY <1>5 DEF Pushed
    <3> QED
      BY <3>2, <3>3, <1>1, <1>3, <1>4 DEF OutPassed, Numbers
  <2> QED
    BY <2>1, <1>1, <1>2, <1>3, <1>4 DEF Numbers
<1> QED
  BY <1>1, <1>2, <1>3, <1>4, <1>5 DEF Numbers

LEMMA ConveyorInit == Init => Conveyor
<1> SUFFICES ASSUME Init PROVE Conveyor
  OBVIOUS
<1> USE SizesPositive DEF Init, OutputQ!Init, InputQ!Init, CommitQ!Init
<1>1. Places
  BY DEF Places
<1>2. /\ Pushed = 0 /\ OutTaken = 0 /\ OutPassed = 0 /\ InPassed = 0
      /\ Stored = 0 /\ Written = 0
  BY DEF Pushed, OutTaken, OutPassed, InPassed, Stored, Written, None
<1>3. Numbers
  BY <1>2 DEF Numbers, None
<1>4. Run(<<>>, 0, 0)
  BY DEF Run
<1>5. Order
  BY <1>2, <1>4 DEF Order, None
<1>6. LastKept /\ Throttled
  BY DEF LastKept, Throttled
<1> QED
  BY <1>1, <1>3, <1>5, <1>6 DEF Conveyor

LEMMA ConveyorStays ==
    ASSUME Conveyor, UNCHANGED conveyorVars
    PROVE  Conveyor'
<1> USE DEF conveyorVars, queues, scanVars, doneVars
<1>1. Places'
  BY DEF Conveyor, Places
<1>2. /\ Pushed' = Pushed /\ OutTaken' = OutTaken /\ OutPassed' = OutPassed
      /\ InPassed' = InPassed /\ Stored' = Stored /\ Written' = Written
  BY DEF Pushed, OutTaken, OutPassed, InPassed, Stored, Written
<1>3. Numbers'
  BY <1>2 DEF Conveyor, Numbers
<1>4. Order'
  BY <1>2 DEF Conveyor, Order
<1>5. LastKept' /\ Throttled'
  BY DEF Conveyor, LastKept, Throttled
<1> QED
  BY <1>1, <1>3, <1>4, <1>5 DEF Conveyor

(* The scan thread *)
LEMMA ScanPushConveyor ==
    ASSUME Conveyor, ScanPush
    PROVE  Conveyor'
<1>1. /\ scanAt = "batch" /\ count < NBatches /\ scanAt' = "throttle"
      /\ outputQueue' = Append(outputQueue, count + 1)
      /\ UNCHANGED <<outputClosed, inputQueue, inputClosed, commitQueue, commitClosed,
                     count, outAt, outBatch, outNext, inAt, inBatch, comAt,
                     comBatch, subsshTop, completed, promised>>
  BY DEF ScanPush, OutputQ!Push, inQ, comQ, outVars, inVars, comVars, dbVars, doneVars
<1>2. /\ Pushed = count /\ Pushed' = count + 1 /\ OutTaken' = OutTaken
      /\ OutPassed' = OutPassed /\ InPassed' = InPassed
      /\ Stored' = Stored /\ Written' = Written
  BY <1>1 DEF Pushed, OutTaken, OutPassed, InPassed, Stored, Written
<1>3. Places'
  BY <1>1 DEF Conveyor, Places
<1>4. Numbers'
  BY <1>1, <1>2, SizesPositive DEF Conveyor, Numbers
<1>5. Order'
  <2>1. OutTaken \in Nat /\ count \in Nat /\ Run(outputQueue, OutTaken, count)
    BY <1>2, Ranks DEF Conveyor, Order, Numbers
  <2>2. Run(outputQueue', OutTaken, count + 1)
    BY <1>1, <2>1, RunAppend
  <2> QED
    BY <1>1, <1>2, <2>2 DEF Conveyor, Order
<1>6. LastKept' /\ Throttled'
  BY <1>1 DEF Conveyor, LastKept, Throttled
<1> QED
  BY <1>3, <1>4, <1>5, <1>6 DEF Conveyor

LEMMA ScanHaltConveyor ==
    ASSUME Conveyor, ScanHalt
    PROVE  Conveyor'
<1>1. /\ scanAt = "batch" /\ scanAt' = "close"
      /\ UNCHANGED <<outputQueue, outputClosed, inputQueue, inputClosed,
                     commitQueue, commitClosed, count, outAt, outBatch, outNext,
                     inAt, inBatch, comAt, comBatch, subsshTop, completed, promised>>
  BY DEF ScanHalt, queues, outVars, inVars, comVars, dbVars, doneVars
<1>2. /\ Pushed' = Pushed /\ OutTaken' = OutTaken
      /\ OutPassed' = OutPassed /\ InPassed' = InPassed
      /\ Stored' = Stored /\ Written' = Written
  BY <1>1 DEF Pushed, OutTaken, OutPassed, InPassed, Stored, Written
<1>3. Places' /\ Numbers' /\ Order'
  BY <1>1, <1>2 DEF Conveyor, Places, Numbers, Order
<1>4. LastKept' /\ Throttled'
  BY <1>1 DEF Conveyor, LastKept, Throttled
<1> QED
  BY <1>3, <1>4 DEF Conveyor

(* The unsigned differences are the plain ones: no batch is written before the
   scan thread has counted it. *)
LEMMA LagExact ==
    ASSUME Conveyor, scanAt \in {"throttle", "wait"}
    PROVE  /\ Lag = count - completed
           /\ count >= Depth => WaitIndex = count - Depth
<1>1. count \in Nat /\ completed \in Nat /\ completed <= count /\ count < NBatches
  BY Ranks, SizesPositive DEF Conveyor, Numbers, Pushed
<1>2. /\ count - completed \in Nat /\ count - completed < UintMod
      /\ count >= Depth => count - Depth \in Nat /\ count - Depth < UintMod
  BY <1>1, SizesPositive
<1>3. Unsigned(count - completed) = count - completed
  BY <1>2, Residue
<1>4. count >= Depth => Unsigned(count - Depth) = count - Depth
  BY <1>2, Residue
<1> QED
  BY <1>3, <1>4 DEF Lag, WaitIndex

LEMMA ScanThrottleConveyor ==
    ASSUME Conveyor, ScanThrottle
    PROVE  Conveyor' /\ (dead' = FALSE \/ dead' = dead)
<1>1. /\ scanAt = "throttle"
      /\ UNCHANGED <<outputQueue, outputClosed, inputQueue, inputClosed,
                     commitQueue, commitClosed, outAt, outBatch, outNext,
                     inAt, inBatch, comAt, comBatch, subsshTop, completed, promised>>
  BY DEF ScanThrottle, queues, outVars, inVars, comVars, dbVars, doneVars
<1>2. /\ Lag = count - completed
      /\ count >= Depth => WaitIndex = count - Depth
  BY <1>1, LagExact
<1>3. count \in Nat /\ completed \in Nat /\ completed <= count /\ Depth \in Nat
  BY <1>1, Ranks, SizesPositive DEF Conveyor, Numbers
<1>4. \/ scanAt' = "wait" /\ count' = count /\ count >= Depth
      \/ scanAt' = "batch" /\ count' = count + 1 /\ count + 1 - completed <= Depth
  BY <1>2, <1>3 DEF ScanThrottle
<1>5. /\ Pushed' = Pushed /\ OutTaken' = OutTaken
      /\ OutPassed' = OutPassed /\ InPassed' = InPassed
      /\ Stored' = Stored /\ Written' = Written
  BY <1>1, <1>4 DEF Pushed, OutTaken, OutPassed, InPassed, Stored, Written
<1>6. Places'
  BY <1>1, <1>4 DEF Conveyor, Places
<1>7. Numbers'
  BY <1>1, <1>3, <1>4, <1>5 DEF Conveyor, Numbers
<1>8. Order'
  BY <1>1, <1>5 DEF Conveyor, Order
<1>9. LastKept' /\ Throttled'
  BY <1>1, <1>3, <1>4 DEF Conveyor, LastKept, Throttled
<1>10. Lag >= Depth => (WaitIndex > count) = FALSE
  BY <1>2, <1>3
<1>11. (dead' = FALSE) \/ (dead' = dead)
  BY <1>10, Zenon DEF ScanThrottle
<1> QED
  BY <1>6, <1>7, <1>8, <1>9, <1>11, Zenon DEF Conveyor

LEMMA ScanWaitConveyor ==
    ASSUME Conveyor, ScanWait
    PROVE  Conveyor'
<1>1. /\ scanAt = "wait" /\ scanAt' = "batch" /\ count' = count + 1
      /\ WaitIndex + 1 \in promised
      /\ UNCHANGED <<outputQueue, outputClosed, inputQueue, inputClosed,
                     commitQueue, commitClosed, outAt, outBatch, outNext,
                     inAt, inBatch, comAt, comBatch, subsshTop, completed, promised>>
  BY DEF ScanWait, queues, outVars, inVars, comVars, dbVars, doneVars
<1>2. count \in Nat /\ completed \in Nat /\ completed <= count /\ Depth \in Nat
  BY <1>1, Ranks, SizesPositive DEF Conveyor, Numbers
<1>3. count >= Depth /\ WaitIndex = count - Depth
  BY <1>1, LagExact DEF Conveyor, Throttled
<1>4. count - Depth + 1 <= completed
  BY <1>1, <1>2, <1>3 DEF Conveyor, Numbers
<1>5. /\ Pushed' = Pushed /\ OutTaken' = OutTaken
      /\ OutPassed' = OutPassed /\ InPassed' = InPassed
      /\ Stored' = Stored /\ Written' = Written
  BY <1>1 DEF Pushed, OutTaken, OutPassed, InPassed, Stored, Written
<1>6. Places'
  BY <1>1 DEF Conveyor, Places
<1>7. Numbers'
  BY <1>1, <1>2, <1>5 DEF Conveyor, Numbers
<1>8. Order'
  BY <1>1, <1>5 DEF Conveyor, Order
<1>9. LastKept' /\ Throttled'
  BY <1>1, <1>2, <1>4 DEF Conveyor, LastKept, Throttled
<1> QED
  BY <1>6, <1>7, <1>8, <1>9 DEF Conveyor

LEMMA ScanCompleteConveyor ==
    ASSUME Conveyor, ScanComplete
    PROVE  Conveyor'
<1>1. /\ scanAt \in {"close", "batch"} /\ scanAt' = "join"
      /\ outputClosed' = "completed"
      /\ UNCHANGED <<outputQueue, inputQueue, inputClosed, commitQueue,
                     commitClosed, count, outAt, outBatch, outNext, inAt, inBatch,
                     comAt, comBatch, subsshTop, completed, promised>>
  BY DEF ScanComplete, OutputQ!Close, inQ, comQ, outVars, inVars, comVars, dbVars, doneVars
<1>2. /\ Pushed' = Pushed /\ OutTaken' = OutTaken
      /\ OutPassed' = OutPassed /\ InPassed' = InPassed
      /\ Stored' = Stored /\ Written' = Written
  BY <1>1 DEF Pushed, OutTaken, OutPassed, InPassed, Stored, Written
<1>3. Places' /\ Numbers' /\ Order'
  BY <1>1, <1>2 DEF Conveyor, Places, Numbers, Order
<1>4. LastKept' /\ Throttled'
  BY <1>1 DEF Conveyor, LastKept, Throttled
<1> QED
  BY <1>3, <1>4 DEF Conveyor

LEMMA ScanJoinConveyor ==
    ASSUME Conveyor, ScanJoin
    PROVE  Conveyor'
<1>1. /\ scanAt = "join" /\ scanAt' = "reported"
      /\ UNCHANGED <<outputQueue, outputClosed, inputQueue, inputClosed,
                     commitQueue, commitClosed, count, outAt, outBatch, outNext,
                     inAt, inBatch, comAt, comBatch, subsshTop, completed, promised>>
  BY DEF ScanJoin, queues, outVars, inVars, comVars, dbVars, doneVars
<1>2. /\ Pushed' = Pushed /\ OutTaken' = OutTaken
      /\ OutPassed' = OutPassed /\ InPassed' = InPassed
      /\ Stored' = Stored /\ Written' = Written
  BY <1>1 DEF Pushed, OutTaken, OutPassed, InPassed, Stored, Written
<1>3. Places' /\ Numbers' /\ Order'
  BY <1>1, <1>2 DEF Conveyor, Places, Numbers, Order
<1>4. LastKept' /\ Throttled'
  BY <1>1 DEF Conveyor, LastKept, Throttled
<1> QED
  BY <1>3, <1>4 DEF Conveyor

(* The outputs stage *)
LEMMA OutputsFirstConveyor ==
    ASSUME Conveyor, OutputsFirst
    PROVE  Conveyor'
<1> DEFINE Same == UNCHANGED <<outputClosed, inputQueue, inputClosed, commitQueue,
                     commitClosed, scanAt, count, outNext, inAt, inBatch, comAt,
                     comBatch, subsshTop, completed, promised>>
<1>1. /\ outAt = "first" /\ Same
      /\ \/ /\ outputQueue # <<>> /\ outputQueue' = Tail(outputQueue)
            /\ outBatch' = Head(outputQueue) /\ outAt' = "next"
         \/ UNCHANGED <<outputQueue, outAt, outBatch>>
  BY DEF OutputsFirst, OutputQ!Take, OutputQ!SeeEmpty, OutputQ!LookAgain, OutputQ!Stop,
         OutputQ!Again, StartOutputs, inQ, comQ, scanVars, inVars, comVars, dbVars, doneVars
<1>2. CASE UNCHANGED <<outputQueue, outAt, outBatch>>
  <2>1. /\ Pushed' = Pushed /\ OutTaken' = OutTaken /\ OutPassed' = OutPassed
        /\ InPassed' = InPassed /\ Stored' = Stored /\ Written' = Written
    BY <1>1, <1>2 DEF Pushed, OutTaken, OutPassed, InPassed, Stored, Written
  <2> QED
    BY <1>1, <1>2, <2>1
       DEF Conveyor, Places, Numbers, Order, LastKept, Throttled
<1>3. CASE /\ outputQueue # <<>> /\ outputQueue' = Tail(outputQueue)
           /\ outBatch' = Head(outputQueue) /\ outAt' = "next"
  <2>1. outBatch = 0 /\ outNext = 0 /\ OutTaken = 0 /\ OutPassed = 0
    BY <1>1 DEF Conveyor, Numbers, OutTaken, OutPassed, None
  <2>2. Pushed \in Nat /\ Run(outputQueue, 0, Pushed)
    BY <2>1, Ranks DEF Conveyor, Order
  <2>3. Head(outputQueue) = 1 /\ Run(Tail(outputQueue), 1, Pushed)
    <3>1. Head(outputQueue) = 0 + 1 /\ Run(Tail(outputQueue), 0 + 1, Pushed)
      BY <1>3, <2>2, RunTake
    <3>2. 0 + 1 = 1
      OBVIOUS
    <3> QED
      BY <3>1, <3>2
  <2>4. outBatch' = 1 /\ OutTaken' = 1 /\ OutPassed' = 0
    BY <1>1, <1>3, <2>1, <2>3 DEF OutTaken, OutPassed, None
  <2>5. /\ Pushed' = Pushed /\ InPassed' = InPassed /\ Stored' = Stored /\ Written' = Written
    BY <1>1 DEF Pushed, InPassed, Stored, Written
  <2>6. Places' /\ LastKept' /\ Throttled'
    BY <1>1, <1>3 DEF Conveyor, Places, LastKept, Throttled
  <2>7. Numbers'
    BY <1>1, <1>3, <2>1, <2>4, <2>5 DEF Conveyor, Numbers, None
  <2>8. Order'
    BY <1>1, <1>3, <2>1, <2>3, <2>4, <2>5 DEF Conveyor, Order
  <2> QED
    BY <2>6, <2>7, <2>8 DEF Conveyor
<1> QED
  BY <1>1, <1>2, <1>3

LEMMA OutputsNextConveyor ==
    ASSUME Conveyor, OutputsNext
    PROVE  Conveyor'
<1> DEFINE Same == UNCHANGED <<outputClosed, inputQueue, inputClosed, commitQueue,
                     commitClosed, scanAt, count, outBatch, inAt, inBatch, comAt,
                     comBatch, subsshTop, completed, promised>>
<1>1. /\ outAt = "next" /\ Same
      /\ \/ /\ outputQueue # <<>> /\ outputQueue' = Tail(outputQueue)
            /\ outNext' = Head(outputQueue) /\ outAt' = "join"
         \/ UNCHANGED <<outputQueue, outAt, outNext>>
         \/ /\ outputQueue' = outputQueue /\ outNext' = None /\ outAt' = "join"
            /\ outputClosed # "open"
  BY DEF OutputsNext, OutputQ!Take, OutputQ!SeeEmpty, OutputQ!LookAgain, OutputQ!Stop,
         OutputQ!Admitting, inQ, comQ, scanVars, inVars, comVars, dbVars, doneVars
<1>2. outBatch \in Nat /\ outBatch # 0 /\ outNext = 0
  BY <1>1 DEF Conveyor, Numbers, None
<1>3. OutTaken = outBatch /\ OutPassed = outBatch - 1 /\ OutPassed' = outBatch - 1
  BY <1>1, <1>2 DEF OutTaken, OutPassed, None
<1>4. /\ Pushed' = Pushed /\ InPassed' = InPassed /\ Stored' = Stored /\ Written' = Written
  BY <1>1 DEF Pushed, InPassed, Stored, Written
<1>5. CASE UNCHANGED <<outputQueue, outAt, outNext>>
  <2>1. OutTaken' = OutTaken
    BY <1>1, <1>5 DEF OutTaken
  <2> QED
    BY <1>1, <1>3, <1>4, <1>5, <2>1
       DEF Conveyor, Places, Numbers, Order, LastKept, Throttled
<1>6. CASE /\ outputQueue # <<>> /\ outputQueue' = Tail(outputQueue)
           /\ outNext' = Head(outputQueue) /\ outAt' = "join"
  <2>1. Pushed \in Nat /\ Run(outputQueue, outBatch, Pushed)
    BY <1>3, Ranks DEF Conveyor, Order
  <2>2. Head(outputQueue) = outBatch + 1 /\ Run(Tail(outputQueue), outBatch + 1, Pushed)
    BY <1>2, <1>6, <2>1, RunTake
  <2>3. outNext' = outBatch + 1 /\ OutTaken' = outBatch + 1 /\ outNext' # None
    BY <1>1, <1>2, <1>6, <2>2 DEF OutTaken, None
  <2>4. Places' /\ LastKept' /\ Throttled'
    BY <1>1, <1>6, <2>3 DEF Conveyor, Places, LastKept, Throttled
  <2>5. Numbers'
    BY <1>1, <1>2, <1>6, <1>4, <2>3 DEF Conveyor, Numbers, None
  <2>6. Order'
    BY <1>1, <1>3, <1>4, <1>6, <2>2, <2>3 DEF Conveyor, Order
  <2> QED
    BY <2>4, <2>5, <2>6 DEF Conveyor
<1>7. CASE /\ outputQueue' = outputQueue /\ outNext' = None /\ outAt' = "join"
           /\ outputClosed # "open"
  <2>1. OutTaken' = OutTaken
    BY <1>1, <1>3, <1>7 DEF OutTaken
  <2>2. Places' /\ LastKept' /\ Throttled'
    BY <1>1, <1>7 DEF Conveyor, Places, LastKept, Throttled
  <2>3. Numbers'
    BY <1>1, <1>2, <1>4, <1>7 DEF Conveyor, Numbers, None
  <2>4. Order'
    BY <1>1, <1>3, <1>4, <1>7, <2>1 DEF Conveyor, Order
  <2> QED
    BY <2>2, <2>3, <2>4 DEF Conveyor
<1> QED
  BY <1>1, <1>5, <1>6, <1>7

LEMMA OutputsPushConveyor ==
    ASSUME Conveyor, OutputsPush
    PROVE  Conveyor'
<1> DEFINE Same == UNCHANGED <<outputQueue, outputClosed, inputClosed, commitQueue,
                     commitClosed, scanAt, count, inAt, inBatch, comAt,
                     comBatch, subsshTop, completed, promised>>
<1>1. /\ outAt = "join" /\ Same
      /\ inputQueue' = Append(inputQueue, outBatch) /\ outNext' = None
      /\ \/ outNext = None /\ outAt' = "close" /\ outBatch' = outBatch
         \/ outNext # None /\ outAt' = "next" /\ outBatch' = outNext
  BY DEF OutputsPush, InputQ!Push, StartOutputs, outQ, comQ, scanVars, inVars, comVars,
         dbVars, doneVars
<1>2. outBatch \in Nat /\ outBatch # 0 /\ outBatch - 1 \in Nat
  BY <1>1 DEF Conveyor, Numbers
<1>3. OutPassed = outBatch - 1 /\ inBatch \in Nat /\ Run(inputQueue, inBatch, outBatch - 1)
  BY <1>1 DEF OutPassed, Conveyor, Order, Numbers
<1>4. Run(inputQueue', inBatch, outBatch)
  <2>1. Run(Append(inputQueue, outBatch - 1 + 1), inBatch, outBatch - 1 + 1)
    BY <1>2, <1>3, RunAppend
  <2>2. outBatch - 1 + 1 = outBatch
    BY <1>2
  <2> QED
    BY <1>1, <2>1, <2>2
<1>5. OutPassed' = outBatch /\ OutTaken' = OutTaken
  BY <1>1, <1>2 DEF OutPassed, OutTaken, Conveyor, Numbers, None
<1>6. /\ Pushed' = Pushed /\ InPassed' = InPassed /\ Stored' = Stored /\ Written' = Written
  BY <1>1 DEF Pushed, InPassed, Stored, Written
<1>7. Places' /\ LastKept' /\ Throttled'
  BY <1>1 DEF Conveyor, Places, LastKept, Throttled
<1>8. Numbers'
  BY <1>1, <1>2, <1>6 DEF Conveyor, Numbers, None
<1>9. Order'
  BY <1>1, <1>4, <1>5, <1>6 DEF Conveyor, Order
<1> QED
  BY <1>7, <1>8, <1>9 DEF Conveyor

LEMMA OutputsCompleteConveyor ==
    ASSUME Conveyor, OutputsComplete
    PROVE  Conveyor'
<1>1. /\ outAt = "close" /\ outAt' = "done" /\ inputClosed' = "completed"
      /\ UNCHANGED <<outputQueue, outputClosed, inputQueue, commitQueue, commitClosed,
                     scanAt, count, outBatch, outNext, inAt, inBatch, comAt, comBatch,
                     subsshTop, completed, promised>>
  BY DEF OutputsComplete, InputQ!Close, outQ, comQ, scanVars, inVars, comVars, dbVars,
         doneVars
<1>2. /\ Pushed' = Pushed /\ OutTaken' = OutTaken /\ OutPassed' = OutPassed
      /\ InPassed' = InPassed /\ Stored' = Stored /\ Written' = Written
  BY <1>1 DEF Pushed, OutTaken, OutPassed, InPassed, Stored, Written
<1>3. Places' /\ LastKept' /\ Throttled'
  BY <1>1 DEF Conveyor, Places, LastKept, Throttled
<1>4. Numbers' /\ Order'
  BY <1>1, <1>2 DEF Conveyor, Numbers, Order
<1> QED
  BY <1>3, <1>4 DEF Conveyor

(* The inputs stage *)
LEMMA InputsPopConveyor ==
    ASSUME Conveyor, InputsPop
    PROVE  Conveyor'
<1> DEFINE Same == UNCHANGED <<outputQueue, outputClosed, inputClosed, commitQueue,
                     commitClosed, scanAt, count, outAt, outBatch, outNext, comAt,
                     comBatch, subsshTop, completed, promised>>
<1>1. /\ inAt = "pop" /\ Same
      /\ \/ /\ inputQueue # <<>> /\ inputQueue' = Tail(inputQueue)
            /\ inBatch' = Head(inputQueue) /\ inAt' = "join"
         \/ UNCHANGED <<inputQueue, inAt, inBatch>>
         \/ inAt' = "close" /\ UNCHANGED <<inputQueue, inBatch>>
  BY DEF InputsPop, InputQ!Take, InputQ!SeeEmpty, InputQ!LookAgain, InputQ!Stop,
         outQ, comQ, scanVars, outVars, comVars, dbVars, doneVars
<1>2. /\ Pushed' = Pushed /\ OutTaken' = OutTaken /\ OutPassed' = OutPassed
      /\ Stored' = Stored /\ Written' = Written
  BY <1>1 DEF Pushed, OutTaken, OutPassed, Stored, Written
<1>3. InPassed = inBatch /\ inBatch \in Nat
  BY <1>1 DEF InPassed, Conveyor, Numbers
<1>4. CASE /\ inputQueue # <<>> /\ inputQueue' = Tail(inputQueue)
           /\ inBatch' = Head(inputQueue) /\ inAt' = "join"
  <2>1. OutPassed \in Nat /\ Run(inputQueue, inBatch, OutPassed)
    BY Ranks DEF Conveyor, Order
  <2>2. Head(inputQueue) = inBatch + 1 /\ Run(Tail(inputQueue), inBatch + 1, OutPassed)
    BY <1>3, <1>4, <2>1, RunTake
  <2>3. inBatch' = inBatch + 1 /\ InPassed' = inBatch
    BY <1>3, <1>4, <2>2 DEF InPassed
  <2>4. Places' /\ LastKept' /\ Throttled'
    BY <1>1, <1>4 DEF Conveyor, Places, LastKept, Throttled
  <2>5. Numbers'
    BY <1>1, <1>2, <1>3, <1>4, <2>3 DEF Conveyor, Numbers
  <2>6. Order'
    BY <1>1, <1>2, <1>3, <1>4, <2>2, <2>3 DEF Conveyor, Order
  <2> QED
    BY <2>4, <2>5, <2>6 DEF Conveyor
<1>5. CASE inAt' \in {"pop", "close"} /\ UNCHANGED <<inputQueue, inBatch>>
  <2>1. InPassed' = InPassed
    BY <1>3, <1>5 DEF InPassed
  <2>2. Places' /\ LastKept' /\ Throttled'
    BY <1>1, <1>5 DEF Conveyor, Places, LastKept, Throttled
  <2>3. Numbers'
    BY <1>1, <1>2, <1>5 DEF Conveyor, Numbers
  <2>4. Order'
    BY <1>1, <1>2, <1>5, <2>1 DEF Conveyor, Order
  <2> QED
    BY <2>2, <2>3, <2>4 DEF Conveyor
<1> QED
  BY <1>1, <1>4, <1>5

LEMMA InputsPushConveyor ==
    ASSUME Conveyor, InputsPush
    PROVE  Conveyor'
<1>1. /\ inAt = "join" /\ inAt' = "pop" /\ commitQueue' = Append(commitQueue, inBatch)
      /\ UNCHANGED <<outputQueue, outputClosed, inputQueue, inputClosed, commitClosed,
                     scanAt, count, outAt, outBatch, outNext, inBatch, comAt,
                     comBatch, subsshTop, completed, promised>>
  BY DEF InputsPush, CommitQ!Push, outQ, inQ, scanVars, outVars, comVars, dbVars, doneVars
<1>2. /\ Pushed' = Pushed /\ OutTaken' = OutTaken /\ OutPassed' = OutPassed
      /\ Stored' = Stored /\ Written' = Written
  BY <1>1 DEF Pushed, OutTaken, OutPassed, Stored, Written
<1>3. /\ inBatch - 1 \in Nat /\ inBatch - 1 + 1 = inBatch /\ comBatch \in Nat
      /\ InPassed = inBatch - 1 /\ InPassed' = inBatch
  BY <1>1 DEF InPassed, Conveyor, Numbers
<1>4. Run(commitQueue', comBatch, inBatch)
  <2>1. Run(Append(commitQueue, inBatch - 1 + 1), comBatch, inBatch - 1 + 1)
    BY <1>3, RunAppend DEF Conveyor, Order
  <2> QED
    BY <1>1, <1>3, <2>1
<1>5. Places' /\ LastKept' /\ Throttled'
  BY <1>1 DEF Conveyor, Places, LastKept, Throttled
<1>6. Numbers'
  BY <1>1, <1>2 DEF Conveyor, Numbers
<1>7. Order'
  BY <1>1, <1>2, <1>3, <1>4 DEF Conveyor, Order
<1> QED
  BY <1>5, <1>6, <1>7 DEF Conveyor

LEMMA InputsCompleteConveyor ==
    ASSUME Conveyor, InputsComplete
    PROVE  Conveyor'
<1>1. /\ inAt = "close" /\ inAt' = "done" /\ commitClosed' = "completed"
      /\ UNCHANGED <<outputQueue, outputClosed, inputQueue, inputClosed, commitQueue,
                     scanAt, count, outAt, outBatch, outNext, inBatch, comAt, comBatch,
                     subsshTop, completed, promised>>
  BY DEF InputsComplete, CommitQ!Close, outQ, inQ, scanVars, outVars, comVars, dbVars,
         doneVars
<1>2. /\ Pushed' = Pushed /\ OutTaken' = OutTaken /\ OutPassed' = OutPassed
      /\ InPassed' = InPassed /\ Stored' = Stored /\ Written' = Written
  BY <1>1 DEF Pushed, OutTaken, OutPassed, InPassed, Stored, Written
<1>3. Places' /\ LastKept' /\ Throttled'
  BY <1>1 DEF Conveyor, Places, LastKept, Throttled
<1>4. Numbers' /\ Order'
  BY <1>1, <1>2 DEF Conveyor, Numbers, Order
<1> QED
  BY <1>3, <1>4 DEF Conveyor

(* The commit stage *)
LEMMA CommitPopConveyor ==
    ASSUME Conveyor, CommitPop
    PROVE  Conveyor'
<1> DEFINE Same == UNCHANGED <<outputQueue, outputClosed, inputQueue, inputClosed,
                     commitClosed, scanAt, count, outAt, outBatch, outNext, inAt,
                     inBatch, subsshTop, completed, promised>>
<1>1. /\ comAt = "pop" /\ Same
      /\ \/ /\ commitQueue # <<>> /\ commitQueue' = Tail(commitQueue)
            /\ comBatch' = Head(commitQueue) /\ comAt' = "stxo"
         \/ UNCHANGED <<commitQueue, comAt, comBatch>>
         \/ comAt' = "done" /\ UNCHANGED <<commitQueue, comBatch>>
  BY DEF CommitPop, CommitQ!Take, CommitQ!SeeEmpty, CommitQ!LookAgain, CommitQ!Stop,
         outQ, inQ, scanVars, outVars, inVars, dbVars, doneVars
<1>2. /\ Pushed' = Pushed /\ OutTaken' = OutTaken /\ OutPassed' = OutPassed
      /\ InPassed' = InPassed
  BY <1>1 DEF Pushed, OutTaken, OutPassed, InPassed
<1>3. Stored = comBatch /\ Written = comBatch /\ comBatch \in Nat
  BY <1>1 DEF Stored, Written, Conveyor, Numbers
<1>4. CASE /\ commitQueue # <<>> /\ commitQueue' = Tail(commitQueue)
           /\ comBatch' = Head(commitQueue) /\ comAt' = "stxo"
  <2>1. InPassed \in Nat /\ Run(commitQueue, comBatch, InPassed)
    BY Ranks DEF Conveyor, Order
  <2>2. Head(commitQueue) = comBatch + 1 /\ Run(Tail(commitQueue), comBatch + 1, InPassed)
    BY <1>3, <1>4, <2>1, RunTake
  <2>3. comBatch' = comBatch + 1 /\ Stored' = comBatch /\ Written' = comBatch
    BY <1>3, <1>4, <2>2 DEF Stored, Written
  <2>4. Places' /\ LastKept' /\ Throttled'
    BY <1>1, <1>4 DEF Conveyor, Places, LastKept, Throttled
  <2>5. Numbers'
    BY <1>1, <1>2, <1>3, <1>4, <2>3 DEF Conveyor, Numbers
  <2>6. Order'
    BY <1>1, <1>2, <1>3, <1>4, <2>2, <2>3 DEF Conveyor, Order
  <2> QED
    BY <2>4, <2>5, <2>6 DEF Conveyor
<1>5. CASE comAt' \in {"pop", "done"} /\ UNCHANGED <<commitQueue, comBatch>>
  <2>1. Stored' = Stored /\ Written' = Written
    BY <1>3, <1>5 DEF Stored, Written
  <2>2. Places' /\ LastKept' /\ Throttled'
    BY <1>1, <1>5 DEF Conveyor, Places, LastKept, Throttled
  <2>3. Numbers'
    BY <1>1, <1>2, <1>5, <2>1 DEF Conveyor, Numbers
  <2>4. Order'
    BY <1>1, <1>2, <1>5 DEF Conveyor, Order
  <2> QED
    BY <2>2, <2>3, <2>4 DEF Conveyor
<1> QED
  BY <1>1, <1>4, <1>5

(* The steps of a batch that is being written *)
LEMMA CommitStepConveyor ==
    ASSUME Conveyor, CommitStxo \/ CommitSubSsh \/ CommitFinish
    PROVE  Conveyor'
<1>1. /\ UNCHANGED <<outputQueue, outputClosed, inputQueue, inputClosed, commitQueue,
                     commitClosed, scanAt, count, outAt, outBatch, outNext, inAt,
                     inBatch, comBatch>>
      /\ \/ /\ comAt = "stxo" /\ comAt' = "subssh"
            /\ UNCHANGED <<subsshTop, completed, promised>>
         \/ /\ comAt = "subssh" /\ comAt' = "finish" /\ subsshTop' = comBatch
            /\ UNCHANGED <<completed, promised>>
         \/ /\ comAt = "finish" /\ comAt' = "pop" /\ subsshTop' = subsshTop
            /\ completed' = completed + 1 /\ promised' = promised \cup {comBatch}
  BY DEF CommitStxo, CommitSubSsh, CommitFinish, queues, scanVars, outVars, inVars,
         dbVars, doneVars
<1>2. /\ Pushed' = Pushed /\ OutTaken' = OutTaken /\ OutPassed' = OutPassed
      /\ InPassed' = InPassed
  BY <1>1 DEF Pushed, OutTaken, OutPassed, InPassed
<1>3. /\ comBatch \in Nat /\ comBatch > 0 /\ completed = comBatch - 1
      /\ promised = 1..(comBatch - 1)
      /\ subsshTop = IF comAt = "finish" THEN comBatch ELSE comBatch - 1
  BY <1>1 DEF Conveyor, Numbers, Written, Stored
<1>4. /\ subsshTop' = Stored' /\ completed' = Written'
      /\ promised' = 1..completed' /\ completed' >= completed /\ completed' \in Nat
  <2>1. promised \cup {comBatch} = 1..comBatch
    BY <1>3
  <2>2. CASE comAt = "stxo"
    BY <1>1, <1>3, <2>2 DEF Stored, Written
  <2>3. CASE comAt = "subssh"
    BY <1>1, <1>3, <2>3 DEF Stored, Written
  <2>4. CASE comAt = "finish"
    <3>1. completed' = comBatch /\ promised' = 1..comBatch
      <4>1. completed' = completed + 1 /\ promised' = promised \cup {comBatch}
        BY <1>1, <2>4, Zenon
      <4>2. completed + 1 = comBatch
        BY <1>3
      <4> QED
        BY <2>1, <4>1, <4>2, Zenon
    <3>2. comAt' = "pop" /\ subsshTop' = comBatch /\ comBatch' = comBatch
      BY <1>1, <1>3, <2>4
    <3>3. Stored' = comBatch /\ Written' = comBatch
      BY <3>2 DEF Stored, Written
    <3> QED
      BY <1>3, <3>1, <3>2, <3>3
  <2> QED
    BY <1>1, <2>2, <2>3, <2>4
<1>5. Places' /\ LastKept'
  BY <1>1 DEF Conveyor, Places, LastKept
<1>6. Throttled'
  <2>1. count \in Nat /\ Depth \in Nat /\ completed \in Nat
    BY <1>3, SizesPositive DEF Conveyor, Numbers
  <2>2. scanAt' = scanAt /\ count' = count
    BY <1>1
  <2>3. completed' \in Nat /\ completed' >= completed
    BY <1>4, Zenon
  <2>4. ASSUME scanAt = "batch"
        PROVE  count' - completed' <= Depth
    <3>1. count - completed <= Depth
      BY <2>4, Zenon DEF Conveyor, Throttled
    <3>2. \A x, y, z, d \in Nat : x - y <= d /\ z >= y => x - z <= d
      OBVIOUS
    <3>3. count - completed' <= Depth
      BY <3>1, <3>2, <2>1, <2>3, Zenon
    <3> QED
      BY <3>3, <2>2, Zenon
  <2> QED
    BY <2>2, <2>4 DEF Conveyor, Throttled
<1>7. Numbers'
  BY <1>1, <1>2, <1>3, <1>4 DEF Conveyor, Numbers
<1>8. Order'
  BY <1>1, <1>2 DEF Conveyor, Order
<1> QED
  BY <1>5, <1>6, <1>7, <1>8 DEF Conveyor

(* The workers and the hint writer move no batch. *)
LEMMA WorkersConveyor ==
    ASSUME Conveyor,
           WriteHints \/ \E w \in Workers : OutputWorker(w) \/ InputWorker(w)
    PROVE  Conveyor'
<1>1. UNCHANGED conveyorVars
  BY DEF WriteHints, OutputWorker, InputWorker, OutputWorkerParse, OutputWorkerMerge,
         InputWorkerParse, InputWorkerMerge, conveyorVars, queues, scanVars, outVars,
         inVars, comVars, dbVars, doneVars
<1> QED
  BY <1>1, ConveyorStays

LEMMA ConveyorStep == Conveyor /\ [Next]_vars => Conveyor'
<1> SUFFICES ASSUME Conveyor, [Next]_vars PROVE Conveyor'
  OBVIOUS
<1>1. CASE UNCHANGED vars
  BY <1>1, ConveyorStays DEF vars, conveyorVars, outVars, inVars, comVars, dbVars
<1>2. CASE Scan
  BY <1>2, ScanPushConveyor, ScanHaltConveyor, ScanThrottleConveyor, ScanWaitConveyor,
     ScanCompleteConveyor, ScanJoinConveyor DEF Scan
<1>3. CASE Outputs
  BY <1>3, OutputsFirstConveyor, OutputsNextConveyor, OutputsPushConveyor,
     OutputsCompleteConveyor DEF Outputs
<1>4. CASE Inputs
  BY <1>4, InputsPopConveyor, InputsPushConveyor, InputsCompleteConveyor DEF Inputs
<1>5. CASE Commit
  BY <1>5, CommitPopConveyor, CommitStepConveyor DEF Commit
<1>6. CASE WriteHints \/ \E w \in Workers : OutputWorker(w) \/ InputWorker(w)
  BY <1>6, WorkersConveyor
<1> QED
  BY <1>1, <1>2, <1>3, <1>4, <1>5, <1>6 DEF Next

-----------------------------------------------------------------------------
(* Blocks, the outputs they pay and the outputs they spend *)

LEMMA BlockParts ==
    ASSUME NEW blk \in Block
    PROVE  /\ blk[1] \in Batch /\ blk[1] \in Nat /\ blk[2] \in 1..BatchSize
           /\ blk = <<blk[1], blk[2]>>
BY SizesPositive DEF Block, Batch

LEMMA BlockOf ==
    ASSUME NEW b \in Batch, NEW i \in 1..BatchSize
    PROVE  /\ <<b, i>> \in Block /\ <<b, i>> \in BlocksOf(b)
           /\ <<b, i>>[1] = b /\ <<b, i>>[2] = i
BY DEF Block, BlocksOf

LEMMA InBlocksOf ==
    ASSUME NEW b \in Batch, NEW o \in BlocksOf(b)
    PROVE  o \in Block /\ o[1] = b /\ o \in Output
BY DEF Block, BlocksOf, Output

LEMMA BlockHome ==
    ASSUME NEW o \in Block
    PROVE  o \in BlocksOf(o[1])
BY BlockParts DEF BlocksOf

LEMMA SpendsOutput ==
    ASSUME NEW blk \in Block
    PROVE  Spends[blk] \subseteq Output
BY SpendsTyped

LEMMA BatchNat ==
    ASSUME NEW b \in Batch
    PROVE  b \in Nat /\ b - 1 \in Nat /\ b <= NBatches /\ b # 0
BY SizesPositive DEF Batch

(* No earlier block spends an output of the batch. *)
LEMMA FreshUnspent ==
    ASSUME NEW b \in Batch, NEW o \in BlocksOf(b)
    PROVE  o \notin SpentBy(b - 1)
<1> SUFFICES ASSUME o \in SpentBy(b - 1) PROVE FALSE
  OBVIOUS
<1>1. PICK blk \in Block : blk[1] <= b - 1 /\ o \in Spends[blk]
  BY DEF SpentBy
<1>2. o \in Block /\ o[1] = b
  BY InBlocksOf
<1>3. o \notin OldOutputs
  BY <1>2, SpendsBackwards
<1>4. o[1] <= blk[1]
  BY <1>1, <1>3, SpendsBackwards
<1>5. blk[1] \in Nat /\ b \in Nat
  BY BlockParts, BatchNat
<1> QED
  BY <1>1, <1>2, <1>4, <1>5

LEMMA PaidNext ==
    ASSUME NEW b \in Batch
    PROVE  Paid(b) = Paid(b - 1) \cup BlocksOf(b)
<1>1. \A blk \in Block : blk[1] <= b <=> blk[1] <= b - 1 \/ blk \in BlocksOf(b)
  <2> TAKE blk \in Block
  <2>1. blk[1] \in Nat /\ b \in Nat
    BY BlockParts, BatchNat
  <2>2. blk[1] = b <=> blk \in BlocksOf(b)
    BY BlockHome, InBlocksOf
  <2>3. blk[1] <= b <=> blk[1] <= b - 1 \/ blk[1] = b
    BY <2>1
  <2> QED
    BY <2>2, <2>3
<1>2. BlocksOf(b) \subseteq Block
  BY InBlocksOf
<1> QED
  BY <1>1, <1>2, Zenon DEF Paid

LEMMA SpentNext ==
    ASSUME NEW b \in Batch
    PROVE  SpentBy(b) = SpentBy(b - 1) \cup SpentIn(b, BatchSize + 1)
<1>1. ASSUME NEW o \in SpentBy(b), o \notin SpentBy(b - 1)
      PROVE  o \in SpentIn(b, BatchSize + 1)
  <2>1. o \in Output
    BY DEF SpentBy
  <2>2. PICK blk \in Block : blk[1] <= b /\ o \in Spends[blk]
    BY DEF SpentBy
  <2>3. ~(blk[1] <= b - 1)
    BY <1>1, <2>1, <2>2 DEF SpentBy
  <2>4. blk[1] = b
    BY <2>2, <2>3, BlockParts, BatchNat
  <2>5. blk[2] \in 1..BatchSize /\ blk = <<b, blk[2]>>
    BY <2>4, BlockParts
  <2>6. blk[2] < BatchSize + 1
    BY <2>5, SizesPositive
  <2> QED
    BY <2>1, <2>2, <2>5, <2>6 DEF SpentIn
<1>2. ASSUME NEW o \in SpentIn(b, BatchSize + 1)
      PROVE  o \in SpentBy(b)
  <2>1. PICK i \in 1..BatchSize : o \in Spends[<<b, i>>]
    BY DEF SpentIn
  <2>2. <<b, i>> \in Block /\ <<b, i>>[1] <= b
    BY BlockOf, BatchNat
  <2> QED
    BY <2>1, <2>2 DEF SpentIn, SpentBy
<1>3. SpentBy(b - 1) \subseteq SpentBy(b)
  <2>1. \A blk \in Block : blk[1] <= b - 1 => blk[1] <= b
    BY BlockParts, BatchNat
  <2> QED
    BY <2>1, Zenon DEF SpentBy
<1> QED
  BY <1>1, <1>2, <1>3

(* A batch spends what the batches up to it have paid. *)
LEMMA SpentIsPaid ==
    ASSUME NEW b \in Batch, NEW n
    PROVE  SpentIn(b, n) \subseteq Paid(b)
<1> SUFFICES ASSUME NEW o \in SpentIn(b, n) PROVE o \in Paid(b)
  OBVIOUS
<1>1. PICK i \in 1..BatchSize : o \in Spends[<<b, i>>]
  BY DEF SpentIn
<1>2. o \in Output
  BY DEF SpentIn
<1>3. <<b, i>> \in Block /\ <<b, i>>[1] = b
  BY BlockOf
<1>4. o \in OldOutputs \/ o[1] <= b
  BY <1>1, <1>3, SpendsBackwards
<1> QED
  BY <1>2, <1>4 DEF Paid, Output

LEMMA SpentInStep ==
    ASSUME NEW b \in Batch, NEW n \in 1..BatchSize
    PROVE  SpentIn(b, n + 1) = SpentIn(b, n) \cup Spends[<<b, n>>]
<1>1. <<b, n>> \in Block /\ Spends[<<b, n>>] \subseteq Output
  BY BlockOf, SpendsOutput
<1>2. \A i \in 1..BatchSize : i < n + 1 <=> i < n \/ i = n
  BY SizesPositive
<1> QED
  BY <1>1, <1>2, Zenon DEF SpentIn

LEMMA SpentInNone ==
    ASSUME NEW b
    PROVE  SpentIn(b, 1) = {}
<1>1. \A i \in 1..BatchSize : ~(i < 1)
  BY SizesPositive
<1> QED
  BY <1>1, Zenon DEF SpentIn

(* Writing one more batch to STXO. *)
LEMMA ScannedNext ==
    ASSUME NEW b \in Batch
    PROVE  ScannedTo(b) =
             [o \in Output |->
                IF o \in SpentBy(b) \ SpentBy(b - 1) THEN "spent"
                ELSE IF o \in BlocksOf(b) THEN "unspent" ELSE ScannedTo(b - 1)[o]]
<1> DEFINE W == [o \in Output |->
                IF o \in SpentBy(b) \ SpentBy(b - 1) THEN "spent"
                ELSE IF o \in BlocksOf(b) THEN "unspent" ELSE ScannedTo(b - 1)[o]]
<1> SUFFICES ASSUME NEW o \in Output PROVE ScannedTo(b)[o] = W[o]
  BY Zenon DEF ScannedTo
<1>1. \A k : ScannedTo(k)[o] = IF o \in SpentBy(k) THEN "spent"
             ELSE IF o \in OldOutputs \/ o[1] <= k THEN "unspent" ELSE "absent"
  BY Zenon DEF ScannedTo, SpentBy
<1>2. W[o] = IF o \in SpentBy(b) \ SpentBy(b - 1) THEN "spent"
             ELSE IF o \in BlocksOf(b) THEN "unspent" ELSE ScannedTo(b - 1)[o]
  OBVIOUS
<1>3. SpentBy(b - 1) \subseteq SpentBy(b)
  BY SpentNext
<1>4. o \in BlocksOf(b) => o \notin SpentBy(b - 1) /\ o[1] <= b
  BY FreshUnspent, InBlocksOf, BatchNat
<1>5. o \notin OldOutputs /\ o \notin BlocksOf(b) => (o[1] <= b <=> o[1] <= b - 1)
  <2> SUFFICES ASSUME o \notin OldOutputs, o \notin BlocksOf(b)
               PROVE  o[1] <= b <=> o[1] <= b - 1
    OBVIOUS
  <2>1. o \in Block
    BY DEF Output
  <2>2. o[1] # b
    BY <2>1, BlockHome
  <2>3. o[1] \in Nat /\ b \in Nat
    BY <2>1, BlockParts, BatchNat
  <2> QED
    BY <2>2, <2>3
<1> HIDE DEF W
<1> QED
  BY <1>1, <1>2, <1>3, <1>4, <1>5, Zenon

-----------------------------------------------------------------------------
(* What each thread leaves alone *)

LEMMA ScanFrame ==
    ASSUME Scan
    PROVE  UNCHANGED <<outVars, inVars, comVars, batchVars, utxoMap, dbVars>>
BY Zenon DEF Scan, ScanPush, ScanHalt, ScanThrottle, ScanWait, ScanComplete, ScanJoin

LEMMA OutputsFrame ==
    ASSUME Outputs
    PROVE  UNCHANGED <<outGot, inVars, comVars, batchVars, utxoMap, dbVars, dead>>
BY Zenon DEF Outputs, OutputsFirst, OutputsNext, OutputsPush, OutputsComplete

LEMMA OutputWorkerFrame ==
    ASSUME NEW w, OutputWorker(w)
    PROVE  UNCHANGED <<outAt, outBatch, inVars, comVars, spent, utxoMap, dbVars, dead>>
BY Zenon DEF OutputWorker, OutputWorkerParse, OutputWorkerMerge

LEMMA InputsFrame ==
    ASSUME Inputs
    PROVE  UNCHANGED <<outVars, inGot, comVars, blockMap, spent, dbVars, dead>>
BY Zenon DEF Inputs, InputsPop, InputsPush, InputsComplete, batchVars

LEMMA InputWorkerFrame ==
    ASSUME NEW w, InputWorker(w)
    PROVE  UNCHANGED <<outVars, inAt, inBatch, comVars, blockMap, utxoMap, dbVars>>
BY Zenon DEF InputWorker, InputWorkerParse, InputWorkerMerge

LEMMA CommitFrame ==
    ASSUME Commit
    PROVE  UNCHANGED <<outVars, inVars, batchVars, utxoMap, hints, dead>>
BY Zenon DEF Commit, CommitPop, CommitStxo, CommitSubSsh, CommitFinish, dbVars

LEMMA WriteHintsFrame ==
    ASSUME WriteHints
    PROVE  UNCHANGED <<outVars, inVars, comAt, comBatch, batchVars, utxoMap, stxo, dead>>
BY Zenon DEF WriteHints

-----------------------------------------------------------------------------
(* The transaction hints *)

LEMMA HintedStep ==
    ASSUME Conveyor, Hinted, [Next]_vars
    PROVE  Hinted'
<1>1. comBatch \in Nat /\ comBatch <= NBatches
  BY Ranks, SizesPositive DEF Conveyor, Numbers
<1>2. CASE UNCHANGED <<hints, hinting, comAt, comBatch>>
  BY <1>2 DEF Hinted
<1>3. CASE WriteHints
  <2>1. hinting /\ hints' = hints \cup {comBatch} /\ hinting' = FALSE
        /\ comAt' = comAt /\ comBatch' = comBatch
    BY <1>3 DEF WriteHints
  <2>2. comBatch \in Batch
    BY <1>1, <2>1 DEF Hinted, Conveyor, Numbers, Batch
  <2> QED
    BY <2>1, <2>2 DEF Hinted
<1>4. CASE CommitPop
  <2>1. /\ comAt = "pop" /\ hints' = hints
        /\ \/ commitQueue # <<>> /\ comBatch' = Head(commitQueue) /\ hinting' = TRUE
              /\ comAt' = "stxo"
           \/ UNCHANGED <<comBatch, hinting>> /\ comAt' \in {"pop", "done"}
    BY <1>4 DEF CommitPop, dbVars, CommitQ!Take
  <2>2. ~hinting /\ hinting = FALSE /\ \A b \in 1..comBatch : b \in hints
    BY <2>1 DEF Hinted
  <2>3. CASE UNCHANGED <<comBatch, hinting>> /\ comAt' \in {"pop", "done"}
    BY <2>1, <2>2, <2>3 DEF Hinted
  <2>4. CASE commitQueue # <<>> /\ comBatch' = Head(commitQueue) /\ hinting' = TRUE
             /\ comAt' = "stxo"
    <3>1. comBatch' = comBatch + 1
      BY <1>1, <2>4, RunTake, Ranks DEF Conveyor, Order
    <3>2. \A b \in 1..(comBatch + 1) : b \in 1..comBatch \/ b = comBatch + 1
      BY <1>1
    <3>3. \A b \in 1..comBatch' : b \in hints \/ b = comBatch'
      BY <2>2, <3>1, <3>2
    <3> QED
      BY <2>1, <2>4, <3>3 DEF Hinted
  <2> QED
    BY <2>1, <2>3, <2>4
<1>5. CASE CommitStxo \/ CommitSubSsh \/ CommitFinish
  <2>1. /\ UNCHANGED <<comBatch, hinting, hints>>
        /\ \/ comAt' \in {"subssh", "finish"}
           \/ ~hinting
    BY <1>5 DEF CommitStxo, CommitSubSsh, CommitFinish, dbVars
  <2> QED
    BY <2>1 DEF Hinted
<1>6. CASE Scan \/ Outputs \/ Inputs \/ \E w \in Workers : OutputWorker(w) \/ InputWorker(w)
  <2>1. UNCHANGED <<comVars, dbVars>>
    BY <1>6, ScanFrame, OutputsFrame, InputsFrame, OutputWorkerFrame, InputWorkerFrame, Zenon
  <2> QED
    BY <2>1, <1>2 DEF comVars, dbVars
<1>7. CASE UNCHANGED vars
  BY <1>7, <1>2 DEF vars, comVars, dbVars
<1> QED
  BY <1>3, <1>4, <1>5, <1>6, <1>7 DEF Next, Commit

-----------------------------------------------------------------------------
(* The outputs stage *)

outputsVars == <<counter, blockMap, outAt, outBatch, outRun, outGot>>

LEMMA OutputsStay ==
    ASSUME OutputsHeld, UNCHANGED outputsVars
    PROVE  OutputsHeld'
BY Zenon DEF OutputsHeld, outputsVars

LEMMA OutputsHeldInit == Init => OutputsHeld
<1> SUFFICES ASSUME Init PROVE OutputsHeld
  OBVIOUS
<1>1. 1 \in 1..(BatchSize + 1)
  BY SizesPositive
<1> QED
  BY <1>1 DEF Init, OutputsHeld

(* The batch of running output workers is ahead of the inputs stage. *)
LEMMA OutputsAhead ==
    ASSUME Conveyor, OutputsHeld, outRun # {}
    PROVE  /\ outBatch \in Batch /\ inBatch < outBatch /\ InPassed < outBatch
           /\ inBatch # outBatch
<1>1. outAt \in {"next", "join"}
  BY DEF OutputsHeld
<1>2. outBatch \in Nat /\ outBatch # 0 /\ outBatch <= NBatches /\ inBatch \in Nat
  BY <1>1, Ranks, SizesPositive DEF Conveyor, Numbers
<1>3. OutPassed = outBatch - 1
  BY <1>1 DEF OutPassed
<1>4. inBatch <= outBatch - 1 /\ InPassed <= inBatch /\ InPassed \in Nat
  BY <1>3, Ranks
<1> QED
  BY <1>2, <1>4, SizesPositive DEF Batch

LEMMA OutputsHeldStep ==
    ASSUME Conveyor, OutputsHeld, InputsHeld, [Next]_vars
    PROVE  OutputsHeld'
<1>1. CASE Outputs
  <2>1. UNCHANGED <<outGot, counter, blockMap>>
    BY <1>1, OutputsFrame, Zenon DEF batchVars
  <2>2. \/ UNCHANGED <<outAt, outBatch, outRun>>
        \/ outRun = {} /\ outRun' = Workers /\ outAt' = "next"
        \/ outAt \in {"next", "join"} /\ outAt' = "join" /\ UNCHANGED <<outBatch, outRun>>
        \/ outRun = {} /\ UNCHANGED <<outBatch, outRun>>
    BY <1>1 DEF Outputs, OutputsFirst, OutputsNext, OutputsPush, OutputsComplete,
       StartOutputs, OutputsHeld
  <2>3. CASE outRun = {} /\ outRun' = Workers /\ outAt' = "next"
    <3>1. \A w \in Workers : outGot[w] = {}
      BY <2>3 DEF OutputsHeld
    <3>2. \A w \in Workers : outGot'[w] \subseteq BlocksOf(outBatch')
      BY <2>1, <3>1
    <3> QED
      BY <2>1, <2>3, <3>2, Zenon DEF OutputsHeld
  <2>4. CASE UNCHANGED <<outBatch, outRun>> /\ (outRun = {} \/ outAt' = outAt \/ outAt' = "join")
    BY <2>1, <2>4, Zenon DEF OutputsHeld
  <2> QED
    BY <2>2, <2>3, <2>4, Zenon
<1>2. ASSUME NEW w \in Workers, OutputWorkerParse(w)
      PROVE  OutputsHeld'
  <2>1. outBatch \in Batch
    BY <1>2, OutputsAhead DEF OutputWorkerParse
  <2>2. counter[outBatch] \in 1..BatchSize
    BY <1>2, <2>1, SizesPositive DEF OutputWorkerParse, OutputsHeld
  <2>3. counter' = [counter EXCEPT ![outBatch] = counter[outBatch] + 1]
    BY <1>2 DEF OutputWorkerParse
  <2>4. counter' \in [Batch -> 1..(BatchSize + 1)]
    <3>1. counter[outBatch] + 1 \in 1..(BatchSize + 1)
      BY <2>2, SizesPositive
    <3>2. counter \in [Batch -> 1..(BatchSize + 1)]
      BY DEF OutputsHeld
    <3> QED
      BY <2>1, <2>3, <3>1, <3>2
  <2> DEFINE blk == <<outBatch, counter[outBatch]>>
  <2>5. blk \in Block /\ blk \in BlocksOf(outBatch)
    BY <2>1, <2>2, BlockOf
  <2>6. /\ w \in outRun /\ UNCHANGED <<outAt, outBatch, blockMap>>
        /\ \/ outGot' = [outGot EXCEPT ![w] = @ \cup {blk}] /\ outRun' = outRun
           \/ outGot' = [outGot EXCEPT ![w] = {}] /\ outRun' = outRun \ {w}
    BY <1>2, Zenon DEF OutputWorkerParse
  <2> HIDE DEF blk
  <2>7. /\ outGot' \in [Workers -> SUBSET Block]
        /\ \A v \in Workers : outGot'[v] \subseteq BlocksOf(outBatch)
        /\ \A v \in Workers \ outRun' : outGot'[v] = {}
    BY <2>5, <2>6 DEF OutputsHeld
  <2> QED
    BY <2>4, <2>6, <2>7 DEF OutputsHeld
<1>3. ASSUME NEW w \in Workers, OutputWorkerMerge(w)
      PROVE  OutputsHeld'
  <2>1. outBatch \in Batch
    BY <1>3, OutputsAhead DEF OutputWorkerMerge
  <2>2. /\ w \in outRun /\ UNCHANGED <<outAt, outBatch, counter>>
        /\ blockMap' = [blockMap EXCEPT ![outBatch] = @ \cup outGot[w]]
        /\ outGot' = [outGot EXCEPT ![w] = {}] /\ outRun' = outRun \ {w}
    BY <1>3 DEF OutputWorkerMerge
  <2>3. /\ blockMap' \in [Batch -> SUBSET Block]
        /\ \A b \in Batch : blockMap'[b] \subseteq BlocksOf(b)
    BY <2>1, <2>2 DEF OutputsHeld
  <2>4. /\ outGot' \in [Workers -> SUBSET Block]
        /\ \A v \in Workers : outGot'[v] \subseteq BlocksOf(outBatch)
        /\ \A v \in Workers \ outRun' : outGot'[v] = {}
    BY <2>2 DEF OutputsHeld
  <2> QED
    BY <2>2, <2>3, <2>4 DEF OutputsHeld
<1>4. CASE Scan \/ Commit \/ WriteHints \/ UNCHANGED vars
  <2>1. UNCHANGED <<outVars, batchVars>>
    BY <1>4, ScanFrame, CommitFrame, WriteHintsFrame, Zenon DEF vars
  <2> QED
    BY <2>1, OutputsStay DEF outVars, batchVars, outputsVars
<1>5. ASSUME UNCHANGED <<outVars, blockMap>>,
             NEW b \in Batch, NEW n \in 1..(BatchSize + 1),
             counter' = counter \/ counter' = [counter EXCEPT ![b] = n]
      PROVE  OutputsHeld'
  <2>1. counter' \in [Batch -> 1..(BatchSize + 1)]
    BY <1>5 DEF OutputsHeld
  <2> QED
    BY <1>5, <2>1 DEF OutputsHeld, outVars
<1>6. CASE Inputs
  <2>1. UNCHANGED <<outVars, blockMap>>
    BY <1>6, InputsFrame, Zenon
  <2>2. CASE counter' = counter
    BY <2>1, <2>2, OutputsStay DEF outVars, outputsVars
  <2>3. CASE inputQueue # <<>> /\ counter' = [counter EXCEPT ![Head(inputQueue)] = 1]
    <3>1. Head(inputQueue) = inBatch + 1 /\ inBatch < OutPassed /\ inBatch \in Nat
      BY <2>3, RunTake, Ranks DEF Conveyor, Order, Numbers
    <3>2. OutPassed \in Nat /\ OutPassed <= NBatches
      BY Ranks, SizesPositive DEF Conveyor, Numbers
    <3>3. Head(inputQueue) \in Batch /\ 1 \in 1..(BatchSize + 1)
      BY <3>1, <3>2, SizesPositive DEF Batch
    <3> QED
      BY <1>5, <2>1, <2>3, <3>3
  <2> QED
    BY <1>6, <2>2, <2>3 DEF Inputs, InputsPop, InputsPush, InputsComplete, InputQ!Take,
       batchVars
<1>7. ASSUME NEW w \in Workers, InputWorker(w)
      PROVE  OutputsHeld'
  <2>1. UNCHANGED <<outVars, blockMap>>
    BY <1>7, InputWorkerFrame, Zenon
  <2>2. CASE counter' = counter
    BY <2>1, <2>2, OutputsStay DEF outVars, outputsVars
  <2>3. CASE InputWorkerParse(w)
    <3>1. inAt = "join"
      BY <2>3 DEF InputWorkerParse, InputsHeld
    <3>2. inBatch \in Nat /\ inBatch > 0 /\ inBatch <= OutPassed /\ OutPassed \in Nat
          /\ OutPassed <= NBatches
      BY <3>1, Ranks, SizesPositive DEF Conveyor, Numbers
    <3>3. inBatch \in Batch
      BY <3>2, SizesPositive DEF Batch
    <3>4. counter[inBatch] + 1 \in 1..(BatchSize + 1)
      BY <2>3, <3>3, SizesPositive DEF InputWorkerParse, OutputsHeld
    <3>5. counter' = [counter EXCEPT ![inBatch] = counter[inBatch] + 1]
      BY <2>3 DEF InputWorkerParse
    <3> QED
      BY <1>5, <2>1, <3>3, <3>4, <3>5
  <2> QED
    BY <1>7, <2>2, <2>3 DEF InputWorker, InputWorkerMerge
<1> QED
  BY <1>1, <1>2, <1>3, <1>4, <1>6, <1>7 DEF Next, OutputWorker

-----------------------------------------------------------------------------
(* The inputs stage *)

inputsVars == <<inRun, inGot, spent, inAt, inBatch, utxoMap, dead>>

Matching == InputsHeld /\ Matched /\ Passed

LEMMA MatchingInit == Init => Matching
<1> SUFFICES ASSUME Init PROVE Matching
  OBVIOUS
<1>1. InputsHeld
  BY DEF Init, InputsHeld
<1>2. Matched
  <2>1. inAt # "join" /\ utxoMap = OldOutputs /\ inBatch = 0
    BY DEF Init, None
  <2>2. \A blk \in Block : ~(blk[1] <= 0)
    <3> TAKE blk \in Block
    <3>1. blk[1] \in Batch
      BY BlockParts
    <3> QED
      BY <3>1, SizesPositive DEF Batch
  <2>3. Paid(0) = OldOutputs /\ SpentBy(0) = {}
    BY <2>2, Zenon DEF Paid, SpentBy
  <2> QED
    BY <2>1, <2>3 DEF Matched
<1>3. Passed
  <2>1. InPassed = 0
    BY DEF Init, InPassed, None
  <2>2. \A b \in Batch : ~(b <= 0)
    BY SizesPositive DEF Batch
  <2> QED
    BY <2>1, <2>2 DEF Passed
<1> QED
  BY <1>1, <1>2, <1>3 DEF Matching

LEMMA InGathered ==
    ASSUME NEW f, NEW o
    PROVE  o \in Gathered(f) <=> \E v \in Workers : o \in f[v]
BY DEF Gathered

(* The inputs stage is not disturbed by what happens to later batches. *)
LEMMA MatchingStays ==
    ASSUME Conveyor, Matching, UNCHANGED inputsVars,
           inAt = "join" => counter'[inBatch] = counter[inBatch],
           \A b \in Batch : b <= inBatch => blockMap'[b] = blockMap[b]
    PROVE  Matching'
<1>1. InPassed' = InPassed
  BY DEF InPassed, inputsVars
<1>2. inAt = "join" => inBatch \in Batch /\ inBatch <= inBatch
  <2>1. inBatch \in Nat /\ inBatch <= NBatches
    BY Ranks, SizesPositive DEF Conveyor, Numbers
  <2> QED
    BY <2>1, SizesPositive DEF Conveyor, Numbers, Batch
<1>3. InputsHeld'
  BY Zenon DEF Matching, InputsHeld, inputsVars
<1>4. Matched'
  <2>1. CASE inAt # "join"
    BY <2>1, Zenon DEF Matching, Matched, inputsVars
  <2>2. CASE inAt = "join"
    <3>1. counter'[inBatch] = counter[inBatch] /\ blockMap'[inBatch] = blockMap[inBatch]
      BY <2>2, <1>2
    <3> QED
      BY <2>2, <3>1, Zenon DEF Matching, Matched, inputsVars
  <2> QED
    BY <2>1, <2>2
<1>5. Passed'
  <2>1. \A b \in Batch : b <= InPassed => b <= inBatch
    BY Ranks, BatchNat DEF Conveyor, Numbers
  <2> QED
    BY <1>1, <2>1, Zenon DEF Matching, Passed, inputsVars
<1> QED
  BY <1>3, <1>4, <1>5 DEF Matching

(* The batch whose inputs are being matched. *)
LEMMA InputsBatch ==
    ASSUME Conveyor, inAt = "join"
    PROVE  inBatch \in Batch /\ inBatch \in Nat /\ InPassed = inBatch - 1
<1>1. inBatch \in Nat /\ inBatch <= NBatches /\ inBatch > 0
  BY Ranks, SizesPositive DEF Conveyor, Numbers
<1> QED
  BY <1>1, SizesPositive DEF Batch, InPassed

LEMMA InputsTakeMatching ==
    ASSUME Conveyor, OutputsHeld, Matching, inAt = "pop", inputQueue # <<>>,
           inBatch' = Head(inputQueue),
           counter' = [counter EXCEPT ![Head(inputQueue)] = 1],
           utxoMap' = utxoMap \cup blockMap[Head(inputQueue)],
           inRun' = Workers, inAt' = "join",
           UNCHANGED <<inGot, blockMap, spent, dead>>
    PROVE  Matching'
<1> DEFINE b == inBatch + 1
<1>1. Head(inputQueue) = b /\ inBatch < OutPassed /\ inBatch \in Nat
  BY RunTake, Ranks DEF Conveyor, Order, Numbers
<1>2. b \in Batch /\ b - 1 = inBatch /\ b > inBatch
  <2>1. OutPassed \in Nat /\ OutPassed <= NBatches
    BY Ranks, SizesPositive DEF Conveyor, Numbers
  <2> QED
    BY <1>1, <2>1, SizesPositive DEF Batch
<1> HIDE DEF b
<1>3. inRun = {} /\ \A w \in Workers : inGot[w] = {}
  BY DEF Matching, InputsHeld
<1>4. InputsHeld'
  <2>1. \A c \in Batch : c > b => c > inBatch
    BY <1>1, <1>2, BatchNat
  <2>2. \A c \in Batch : c > inBatch' => spent'[c] = {}
    BY <1>1, <2>1 DEF Matching, InputsHeld
  <2> QED
    BY <2>2, <1>3, Zenon DEF Matching, InputsHeld
<1>5. counter'[b] = 1
  BY <1>1, <1>2 DEF OutputsHeld
<1>6. utxoMap' = (Paid(b - 1) \cup blockMap[b]) \ SpentBy(b - 1)
  <2>1. utxoMap = Paid(b - 1) \ SpentBy(b - 1)
    BY <1>2 DEF Matching, Matched
  <2>2. \A o \in blockMap[b] : o \notin SpentBy(b - 1)
    BY <1>2, FreshUnspent DEF OutputsHeld
  <2> QED
    BY <1>1, <2>1, <2>2
<1>7. spent[b] \cup Gathered(inGot) = {}
  <2>1. spent[b] = {}
    BY <1>2 DEF Matching, InputsHeld
  <2>2. Gathered(inGot) = {}
    BY <1>3, InGathered
  <2> QED
    BY <2>1, <2>2
<1>8. SpentIn(b, 1) = {}
  BY SpentInNone
<1>9. Matched'
  <2>1. \A i \in 1..BatchSize : ~(i < 1)
    BY SizesPositive
  <2>2. inBatch' = b
    BY <1>1
  <2>3. spent'[b] \cup Gathered(inGot') = SpentIn(b, counter'[b]) \cap utxoMap'
    BY <1>5, <1>7, <1>8
  <2>4. utxoMap' = (Paid(b - 1) \cup blockMap'[b]) \ SpentBy(b - 1)
    BY <1>6
  <2>5. \A i \in 1..BatchSize : i < counter'[b] => <<b, i>> \in blockMap'[b]
    BY <1>5, <2>1, Zenon
  <2> QED
    BY <2>2, <2>3, <2>4, <2>5, Zenon DEF Matched
<1>10. Passed'
  <2>1. InPassed' = InPassed
    <3>1. inBatch' - 1 = inBatch
      BY <1>1, <1>2
    <3> QED
      BY <3>1 DEF InPassed
  <2> QED
    BY <2>1, Zenon DEF Matching, Passed
<1> QED
  BY <1>4, <1>9, <1>10 DEF Matching

LEMMA InputWorkerParseMatching ==
    ASSUME Conveyor, OutputsHeld, Matching, ~dead,
           NEW w \in Workers, InputWorkerParse(w)
    PROVE  Matching'
<1> DEFINE n == counter[inBatch]
           new == Spends[<<inBatch, n>>] \cap utxoMap
<1>1. /\ w \in inRun /\ counter[inBatch] <= BatchSize
      /\ inGot' = [inGot EXCEPT ![w] = @ \cup new]
      /\ dead' = (<<inBatch, n>> \notin blockMap[inBatch])
      /\ counter' = [counter EXCEPT ![inBatch] = n + 1]
      /\ UNCHANGED <<inAt, inBatch, inRun, blockMap, spent, utxoMap>>
  BY Zenon DEF InputWorkerParse
<1>2. inAt = "join" /\ inBatch \in Batch
  BY <1>1, InputsBatch DEF Matching, InputsHeld
<1>3. n \in 1..BatchSize /\ counter'[inBatch] = n + 1 /\ n + 1 > n
  BY <1>1, <1>2, SizesPositive DEF OutputsHeld
<1>4. inRun = Workers
  <2>1. counter[inBatch] # BatchSize + 1
    BY <1>3, SizesPositive
  <2> QED
    BY <1>2, <2>1, Zenon DEF Matching, InputsHeld
<1>5. new \subseteq Output
  BY <1>2, <1>3, BlockOf, SpendsOutput
<1> HIDE DEF n, new
<1>6. inGot' \in [Workers -> SUBSET Output]
  BY <1>1, <1>5 DEF Matching, InputsHeld
<1>7. InputsHeld'
  BY <1>1, <1>2, <1>4, <1>6, Zenon DEF Matching, InputsHeld
<1>8. Gathered(inGot') = Gathered(inGot) \cup new
  <2>1. \A v \in Workers : inGot'[v] = IF v = w THEN inGot[w] \cup new ELSE inGot[v]
    BY <1>1 DEF Matching, InputsHeld
  <2> QED
    BY <2>1, InGathered
<1>9. spent'[inBatch] \cup Gathered(inGot')
        = SpentIn(inBatch, counter'[inBatch]) \cap utxoMap'
  <2>1. spent[inBatch] \cup Gathered(inGot) = SpentIn(inBatch, n) \cap utxoMap
    BY <1>2 DEF Matching, Matched, n
  <2>2. SpentIn(inBatch, n + 1) = SpentIn(inBatch, n) \cup Spends[<<inBatch, n>>]
    BY <1>2, <1>3, SpentInStep
  <2>3. SpentIn(inBatch, n + 1) \cap utxoMap = (SpentIn(inBatch, n) \cap utxoMap) \cup new
    BY <2>2 DEF new
  <2>4. spent'[inBatch] = spent[inBatch] /\ utxoMap' = utxoMap
    BY <1>1
  <2>5. spent[inBatch] \cup Gathered(inGot') =
          SpentIn(inBatch, n + 1) \cap utxoMap
    BY <1>8, <2>1, <2>3
  <2> QED
    BY <1>3, <2>4, <2>5, Zenon
<1>10. ~dead' => \A i \in 1..BatchSize :
                    i < counter'[inBatch] => <<inBatch, i>> \in blockMap[inBatch]
  <2>1. \A i \in 1..BatchSize : i < n => <<inBatch, i>> \in blockMap[inBatch]
    BY <1>2, Zenon DEF Matching, Matched, n
  <2>2. \A i \in 1..BatchSize : i < n + 1 => i < n \/ i = n
    BY <1>3
  <2>3. ~dead' => <<inBatch, n>> \in blockMap[inBatch]
    BY <1>1, Zenon
  <2> QED
    BY <1>3, <2>1, <2>2, <2>3, Zenon
<1>11. Matched'
  <2>1. utxoMap = (Paid(inBatch - 1) \cup blockMap[inBatch]) \ SpentBy(inBatch - 1)
    BY <1>2, Zenon DEF Matching, Matched
  <2> QED
    BY <1>1, <1>2, <1>9, <1>10, <2>1, Zenon DEF Matched
<1>12. Passed'
  <2>1. InPassed' = InPassed
    BY <1>1 DEF InPassed
  <2> QED
    BY <1>1, <2>1, Zenon DEF Matching, Passed
<1> QED
  BY <1>7, <1>11, <1>12 DEF Matching

LEMMA InputWorkerMergeMatching ==
    ASSUME Conveyor, OutputsHeld, Matching, ~dead,
           NEW w \in Workers, InputWorkerMerge(w)
    PROVE  Matching'
<1>1. /\ w \in inRun /\ counter[inBatch] > BatchSize
      /\ spent' = [spent EXCEPT ![inBatch] = @ \cup inGot[w]]
      /\ inGot' = [inGot EXCEPT ![w] = {}]
      /\ inRun' = inRun \ {w}
      /\ UNCHANGED <<inAt, inBatch, counter, blockMap, utxoMap, dead>>
  BY Zenon DEF InputWorkerMerge
<1>2. inAt = "join" /\ inBatch \in Batch /\ inBatch \in Nat /\ InPassed = inBatch - 1
  BY <1>1, InputsBatch DEF Matching, InputsHeld
<1>3. counter[inBatch] = BatchSize + 1
  BY <1>1, <1>2, SizesPositive DEF OutputsHeld
<1>4. /\ spent' \in [Batch -> SUBSET Output]
      /\ spent'[inBatch] = spent[inBatch] \cup inGot[w]
      /\ \A b \in Batch : b # inBatch => spent'[b] = spent[b]
  BY <1>1, <1>2 DEF Matching, InputsHeld
<1>5. /\ inGot' \in [Workers -> SUBSET Output]
      /\ \A v \in Workers : inGot'[v] = IF v = w THEN {} ELSE inGot[v]
  BY <1>1 DEF Matching, InputsHeld
<1>6. InputsHeld'
  <2>1. \A b \in Batch : b > inBatch => b # inBatch
    BY <1>2, BatchNat
  <2>2. \A b \in Batch : b > inBatch => spent'[b] = {}
    BY <1>4, <2>1 DEF Matching, InputsHeld
  <2>3. \A v \in Workers \ inRun' : inGot'[v] = {}
    BY <1>1, <1>5 DEF Matching, InputsHeld
  <2>4. inRun' \subseteq Workers
    BY <1>1 DEF Matching, InputsHeld
  <2> QED
    BY <1>1, <1>2, <1>3, <1>4, <1>5, <2>2, <2>3, <2>4, Zenon DEF InputsHeld
<1>7. spent'[inBatch] \cup Gathered(inGot')
        = spent[inBatch] \cup Gathered(inGot)
  <2>1. \A o : o \in Gathered(inGot) <=> o \in Gathered(inGot') \/ o \in inGot[w]
    BY <1>5, InGathered
  <2> QED
    BY <1>4, <2>1
<1>8. Matched'
  BY <1>1, <1>2, <1>7, Zenon DEF Matching, Matched
<1>9. Passed'
  <2>1. InPassed' = InPassed
    BY <1>1 DEF InPassed
  <2>2. \A b \in Batch : b <= inBatch - 1 => b # inBatch
    BY <1>2, BatchNat
  <2> QED
    BY <1>1, <1>2, <1>4, <2>1, <2>2, Zenon DEF Matching, Passed
<1> QED
  BY <1>6, <1>8, <1>9 DEF Matching

LEMMA InputsPushMatching ==
    ASSUME Conveyor, OutputsHeld, Matching, ~dead, InputsPush
    PROVE  Matching'
<1>1. /\ inAt = "join" /\ inRun = {} /\ inAt' = "pop"
      /\ utxoMap' = utxoMap \ spent[inBatch]
      /\ UNCHANGED <<inBatch, inRun, inGot, counter, blockMap, spent, dead>>
  BY Zenon DEF InputsPush, batchVars
<1>2. inBatch \in Batch /\ inBatch \in Nat /\ InPassed = inBatch - 1
  BY <1>1, InputsBatch
<1>3. counter[inBatch] = BatchSize + 1
  BY <1>1, WorkersSome, Zenon DEF Matching, InputsHeld
<1>4. blockMap[inBatch] = BlocksOf(inBatch)
  <2>1. \A i \in 1..BatchSize : i < BatchSize + 1
    BY SizesPositive
  <2>2. \A i \in 1..BatchSize : <<inBatch, i>> \in blockMap[inBatch]
    BY <1>1, <1>3, <2>1, Zenon DEF Matching, Matched
  <2>3. blockMap[inBatch] \subseteq BlocksOf(inBatch)
    BY <1>2 DEF OutputsHeld
  <2>4. \A o \in BlocksOf(inBatch) : \E i \in 1..BatchSize : o = <<inBatch, i>>
    BY DEF BlocksOf
  <2> QED
    BY <2>2, <2>3, <2>4, Zenon
<1> DEFINE In == SpentIn(inBatch, BatchSize + 1)
           Before == SpentBy(inBatch - 1)
           After == SpentBy(inBatch)
           All == Paid(inBatch)
<1>5. utxoMap = All \ Before
  <2>1. utxoMap = (Paid(inBatch - 1) \cup BlocksOf(inBatch)) \ Before
    BY <1>1, <1>4, Zenon DEF Matching, Matched
  <2> QED
    BY <1>2, <2>1, PaidNext
<1>6. After = Before \cup In /\ In \subseteq All
  BY <1>2, SpentNext, SpentIsPaid
<1>7. spent[inBatch] = In \cap utxoMap
  <2>1. \A w \in Workers : inGot[w] = {}
    BY <1>1 DEF Matching, InputsHeld
  <2>2. Gathered(inGot) = {}
    BY <2>1, InGathered
  <2>3. spent[inBatch] \cup Gathered(inGot) = In \cap utxoMap
    BY <1>1, <1>3, Zenon DEF Matching, Matched
  <2> QED
    BY <2>2, <2>3
<1> HIDE DEF In, Before, After, All
<1>8. spent[inBatch] = After \ Before
  BY <1>5, <1>6, <1>7
<1>9. utxoMap' = All \ After
  BY <1>1, <1>5, <1>6, <1>8
<1>10. InputsHeld'
  BY <1>1, Zenon DEF Matching, InputsHeld
<1>11. Matched'
  BY <1>1, <1>9 DEF Matched, All, After
<1>12. Passed'
  <2>1. InPassed' = inBatch
    BY <1>1 DEF InPassed
  <2>2. \A b \in Batch : b <= inBatch => b <= inBatch - 1 \/ b = inBatch
    BY <1>2, BatchNat
  <2>3. \A b \in Batch : b <= inBatch =>
          blockMap[b] = BlocksOf(b) /\ spent[b] = SpentBy(b) \ SpentBy(b - 1)
    BY <1>2, <1>4, <1>8, <2>2, Zenon DEF Matching, Passed, After, Before
  <2> QED
    BY <1>1, <2>1, <2>3, Zenon DEF Passed
<1> QED
  BY <1>10, <1>11, <1>12 DEF Matching

LEMMA MatchingStep ==
    ASSUME Conveyor, OutputsHeld, Matching, dead \in BOOLEAN, [Next]_vars
    PROVE  Matching'
<1> DEFINE Same == UNCHANGED <<inAt, inBatch, inRun, inGot, spent, utxoMap, dead>>
<1>1. CASE UNCHANGED <<inVars, batchVars, utxoMap, dead>>
  BY <1>1, MatchingStays DEF inVars, batchVars, inputsVars
<1>2. CASE Scan /\ ~dead
  <2>1. UNCHANGED <<inVars, batchVars, utxoMap>>
    BY <1>2, ScanFrame, Zenon
  <2>2. dead' = dead
    <3>1. CASE ScanThrottle
      BY <1>2, <3>1, ScanThrottleConveyor
    <3>2. CASE ~ScanThrottle
      BY <1>2, <3>2, Zenon DEF Scan, ScanPush, ScanHalt, ScanWait, ScanComplete, ScanJoin
    <3> QED
      BY <3>1, <3>2
  <2> QED
    BY <1>1, <2>1, <2>2
<1>3. CASE Outputs
  BY <1>1, <1>3, OutputsFrame, Zenon
<1>4. CASE Commit \/ WriteHints
  BY <1>1, <1>4, CommitFrame, WriteHintsFrame, Zenon
<1>5. CASE UNCHANGED vars
  BY <1>1, <1>5 DEF vars
<1>6. ASSUME NEW w \in Workers, OutputWorker(w)
      PROVE  Matching'
  <2>1. UNCHANGED inputsVars
    BY <1>6, OutputWorkerFrame DEF inVars, inputsVars
  <2>2. outRun # {}
    BY <1>6 DEF OutputWorker, OutputWorkerParse, OutputWorkerMerge
  <2>3. outBatch \in Batch /\ inBatch < outBatch /\ inBatch # outBatch /\ inBatch \in Nat
    BY <2>2, OutputsAhead DEF Conveyor, Numbers
  <2>4. inAt = "join" => inBatch \in Batch
    BY InputsBatch
  <2>5. inAt = "join" => counter'[inBatch] = counter[inBatch]
    <3>1. counter' = counter \/ counter' = [counter EXCEPT ![outBatch] = @ + 1]
      BY <1>6, Zenon DEF OutputWorker, OutputWorkerParse, OutputWorkerMerge
    <3> QED
      BY <2>3, <2>4, <3>1, Zenon DEF OutputsHeld
  <2>6. \A b \in Batch : b <= inBatch => b # outBatch
    BY <2>3, BatchNat
  <2>7. blockMap' = blockMap \/ blockMap' = [blockMap EXCEPT ![outBatch] = @ \cup outGot[w]]
    BY <1>6, Zenon DEF OutputWorker, OutputWorkerParse, OutputWorkerMerge
  <2>8. \A b \in Batch : b <= inBatch => blockMap'[b] = blockMap[b]
    BY <2>6, <2>7, Zenon DEF OutputsHeld
  <2> QED
    BY <2>1, <2>5, <2>8, MatchingStays
<1>7. ASSUME NEW w \in Workers, InputWorker(w), ~dead
      PROVE  Matching'
  BY <1>7, InputWorkerParseMatching, InputWorkerMergeMatching DEF InputWorker
<1>8. CASE InputsPop
  <2>1. UNCHANGED <<inGot, blockMap, spent, dead>>
    BY <1>8, Zenon DEF InputsPop
  <2>2. CASE inAt' = "join"
    <3>1. /\ inAt = "pop" /\ inputQueue # <<>> /\ inBatch' = Head(inputQueue)
          /\ counter' = [counter EXCEPT ![Head(inputQueue)] = 1]
          /\ utxoMap' = utxoMap \cup blockMap[Head(inputQueue)]
          /\ inRun' = Workers
      BY <1>8, <2>2 DEF InputsPop, InputQ!Take
    <3> QED
      BY <2>1, <2>2, <3>1, InputsTakeMatching
  <2>3. CASE inAt' # "join"
    <3>1. /\ inAt # "join" /\ UNCHANGED <<inBatch, counter, utxoMap, inRun>>
      BY <1>8, <2>3 DEF InputsPop
    <3>2. InputsHeld' /\ Matched'
      BY <2>1, <2>3, <3>1, Zenon DEF Matching, InputsHeld, Matched
    <3>3. InPassed' = InPassed
      BY <2>3, <3>1 DEF InPassed
    <3>4. Passed'
      BY <2>1, <3>3, Zenon DEF Matching, Passed
    <3> QED
      BY <3>2, <3>4 DEF Matching
  <2> QED
    BY <2>2, <2>3
<1>9. CASE InputsPush /\ ~dead
  BY <1>9, InputsPushMatching
<1>10. CASE InputsComplete
  <2>1. /\ inAt = "close" /\ inAt' = "done"
        /\ UNCHANGED <<inBatch, inRun, inGot, counter, blockMap, spent, utxoMap, dead>>
    BY <1>10, Zenon DEF InputsComplete, batchVars
  <2>2. InputsHeld' /\ Matched'
    BY <2>1, Zenon DEF Matching, InputsHeld, Matched
  <2>3. InPassed' = InPassed
    BY <2>1 DEF InPassed
  <2>4. Passed'
    BY <2>1, <2>3, Zenon DEF Matching, Passed
  <2> QED
    BY <2>2, <2>4 DEF Matching
<1> QED
  BY <1>2, <1>3, <1>4, <1>5, <1>6, <1>7, <1>8, <1>9, <1>10 DEF Next, Inputs

-----------------------------------------------------------------------------
(* The databases *)

LEMMA CommittedInit == Init => Committed
<1> SUFFICES ASSUME Init PROVE Committed
  OBVIOUS
<1>1. InStxo = 0
  BY DEF Init, InStxo, None
<1>2. \A blk \in Block : ~(blk[1] <= 0)
  <2> TAKE blk \in Block
  <2>1. blk[1] \in Batch
    BY BlockParts
  <2> QED
    BY <2>1, SizesPositive DEF Batch
<1>3. \A o \in Output : ScannedTo(0)[o] = IF o \in OldOutputs THEN "unspent" ELSE "absent"
  <2> TAKE o \in Output
  <2>1. o \in OldOutputs \/ ~(o[1] <= 0)
    BY <1>2 DEF Output
  <2> QED
    BY <1>2, <2>1, Zenon DEF ScannedTo
<1> QED
  BY <1>1, <1>3, Zenon DEF Init, Committed, ScannedTo

LEMMA CommittedStep ==
    ASSUME Conveyor, Passed, Committed, [Next]_vars
    PROVE  Committed'
<1>1. CASE UNCHANGED <<stxo, comAt, comBatch>>
  BY <1>1 DEF Committed, InStxo
<1>2. CASE CommitStxo
  <2>1. /\ comAt = "stxo" /\ comAt' = "subssh" /\ comBatch' = comBatch
        /\ stxo' = [o \in Output |->
                   IF o \in spent[comBatch] THEN "spent"
                   ELSE IF o \in blockMap[comBatch] THEN "unspent" ELSE stxo[o]]
    BY <1>2 DEF CommitStxo
  <2>2. comBatch \in Batch /\ comBatch <= InPassed
    <3>1. comBatch \in Nat /\ comBatch > 0 /\ comBatch <= InPassed /\ comBatch <= NBatches
      BY <2>1, Ranks, SizesPositive DEF Conveyor, Numbers
    <3> QED
      BY <3>1, SizesPositive DEF Batch
  <2>3. /\ blockMap[comBatch] = BlocksOf(comBatch)
        /\ spent[comBatch] = SpentBy(comBatch) \ SpentBy(comBatch - 1)
    BY <2>2 DEF Passed
  <2>4. stxo = ScannedTo(comBatch - 1)
    BY <2>1 DEF Committed, InStxo
  <2>5. stxo' = ScannedTo(comBatch)
    <3> DEFINE After ==
          [o \in Output |->
             IF o \in SpentBy(comBatch) \ SpentBy(comBatch - 1) THEN "spent"
             ELSE IF o \in BlocksOf(comBatch) THEN "unspent"
             ELSE ScannedTo(comBatch - 1)[o]]
    <3>1. ScannedTo(comBatch) = After
      BY <2>2, ScannedNext
    <3>2. stxo' = After
      BY <2>1, <2>3, <2>4
    <3> QED
      BY <3>1, <3>2
  <2>6. InStxo' = comBatch
    BY <2>1 DEF InStxo
  <2> QED
    BY <2>5, <2>6 DEF Committed
<1>3. CASE CommitPop
  <2>1. /\ comAt = "pop" /\ stxo' = stxo
        /\ \/ commitQueue # <<>> /\ comBatch' = Head(commitQueue) /\ comAt' = "stxo"
           \/ comBatch' = comBatch /\ comAt' \in {"pop", "done"}
    BY <1>3 DEF CommitPop, dbVars, CommitQ!Take
  <2>2. InStxo = comBatch
    BY <2>1 DEF InStxo
  <2>3. InStxo' = comBatch
    <3>1. CASE commitQueue # <<>> /\ comBatch' = Head(commitQueue) /\ comAt' = "stxo"
      <4>1. comBatch' = comBatch + 1 /\ comBatch \in Nat
        BY <3>1, RunTake, Ranks DEF Conveyor, Order, Numbers
      <4> QED
        BY <3>1, <4>1 DEF InStxo
    <3>2. CASE comBatch' = comBatch /\ comAt' \in {"pop", "done"}
      BY <3>2 DEF InStxo
    <3> QED
      BY <2>1, <3>1, <3>2
  <2> QED
    BY <2>1, <2>2, <2>3 DEF Committed
<1>4. CASE CommitSubSsh \/ CommitFinish
  <2>1. /\ UNCHANGED <<stxo, comBatch>>
        /\ comAt # "stxo" /\ comAt' # "stxo"
    BY <1>4 DEF CommitSubSsh, CommitFinish, dbVars
  <2> QED
    BY <2>1 DEF Committed, InStxo
<1>5. CASE Scan \/ Outputs \/ Inputs \/ WriteHints
           \/ \E w \in Workers : OutputWorker(w) \/ InputWorker(w)
  <2>1. UNCHANGED <<stxo, comAt, comBatch>>
    BY <1>5, ScanFrame, OutputsFrame, InputsFrame, OutputWorkerFrame, InputWorkerFrame,
       WriteHintsFrame DEF comVars, dbVars
  <2> QED
    BY <1>1, <2>1
<1>6. CASE UNCHANGED vars
  BY <1>1, <1>6 DEF vars, comVars, dbVars
<1> QED
  BY <1>2, <1>3, <1>4, <1>5, <1>6 DEF Next, Commit

-----------------------------------------------------------------------------
(* The theorems *)

LEMMA DeadTyped ==
    ASSUME Conveyor, dead \in BOOLEAN, [Next]_vars
    PROVE  dead' \in BOOLEAN
<1>1. CASE dead' = dead
  BY <1>1
<1>2. CASE ScanThrottle
  BY <1>2, ScanThrottleConveyor
<1>3. ASSUME NEW w, InputWorkerParse(w)
      PROVE  dead' \in BOOLEAN
  BY <1>3, Zenon DEF InputWorkerParse
<1>4. CASE Scan /\ ~ScanThrottle
  BY <1>1, <1>4, Zenon DEF Scan, ScanPush, ScanHalt, ScanWait, ScanComplete, ScanJoin
<1>5. CASE Outputs \/ Inputs \/ Commit \/ WriteHints \/ \E w \in Workers : OutputWorker(w)
  BY <1>1, <1>5, OutputsFrame, InputsFrame, CommitFrame, WriteHintsFrame,
     OutputWorkerFrame, Zenon
<1>6. ASSUME NEW w, InputWorkerMerge(w)
      PROVE  dead' \in BOOLEAN
  BY <1>1, <1>6, Zenon DEF InputWorkerMerge
<1>7. CASE UNCHANGED vars
  BY <1>1, <1>7 DEF vars
<1> QED
  BY <1>2, <1>3, <1>4, <1>5, <1>6, <1>7 DEF Next, InputWorker

(* The invariant: which batches each stage and queue holds, told by where the
   threads are; that the outputs workers only touch batches ahead of the inputs
   stage; what the inputs stage has matched; what the databases hold. *)
THEOREM PipeInvariant == Spec => []PipeInv
<1>1. Init => PipeInv
  <2> SUFFICES ASSUME Init PROVE PipeInv
    OBVIOUS
  <2>1. Conveyor /\ OutputsHeld /\ Matching /\ Committed
    BY ConveyorInit, OutputsHeldInit, MatchingInit, CommittedInit
  <2>2. Hinted
    <3>1. \A b \in 1..0 : FALSE
      OBVIOUS
    <3> QED
      BY <3>1, Zenon DEF Init, Hinted, None
  <2>3. dead \in BOOLEAN
    BY DEF Init
  <2> QED
    BY <2>1, <2>2, <2>3 DEF PipeInv, Matching
<1>2. PipeInv /\ [Next]_vars => PipeInv'
  <2> SUFFICES ASSUME PipeInv, [Next]_vars PROVE PipeInv'
    OBVIOUS
  <2>1. Conveyor' /\ Hinted'
    BY ConveyorStep, HintedStep DEF PipeInv
  <2>2. OutputsHeld' /\ Matching'
    BY OutputsHeldStep, MatchingStep DEF PipeInv, Matching
  <2>3. Committed'
    BY CommittedStep DEF PipeInv
  <2>4. dead' \in BOOLEAN
    BY DeadTyped DEF PipeInv
  <2> QED
    BY <2>1, <2>2, <2>3, <2>4 DEF PipeInv, Matching
<1> QED
  BY <1>1, <1>2, PTL DEF Spec

(* The pipeline scans like a single thread: at any moment, and so wherever the
   process dies, STXO and SUBSSH hold what a sequential scan of the first
   subsshTop batches would have written. *)
THEOREM PipelineSequential == Spec => []PipelineIsSequential
<1>1. PipeInv => PipelineIsSequential
  <2> SUFFICES ASSUME PipeInv PROVE PipelineIsSequential
    OBVIOUS
  <2>1. comBatch \in Nat /\ subsshTop = Stored
    BY DEF PipeInv, Conveyor, Numbers
  <2>2. InStxo = subsshTop + IF comAt = "subssh" THEN 1 ELSE 0
    BY <2>1 DEF InStxo, Stored
  <2> QED
    BY <2>2 DEF PipeInv, Committed, PipelineIsSequential
<1> QED
  BY <1>1, PipeInvariant, PTL

(* The throttle of the scan thread bounds the batches in memory, its unsigned
   arithmetic never wraps, and the future it waits on exists. *)
THEOREM ThrottleCorrect == Spec => []ThrottleHolds
<1>1. PipeInv => ThrottleHolds
  <2> SUFFICES ASSUME PipeInv PROVE ThrottleHolds
    OBVIOUS
  <2>1. scanAt = "batch" => count - completed <= Depth
    BY DEF PipeInv, Conveyor, Throttled
  <2>2. ASSUME scanAt \in {"throttle", "wait"}, Lag >= Depth
        PROVE  WaitIndex <= count
    <3>1. count \in Nat /\ completed \in Nat /\ Depth \in Nat
      BY Ranks, SizesPositive DEF PipeInv, Conveyor, Numbers
    <3>2. Lag = count - completed /\ (count >= Depth => WaitIndex = count - Depth)
      BY <2>2, LagExact DEF PipeInv
    <3> QED
      BY <2>2, <3>1, <3>2
  <2> QED
    BY <2>1, <2>2 DEF ThrottleHolds
<1> QED
  BY <1>1, PipeInvariant, PTL

(* However late the hint writer thread runs, only the last batch of SUBSSH can
   be without its transaction hints. *)
THEOREM HintsLag == Spec => []HintsLagOneBatch
<1>1. PipeInv => HintsLagOneBatch
  <2> SUFFICES ASSUME PipeInv, NEW b \in 1..(subsshTop - 1) PROVE b \in hints
    BY DEF HintsLagOneBatch
  <2>1. comBatch \in Nat /\ subsshTop \in Nat /\ subsshTop <= comBatch
    BY Ranks DEF PipeInv, Conveyor, Numbers
  <2>2. b \in 1..comBatch /\ b # comBatch
    BY <2>1
  <2> QED
    BY <2>2 DEF PipeInv, Hinted
<1> QED
  BY <1>1, PipeInvariant, PTL

(* Every queue, thread and map of the scan holds values of its kind. *)
THEOREM PipelineTyped == Spec => []TypeOK
<1>1. PipeInv => TypeOK
  <2> SUFFICES ASSUME PipeInv PROVE TypeOK
    OBVIOUS
  <2> USE DEF PipeInv
  <2>1. /\ OutTaken \in Nat /\ Pushed \in Nat /\ OutPassed \in Nat /\ InPassed \in Nat
        /\ completed \in Nat /\ subsshTop \in Nat
        /\ count \in Nat /\ outBatch \in Nat /\ inBatch \in Nat /\ comBatch \in Nat
        /\ outNext \in Nat
    BY Ranks DEF Conveyor, Numbers
  <2>2. /\ Pushed <= NBatches /\ OutPassed <= NBatches /\ InPassed <= NBatches
        /\ outBatch <= NBatches /\ OutTaken <= NBatches /\ inBatch <= NBatches
        /\ comBatch <= NBatches /\ completed <= NBatches /\ subsshTop <= NBatches
        /\ NBatches \in Nat
    BY <2>1, Ranks, SizesPositive
  <2>3. count \in 0..NBatches
    BY <2>1, <2>2 DEF Pushed
  <2>4. subsshTop \in 0..NBatches /\ completed \in 0..NBatches
    BY <2>1, <2>2
  <2>5. {outBatch, outNext, inBatch, comBatch} \subseteq Batch \cup {None}
    <3>1. outNext <= NBatches
      BY <2>1, <2>2 DEF OutTaken, None
    <3> QED
      BY <2>1, <2>2, <3>1 DEF Batch, None
  <2>6. {outputQueue, inputQueue, commitQueue} \subseteq Seq(Batch)
    <3>1. /\ Run(outputQueue, OutTaken, Pushed) /\ Run(inputQueue, inBatch, OutPassed)
          /\ Run(commitQueue, comBatch, InPassed)
      BY DEF Conveyor, Order
    <3>2. outputQueue \in Seq(Batch) /\ inputQueue \in Seq(Batch) /\ commitQueue \in Seq(Batch)
      BY <2>1, <2>2, <3>1, RunTyped
    <3> QED
      BY <3>2
  <2>7. promised \subseteq Batch
    BY <2>1, <2>2 DEF Conveyor, Numbers, Batch
  <2>8. stxo \in [Output -> {"absent", "unspent", "spent"}]
    BY DEF Committed, ScannedTo
  <2>9. utxoMap \subseteq Output
    <3>1. CASE inAt # "join"
      BY <3>1 DEF Matched, Paid, Output
    <3>2. CASE inAt = "join"
      <4>1. inBatch \in Batch
        BY <3>2, InputsBatch
      <4>2. blockMap[inBatch] \subseteq Block
        BY <4>1 DEF OutputsHeld
      <4>3. utxoMap \subseteq Paid(inBatch - 1) \cup blockMap[inBatch]
        BY <3>2 DEF Matched
      <4> QED
        BY <4>2, <4>3 DEF Paid, Output
    <3> QED
      BY <3>1, <3>2
  <2>10. Places
    BY DEF Conveyor
  <2> QED
    BY <2>3, <2>4, <2>5, <2>6, <2>7, <2>8, <2>9, <2>10, Zenon
       DEF TypeOK, OutputsHeld, InputsHeld, Hinted, Places, OutputQ!Closing
<1> QED
  BY <1>1, PipeInvariant, PTL
==============================================================================
