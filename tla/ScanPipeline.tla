--------------------------- MODULE ScanPipeline ---------------------------
(***************************************************************************)
(* BlockchainScanner::scan_nocheck (BlockchainScanner.cpp): the scan of a  *)
(* range of blocks by four threads that hand batches of blocks to each     *)
(* other through three BlockingQueues, with worker threads inside the      *)
(* outputs and the inputs stage.                                           *)
(*                                                                         *)
(*    scan --outputQueue_--> processOutputs --inputQueue_--> processInputs *)
(*         --commitQueue_--> writeBlockData (and its hint writer)          *)
(*                                                                         *)
(* The queues are three instances of ClosableQueue, which BlockingQueue    *)
(* implements.  Blocks are pairs <<batch, position>>; every block pays one *)
(* output of ours, named like the block, and spends the outputs that       *)
(* Spends gives.  Dead is the process killed by an uncaught exception or   *)
(* by a memory fault.                                                      *)
(***************************************************************************)
EXTENDS Integers, Sequences, FiniteSets

CONSTANTS
    NBatches,      \* batches the range is cut into
    BatchSize,     \* blocks per batch
    Workers,       \* totalThreadCount_ threads of a stage
    Depth,         \* writeQueueDepth_
    UintMod,       \* unsigned arithmetic is modulo this (2^32 in the code)
    OldOutputs,    \* unspent outputs of earlier blocks, already in STXO
    Spends,        \* the outputs each block spends
    Unreadable,    \* blocks whose data may turn out to be unreadable
    MayHalt        \* batches whose creation may throw

Batch == 1..NBatches
Block == Batch \X (1..BatchSize)
Output == Block \cup OldOutputs

ASSUME SizesPositive ==
    /\ NBatches \in Nat \ {0} /\ BatchSize \in Nat \ {0} /\ Depth \in Nat \ {0}
    /\ UintMod \in Nat /\ UintMod > NBatches + Depth
(* BlockDataManagerConfig takes a thread count only if it is above zero. *)
ASSUME WorkersSome == Workers # {}
ASSUME SpendsTyped == Spends \in [Block -> SUBSET Output]
(* A block spends outputs of earlier blocks or of its own batch, and the
   outputs of earlier scans are not those of the blocks to come. *)
ASSUME SpendsBackwards ==
    /\ OldOutputs \cap Block = {}
    /\ \A blk \in Block : \A o \in Spends[blk] : o \in OldOutputs \/ o[1] <= blk[1]

VARIABLES
    outputQueue, outputPop, outputClosed,   \* outputQueue_
    inputQueue, inputPop, inputClosed,      \* inputQueue_
    commitQueue, commitPop, commitClosed,   \* commitQueue_
    scanAt,      \* where the scan thread is
    count,       \* _count: batches pushed before the current one
    outAt, outBatch, outNext,   \* processOutputs: batch and nextBatch
    inAt, inBatch,              \* processInputs
    comAt, comBatch,            \* writeBlockData
    outRun, outGot,   \* running output workers, and what each holds
    inRun, inGot,     \* running input workers, and what each holds
    counter,     \* ParserBatch::blockCounter_
    blockMap,    \* ParserBatch::blockMap_ and outputMap_, merged together
    spent,       \* ParserBatch::spentOutputs_
    utxoMap,     \* utxoMap_
    stxo, subsshTop, hints,   \* the STXO, SUBSSH (sdbi) and TXHINTS databases
    hinting,     \* the hint writer thread of the current batch is running
    completed,   \* completedBatches_
    promised,    \* the batches whose completedPromise_ is set
    dead

queues == <<outputQueue, outputPop, outputClosed, inputQueue, inputPop,
            inputClosed, commitQueue, commitPop, commitClosed>>
outQ == <<outputQueue, outputPop, outputClosed>>
inQ == <<inputQueue, inputPop, inputClosed>>
comQ == <<commitQueue, commitPop, commitClosed>>
scanVars == <<scanAt, count>>
outVars == <<outAt, outBatch, outNext, outRun, outGot>>
inVars == <<inAt, inBatch, inRun, inGot>>
comVars == <<comAt, comBatch, hinting>>
batchVars == <<counter, blockMap, spent>>
dbVars == <<stxo, subsshTop, hints>>
doneVars == <<completed, promised>>
vars == <<queues, scanVars, outVars, inVars, comVars, batchVars, utxoMap,
          dbVars, doneVars, dead>>

None == 0
Nobody == [c \in {} |-> None]

OutputQ == INSTANCE ClosableQueue
    WITH Producers <- {}, Consumers <- {"outputs"}, Entries <- Batch,
         NoEntry <- None, queue <- outputQueue, pushing <- Nobody,
         popping <- outputPop, closed <- outputClosed

InputQ == INSTANCE ClosableQueue
    WITH Producers <- {}, Consumers <- {"inputs"}, Entries <- Batch,
         NoEntry <- None, queue <- inputQueue, pushing <- Nobody,
         popping <- inputPop, closed <- inputClosed

CommitQ == INSTANCE ClosableQueue
    WITH Producers <- {}, Consumers <- {"commit"}, Entries <- Batch,
         NoEntry <- None, queue <- commitQueue, pushing <- Nobody,
         popping <- commitPop, closed <- commitClosed

(* preloadUtxos has put the unspent outputs of STXO into utxoMap_. *)
Init ==
    /\ OutputQ!Init /\ InputQ!Init /\ CommitQ!Init
    /\ scanAt = "batch" /\ count = 0
    /\ outAt = "first" /\ outBatch = None /\ outNext = None
    /\ inAt = "pop" /\ inBatch = None
    /\ comAt = "pop" /\ comBatch = None
    /\ outRun = {} /\ outGot = [w \in Workers |-> {}]
    /\ inRun = {} /\ inGot = [w \in Workers |-> {}]
    /\ counter = [b \in Batch |-> 1]
    /\ blockMap = [b \in Batch |-> {}]
    /\ spent = [b \in Batch |-> {}]
    /\ utxoMap = OldOutputs
    /\ stxo = [o \in Output |-> IF o \in OldOutputs THEN "unspent" ELSE "absent"]
    /\ subsshTop = 0
    /\ hints = {}
    /\ hinting = FALSE
    /\ completed = 0
    /\ promised = {}
    /\ dead = FALSE

-----------------------------------------------------------------------------
(* scan_nocheck *)

ScanPush ==
    /\ scanAt = "batch" /\ count < NBatches
    /\ OutputQ!Push(count + 1)
    /\ scanAt' = "throttle"
    /\ UNCHANGED <<inQ, comQ, count, outVars, inVars, comVars, batchVars,
                   utxoMap, dbVars, doneVars, dead>>

(* An exception (a height getHeaderByHeight does not know, an allocation)
   ends the loop. *)
ScanHalt ==
    /\ scanAt = "batch" /\ count < NBatches
    /\ count + 1 \in MayHalt
    /\ scanAt' = "close"
    /\ UNCHANGED <<queues, count, outVars, inVars, comVars, batchVars, utxoMap,
                   dbVars, doneVars, dead>>

Unsigned(n) == n % UintMod

(* The batches that are pushed and not known to be written, and the future
   to wait on, as the code computes them, in unsigned arithmetic. *)
Lag == Unsigned(count - completed)
WaitIndex == Unsigned(count - Depth)

(* The load of completedBatches_, at any time after the push.  An index
   beyond completedFutures (which has count + 1 elements) would address memory
   gigabytes away: the process faults. *)
ScanThrottle ==
    /\ scanAt = "throttle"
    /\ IF Lag >= Depth
       THEN /\ scanAt' = "wait"
            /\ dead' = (WaitIndex > count)
            /\ UNCHANGED count
       ELSE /\ scanAt' = "batch"
            /\ count' = count + 1
            /\ UNCHANGED dead
    /\ UNCHANGED <<queues, outVars, inVars, comVars, batchVars, utxoMap,
                   dbVars, doneVars>>

(* futIter->wait(); future i belongs to batch i + 1. *)
ScanWait ==
    /\ scanAt = "wait"
    /\ WaitIndex + 1 \in promised
    /\ scanAt' = "batch"
    /\ count' = count + 1
    /\ UNCHANGED <<queues, outVars, inVars, comVars, batchVars, utxoMap,
                   dbVars, doneVars, dead>>

ScanComplete ==
    /\ scanAt = "close" \/ (scanAt = "batch" /\ count = NBatches)
    /\ OutputQ!Close("completed")
    /\ scanAt' = "join"
    /\ UNCHANGED <<inQ, comQ, count, outVars, inVars, comVars, batchVars,
                   utxoMap, dbVars, doneVars, dead>>

(* The joins, and the unconditional topScannedBlockHash_ = top. *)
ScanJoin ==
    /\ scanAt = "join"
    /\ outAt = "done" /\ inAt = "done" /\ comAt = "done"
    /\ scanAt' = "reported"
    /\ UNCHANGED <<queues, count, outVars, inVars, comVars, batchVars, utxoMap,
                   dbVars, doneVars, dead>>

-----------------------------------------------------------------------------
(* processOutputs and processOutputsThread *)

StartOutputs(b) ==
    /\ outBatch' = b
    /\ outRun' = Workers
    /\ outAt' = "next"

(* The first pop_front, which loops on StopBlockingLoop until it has a batch. *)
OutputsFirst ==
    /\ outAt = "first"
    /\ \/ OutputQ!Take("outputs") /\ StartOutputs(Head(outputQueue))
       \/ /\ \/ OutputQ!SeeEmpty("outputs") \/ OutputQ!LookAgain("outputs")
             \/ OutputQ!Stop("outputs") \/ OutputQ!Again("outputs")
          /\ UNCHANGED <<outAt, outBatch, outRun>>
    /\ UNCHANGED <<inQ, comQ, scanVars, outNext, outGot, inVars, comVars,
                   batchVars, utxoMap, dbVars, doneVars, dead>>

(* Mutant: the batch is handed on at once when no next one is queued. *)
OutputsNextPolls ==
    /\ outAt = "next"
    /\ \/ /\ OutputQ!Take("outputs")
          /\ outNext' = Head(outputQueue)
       \/ /\ OutputQ!SeeEmpty("outputs")
          /\ outNext' = None
    /\ outAt' = "join"
    /\ UNCHANGED <<inQ, comQ, scanVars, outBatch, outRun, outGot, inVars,
                   comVars, batchVars, utxoMap, dbVars, doneVars, dead>>

(* The next batch is popped while the workers parse the current one;
   StopBlockingLoop leaves nextBatch null. *)
OutputsNext ==
    /\ outAt = "next"
    /\ \/ /\ OutputQ!Take("outputs")
          /\ outNext' = Head(outputQueue)
          /\ outAt' = "join"
       \/ /\ OutputQ!SeeEmpty("outputs") \/ OutputQ!LookAgain("outputs")
          /\ UNCHANGED <<outNext, outAt>>
       \/ /\ OutputQ!Stop("outputs")
          /\ outNext' = None
          /\ outAt' = "join"
    /\ UNCHANGED <<inQ, comQ, scanVars, outBatch, outRun, outGot, inVars,
                   comVars, batchVars, utxoMap, dbVars, doneVars, dead>>

(* The workers are joined, the batch is handed on and the next one started. *)
OutputsPush ==
    /\ outAt = "join"
    /\ outRun = {}
    /\ InputQ!Push(outBatch)
    /\ IF outNext = None
       THEN outAt' = "close" /\ UNCHANGED <<outBatch, outRun>>
       ELSE StartOutputs(outNext)
    /\ outNext' = None
    /\ UNCHANGED <<outQ, comQ, scanVars, outGot, inVars, comVars, batchVars,
                   utxoMap, dbVars, doneVars, dead>>

OutputsComplete ==
    /\ outAt = "close"
    /\ InputQ!Close("completed")
    /\ outAt' = "done"
    /\ UNCHANGED <<outQ, comQ, scanVars, outBatch, outNext, outRun, outGot,
                   inVars, comVars, batchVars, utxoMap, dbVars, doneVars, dead>>

(* Mutant: the comparison with end_ is off by one. *)
OutputWorkerParsePastEnd(w) ==
    /\ w \in outRun
    /\ counter[outBatch] <= BatchSize + 1
    /\ outGot' = [outGot EXCEPT ![w] = @ \cup {<<outBatch, counter[outBatch]>>}]
    /\ counter' = [counter EXCEPT ![outBatch] = @ + 1]
    /\ UNCHANGED <<queues, scanVars, outAt, outBatch, outNext, outRun, inVars,
                   comVars, blockMap, spent, utxoMap, dbVars, doneVars, dead>>

(* A worker takes the next block; one it cannot read makes it return with
   everything it has parsed. *)
OutputWorkerParse(w) ==
    /\ w \in outRun
    /\ counter[outBatch] <= BatchSize
    /\ LET blk == <<outBatch, counter[outBatch]>> IN
           \/ /\ outGot' = [outGot EXCEPT ![w] = @ \cup {blk}]
              /\ UNCHANGED outRun
           \/ /\ blk \in Unreadable
              /\ outGot' = [outGot EXCEPT ![w] = {}]
              /\ outRun' = outRun \ {w}
    /\ counter' = [counter EXCEPT ![outBatch] = @ + 1]
    /\ UNCHANGED <<queues, scanVars, outAt, outBatch, outNext, inVars, comVars,
                   blockMap, spent, utxoMap, dbVars, doneVars, dead>>

(* No block left: merge under mergeMutex_. *)
OutputWorkerMerge(w) ==
    /\ w \in outRun
    /\ counter[outBatch] > BatchSize
    /\ blockMap' = [blockMap EXCEPT ![outBatch] = @ \cup outGot[w]]
    /\ outGot' = [outGot EXCEPT ![w] = {}]
    /\ outRun' = outRun \ {w}
    /\ UNCHANGED <<queues, scanVars, outAt, outBatch, outNext, inVars, comVars,
                   counter, spent, utxoMap, dbVars, doneVars, dead>>

-----------------------------------------------------------------------------
(* processInputs and processInputsThread *)

(* A batch arrives: reset its counter, merge its outputs, start the workers. *)
InputsPop ==
    /\ inAt = "pop"
    /\ \/ /\ InputQ!Take("inputs")
          /\ inBatch' = Head(inputQueue)
          /\ counter' = [counter EXCEPT ![Head(inputQueue)] = 1]
          /\ utxoMap' = utxoMap \cup blockMap[Head(inputQueue)]
          /\ inRun' = Workers
          /\ inAt' = "join"
       \/ /\ InputQ!SeeEmpty("inputs") \/ InputQ!LookAgain("inputs")
          /\ UNCHANGED <<inBatch, counter, utxoMap, inRun, inAt>>
       \/ /\ InputQ!Stop("inputs")
          /\ inAt' = "close"
          /\ UNCHANGED <<inBatch, counter, utxoMap, inRun>>
    /\ UNCHANGED <<outQ, comQ, scanVars, outVars, inGot, comVars, blockMap,
                   spent, dbVars, doneVars, dead>>

(* Mutant: a block that is missing from the batch is skipped. *)
InputWorkerSkip(w) ==
    /\ w \in inRun
    /\ counter[inBatch] <= BatchSize
    /\ LET blk == <<inBatch, counter[inBatch]>> IN
           inGot' = [inGot EXCEPT ![w] = @ \cup (Spends[blk] \cap utxoMap)]
    /\ counter' = [counter EXCEPT ![inBatch] = @ + 1]
    /\ UNCHANGED <<queues, scanVars, outVars, inAt, inBatch, inRun, comVars,
                   blockMap, spent, utxoMap, dbVars, doneVars, dead>>

(* A block that is missing from the batch is an exception nobody catches. *)
InputWorkerParse(w) ==
    /\ w \in inRun
    /\ counter[inBatch] <= BatchSize
    /\ LET blk == <<inBatch, counter[inBatch]>> IN
           /\ inGot' = [inGot EXCEPT ![w] = @ \cup (Spends[blk] \cap utxoMap)]
           /\ dead' = (blk \notin blockMap[inBatch])
    /\ counter' = [counter EXCEPT ![inBatch] = @ + 1]
    /\ UNCHANGED <<queues, scanVars, outVars, inAt, inBatch, inRun, comVars,
                   blockMap, spent, utxoMap, dbVars, doneVars>>

InputWorkerMerge(w) ==
    /\ w \in inRun
    /\ counter[inBatch] > BatchSize
    /\ spent' = [spent EXCEPT ![inBatch] = @ \cup inGot[w]]
    /\ inGot' = [inGot EXCEPT ![w] = {}]
    /\ inRun' = inRun \ {w}
    /\ UNCHANGED <<queues, scanVars, outVars, inAt, inBatch, comVars, counter,
                   blockMap, utxoMap, dbVars, doneVars, dead>>

(* The workers are joined, spent outputs leave utxoMap_, the batch goes on. *)
InputsPush ==
    /\ inAt = "join"
    /\ inRun = {}
    /\ utxoMap' = utxoMap \ spent[inBatch]
    /\ CommitQ!Push(inBatch)
    /\ inAt' = "pop"
    /\ UNCHANGED <<outQ, inQ, scanVars, outVars, inBatch, inRun, inGot,
                   comVars, batchVars, dbVars, doneVars, dead>>

(* Mutant: the thread leaves without marking commitQueue_ complete. *)
InputsLeave ==
    /\ inAt = "close"
    /\ inAt' = "done"
    /\ UNCHANGED <<queues, scanVars, outVars, inBatch, inRun, inGot,
                   comVars, batchVars, utxoMap, dbVars, doneVars, dead>>

InputsComplete ==
    /\ inAt = "close"
    /\ CommitQ!Close("completed")
    /\ inAt' = "done"
    /\ UNCHANGED <<outQ, inQ, scanVars, outVars, inBatch, inRun, inGot,
                   comVars, batchVars, utxoMap, dbVars, doneVars, dead>>

-----------------------------------------------------------------------------
(* writeBlockData and processAndCommitTxHints *)

(* A batch arrives and its hint writer starts.  The test for an empty
   blockMap_ that follows cannot succeed: processInputs has died by then. *)
CommitPop ==
    /\ comAt = "pop"
    /\ \/ /\ CommitQ!Take("commit")
          /\ comBatch' = Head(commitQueue)
          /\ hinting' = TRUE
          /\ comAt' = "stxo"
       \/ /\ CommitQ!SeeEmpty("commit") \/ CommitQ!LookAgain("commit")
          /\ UNCHANGED <<comBatch, hinting, comAt>>
       \/ /\ CommitQ!Stop("commit")
          /\ comAt' = "done"
          /\ UNCHANGED <<comBatch, hinting>>
    /\ UNCHANGED <<outQ, inQ, scanVars, outVars, inVars, batchVars, utxoMap,
                   dbVars, doneVars, dead>>

WriteHints ==
    /\ hinting
    /\ hints' = hints \cup {comBatch}
    /\ hinting' = FALSE
    /\ UNCHANGED <<queues, scanVars, outVars, inVars, comAt, comBatch,
                   batchVars, utxoMap, stxo, subsshTop, doneVars, dead>>

(* One STXO transaction: the outputs of the batch, then its spent outputs. *)
CommitStxo ==
    /\ comAt = "stxo"
    /\ stxo' = [o \in Output |->
                   IF o \in spent[comBatch] THEN "spent"
                   ELSE IF o \in blockMap[comBatch] THEN "unspent" ELSE stxo[o]]
    /\ comAt' = "subssh"
    /\ UNCHANGED <<queues, scanVars, outVars, inVars, comBatch, hinting,
                   batchVars, utxoMap, subsshTop, hints, doneVars, dead>>

(* One SUBSSH transaction, with the sdbi that names the top block. *)
CommitSubSsh ==
    /\ comAt = "subssh"
    /\ subsshTop' = comBatch
    /\ comAt' = "finish"
    /\ UNCHANGED <<queues, scanVars, outVars, inVars, comBatch, hinting,
                   batchVars, utxoMap, stxo, hints, doneVars, dead>>

(* Mutant: the hint writer is detached instead of joined. *)
CommitDetach ==
    /\ comAt = "finish"
    /\ completed' = completed + 1
    /\ promised' = promised \cup {comBatch}
    /\ comAt' = "pop"
    /\ UNCHANGED <<queues, scanVars, outVars, inVars, comBatch, hinting,
                   batchVars, utxoMap, dbVars, dead>>

(* The hint writer is joined, then the batch is counted and promised. *)
CommitFinish ==
    /\ comAt = "finish"
    /\ ~hinting
    /\ completed' = completed + 1
    /\ promised' = promised \cup {comBatch}
    /\ comAt' = "pop"
    /\ UNCHANGED <<queues, scanVars, outVars, inVars, comBatch, hinting,
                   batchVars, utxoMap, dbVars, dead>>

-----------------------------------------------------------------------------
Scan == ScanPush \/ ScanHalt \/ ScanThrottle \/ ScanWait \/ ScanComplete \/ ScanJoin
Outputs == OutputsFirst \/ OutputsNext \/ OutputsPush \/ OutputsComplete
OutputWorker(w) == OutputWorkerParse(w) \/ OutputWorkerMerge(w)
Inputs == InputsPop \/ InputsPush \/ InputsComplete
InputWorker(w) == InputWorkerParse(w) \/ InputWorkerMerge(w)
Commit == CommitPop \/ CommitStxo \/ CommitSubSsh \/ CommitFinish

Next ==
    /\ ~dead
    /\ \/ Scan \/ Outputs \/ Inputs \/ Commit \/ WriteHints
       \/ \E w \in Workers : OutputWorker(w) \/ InputWorker(w)

Spec == Init /\ [][Next]_vars

(* Every thread the scan starts is scheduled. *)
Fairness ==
    /\ WF_vars(~dead /\ Scan)
    /\ WF_vars(~dead /\ Outputs)
    /\ WF_vars(~dead /\ Inputs)
    /\ WF_vars(~dead /\ Commit)
    /\ WF_vars(~dead /\ WriteHints)
    /\ \A w \in Workers : /\ WF_vars(~dead /\ OutputWorker(w))
                          /\ WF_vars(~dead /\ InputWorker(w))

FairSpec == Spec /\ Fairness

-----------------------------------------------------------------------------
(* Every queue, thread and map of the scan holds values of its kind; a worker
   never draws a block past the end of its batch. *)
TypeOK ==
    /\ {outputQueue, inputQueue, commitQueue} \subseteq Seq(Batch)
    /\ {outputClosed, inputClosed, commitClosed} \subseteq OutputQ!Closing
    /\ scanAt \in {"batch", "throttle", "wait", "close", "join", "reported"}
    /\ count \in 0..NBatches
    /\ outAt \in {"first", "next", "join", "close", "done"}
    /\ {outBatch, outNext, inBatch, comBatch} \subseteq Batch \cup {None}
    /\ inAt \in {"pop", "join", "close", "done"}
    /\ comAt \in {"pop", "stxo", "subssh", "finish", "done"}
    /\ outRun \subseteq Workers /\ outGot \in [Workers -> SUBSET Block]
    /\ inRun \subseteq Workers /\ inGot \in [Workers -> SUBSET Output]
    /\ counter \in [Batch -> 1..(BatchSize + 1)]
    /\ blockMap \in [Batch -> SUBSET Block]
    /\ spent \in [Batch -> SUBSET Output]
    /\ utxoMap \subseteq Output
    /\ stxo \in [Output -> {"absent", "unspent", "spent"}]
    /\ subsshTop \in 0..NBatches /\ hints \subseteq Batch /\ hinting \in BOOLEAN
    /\ completed \in 0..NBatches /\ promised \subseteq Batch
    /\ dead \in BOOLEAN

(* What a sequential scan of the batches 1..k leaves in STXO. *)
ScannedTo(k) ==
    [o \in Output |->
        IF \E blk \in Block : blk[1] <= k /\ o \in Spends[blk] THEN "spent"
        ELSE IF o \in OldOutputs \/ o[1] <= k THEN "unspent" ELSE "absent"]

(* At every moment, and so at whatever moment the process dies, the databases
   hold what a sequential scan of the first subsshTop batches would have
   written: no block of a batch is missing, no spend is missed because the
   stages overlap, none is undone by a later write.  STXO alone may already
   hold the batch that is being committed. *)
PipelineIsSequential ==
    stxo = ScannedTo(subsshTop + IF comAt = "subssh" THEN 1 ELSE 0)

(* writeQueueDepth_ bounds the batches in memory: a new one is only created
   once at most Depth are pushed and not written.  The throttle waits on the
   future of a batch that exists: the difference of unsigned counters would
   wrap if the batch just pushed were written before the scan thread loads
   completedBatches_; the outputs stage, which keeps a batch until it has the
   next one, rules that out. *)
ThrottleHolds ==
    /\ (scanAt = "batch" /\ ~dead) => count - completed <= Depth
    /\ scanAt \in {"throttle", "wait"} => (Lag >= Depth => WaitIndex <= count)

(* A process that dies leaves at most the last batch of SUBSSH without its
   transaction hints, although they are written by a thread of their own. *)
HintsLagOneBatch == 1..(subsshTop - 1) \subseteq hints

(* The scan ends, with every thread joined, whatever the batches and wherever
   an exception stops their creation, or the process dies; except that an
   exception before the first batch is pushed leaves processOutputs' first
   loop retrying its pop for ever, and the scan thread waiting for it,
   where the comment at BlockchainScanner.cpp:199 says the scan terminates. *)
ScanEnds ==
    <>(dead \/ scanAt = "reported" \/ (scanAt = "join" /\ count = 0))

(* DatabaseBuilder::update compares the reported top with the chain's top to
   detect a failed scan: a scan that reports the top has committed it. *)
ReportedIsCommitted == scanAt = "reported" => subsshTop = NBatches

=============================================================================
