---------------------------- MODULE BlockHistory ----------------------------
(***************************************************************************)
(* The history side of DatabaseBuilder.cpp and BlockchainScanner.cpp (all  *)
(* db modes but supernode): what an update or a start-up does to the STXO, *)
(* TXHINTS, SUBSSH and SSH databases once the headers are organised, one   *)
(* action per database transaction, since a kill can fall between any two. *)
(*                                                                         *)
(* Every block has one transaction; it pays one output to a tracked        *)
(* address and may spend the output of a block below it.  All tracked      *)
(* addresses are at the same scanHeight_, so they are taken as one.  A     *)
(* balance is the sum of what each block adds to it: credit[b] counts the  *)
(* output of b and debit[b] its input in the SSH db.                       *)
(*                                                                         *)
(* The header side is what Blockchain models in detail; here blocks arrive *)
(* parents first and an update is one step that picks the heaviest chain.  *)
(***************************************************************************)
EXTENDS ChainTree

CONSTANTS
    Spends,      \* the block whose output a block's transaction spends, or NoBlock
    CleanModes,  \* how the server is started after a clean stop: "load"
                 \* (INIT_RESUME), "rescan" (INIT_RESCAN), "balance" (INIT_SSH)
    KillModes,   \* how it is started after a kill
    Registers,   \* TRUE: clients register new addresses while the server runs
    KillAt,      \* stages in which the server may be killed
    MaxStops     \* bound on the number of stops and kills

ASSUME SpendsAssumption ==
    /\ Spends \in [Block -> Block \cup {NoBlock}]
    /\ \A b \in Block : Spends[b] # NoBlock => Spends[b] \in Chain[b] \ {b}
    /\ \A b \in Block : \A a, c \in Chain[b] :
          a # c /\ Spends[a] # NoBlock => Spends[a] # Spends[c]

ASSUME HistoryBounds ==
    /\ CleanModes \cup KillModes \subseteq {"load", "rescan", "balance"}
    /\ Registers \in BOOLEAN /\ MaxStops \in Nat

NoHeight == -1

VARIABLES
    disk,        \* blocks in the block files
    stored,      \* headers in the HEADERS db
    top,         \* the top of the main branch
    validMain,   \* the block validDupByHeight_ names at each height
    stxo,        \* STXO db: the output of each block
    hinted,      \* TXHINTS db: blocks whose transaction can be found by hash
    subssh,      \* SUBSSH db: the entries recorded for each block
    subTop,      \* SUBSSH sdbi: topScannedBlkHash_ and topBlkHgt_
    credit,      \* SSH db: how often a block's output is in the balance
    debit,       \* SSH db: how often a block's input is in the balance
    scanHeight,  \* SSH db: scanHeight_ of the addresses
    sshTop,      \* SSH sdbi: topScannedBlkHash_ and topBlkHgt_
    merkleOk,    \* SSH sdbi: metaHash_ covers the addresses in the db
    pc,          \* where the builder thread is
    boot,        \* TRUE in DatabaseBuilder::init, FALSE in update
    force,       \* forceRescanSSH_
    prevTop,     \* ReorganizationState::prevTop_
    branch,      \* ReorganizationState::reorgBranchPoint_, NoBlock when valid
    start,       \* startHeight, scanFrom
    next,        \* first height of the next batch
    refHeight,   \* scannedHeight_ in the scan's TxOutScriptRef map
    utxo,        \* BlockchainScanner::utxoMap_
    batch,       \* the batch being committed, or what undo found
    hintsDone,   \* the batch's txhint writer thread is done
    stops

headers == <<stored, top, validMain>>
sshdb == <<credit, debit, scanHeight, sshTop>>
local == <<prevTop, branch, start, next, refHeight, utxo, batch, hintsDone>>
vars == <<disk, stored, top, validMain, stxo, hinted, subssh, subTop, credit,
          debit, scanHeight, sshTop, merkleOk, pc, boot, force, prevTop, branch,
          start, next, refHeight, utxo, batch, hintsDone, stops>>

NoBatch == [end |-> NoHeight, outs |-> {}, ins |-> {}]

(* A server that has scanned the genesis block. *)
Init ==
    /\ disk = {Genesis} /\ stored = {Genesis} /\ top = Genesis
    /\ validMain = [h \in Heights |-> IF h = 0 THEN Genesis ELSE NoBlock]
    /\ stxo = [b \in Block |-> IF b = Genesis THEN "unspent" ELSE "none"]
    /\ hinted = {Genesis}
    /\ subssh = [b \in Block |-> IF b = Genesis THEN {"out"} ELSE {}]
    /\ subTop = Genesis
    /\ credit = [b \in Block |-> IF b = Genesis THEN 1 ELSE 0]
    /\ debit = [b \in Block |-> 0]
    /\ scanHeight = 0 /\ sshTop = Genesis /\ merkleOk = TRUE
    /\ pc = "idle" /\ boot = FALSE /\ force = FALSE
    /\ prevTop = Genesis /\ branch = NoBlock
    /\ start = 0 /\ next = 0 /\ refHeight = NoHeight /\ utxo = {}
    /\ batch = NoBatch /\ hintsDone = TRUE
    /\ stops = 0

-----------------------------------------------------------------------------
(* Around the builder *)

(* The bitcoin node appends a block to its files. *)
NodeWrites(b) ==
    /\ b \notin disk /\ Parent[b] \in disk
    /\ disk' = disk \cup {b}
    /\ UNCHANGED <<headers, stxo, hinted, subssh, subTop, sshdb, merkleOk, pc,
                   boot, force, local, stops>>

(* registrationThread on addresses flagged as new: setSSHLastScanned enters them
   in the SSH db at the top height and leaves the merkle of the sdbi alone. *)
RegisterNewAddresses ==
    /\ Registers /\ pc = "idle"
    /\ merkleOk' = FALSE
    /\ UNCHANGED <<disk, headers, stxo, hinted, subssh, subTop, sshdb, pc, boot,
                   force, local, stops>>

-----------------------------------------------------------------------------
(* updateBlocksInDB *)

(* Where organize ends: a strictly heavier block, the first in hash order. *)
Heaviest(S, cur) ==
    LET better == {b \in S : ChainWork[b] > ChainWork[cur]}
    IN IF better = {} THEN cur
       ELSE CHOOSE b \in better : \A c \in better :
               \/ ChainWork[c] < ChainWork[b]
               \/ ChainWork[c] = ChainWork[b] /\ Rank[b] <= Rank[c]

ForkPoint(a, b) ==
    CHOOSE c \in Chain[a] \cap Chain[b] : Chain[a] \cap Chain[b] = Chain[c]

(* The blocks of S entered in validDupByHeight_. *)
Entered(S) ==
    [h \in Heights |-> IF \E b \in S : Height[b] = h
                       THEN CHOOSE b \in S : Height[b] = h ELSE validMain[h]]

(* Mutant: the previous top is scanned again. *)
StartAtPrevTop(prev, point) ==
    IF point = NoBlock THEN Height[prev] ELSE Height[point] + 1

(* startHeight of update(). *)
StartHeight(prev, point) ==
    IF point = NoBlock THEN Height[prev] + 1 ELSE Height[point] + 1

(* Mutant: the headers above the previous top are left for the next update. *)
HeadersPutLate == stored \cup Chain[top]

(* putNewBareHeaders: no header is without a height here. *)
HeadersPut == disk

(* Parse, organise, write the new headers.  update() returns when the top did
   not change; init() goes on in any case. *)
UpdateBlocksInDB ==
    /\ pc = "sync" \/ (pc = "idle" /\ disk # stored)
    /\ LET t == Heaviest(disk, top)
           point == IF top \in Chain[t] THEN NoBlock ELSE ForkPoint(top, t)
       IN /\ top' = t
          /\ prevTop' = top
          /\ branch' = point
          /\ validMain' = Entered(Chain[t] \ stored)
          /\ stored' = HeadersPut
          /\ start' = StartHeight(top, point)
          /\ pc' = IF boot THEN "plan"
                   ELSE IF t = top THEN "idle"
                   ELSE IF point = NoBlock THEN "scan" ELSE "undo"
    /\ UNCHANGED <<disk, stxo, hinted, subssh, subTop, sshdb, merkleOk, boot,
                   force, next, refHeight, utxo, batch, hintsDone, stops>>

-----------------------------------------------------------------------------
(* BlockchainScanner::undo, and the end of undoHistory *)

(* Of the blocks from the previous top down to the branch point, those the
   addresses were scanned over. *)
UndoneOuts == {b \in Above(branch, prevTop) : scanHeight >= Height[b]}

(* Their inputs, when the output they spend is found by hash and in STXO. *)
UndoneIns ==
    {b \in UndoneOuts : /\ Spends[b] \in hinted
                        /\ stxo[Spends[b]] # "none"}

UndoneStxo ==
    [b \in Block |->
        IF b \in UndoneOuts THEN "none"
        ELSE IF \E c \in UndoneIns : Spends[c] = b THEN "unspent"
        ELSE stxo[b]]

(* The STXO transaction. *)
UndoSpentness ==
    /\ pc = "undo"
    /\ batch' = [end |-> NoHeight, outs |-> UndoneOuts, ins |-> UndoneIns]
    /\ stxo' = UndoneStxo
    /\ pc' = "undossh"
    /\ UNCHANGED <<disk, headers, hinted, subssh, subTop, sshdb, merkleOk, boot,
                   force, prevTop, branch, start, next, refHeight, utxo,
                   hintsDone, stops>>

(* f with n added for every block of S. *)
Add(f, S, n) == [b \in Block |-> IF b \in S THEN f[b] + n ELSE f[b]]

(* The SSH transaction; SUBSSH is not undone.  Then updateBranchingMaps. *)
UndoSsh ==
    /\ pc = "undossh"
    /\ credit' = Add(credit, batch.outs, -1)
    /\ debit' = Add(debit, batch.ins, -1)
    /\ scanHeight' = IF scanHeight > Height[branch] THEN Height[branch]
                     ELSE scanHeight
    /\ sshTop' = branch
    /\ validMain' = Entered(Above(branch, top) \cup {branch})
    /\ batch' = NoBatch
    /\ pc' = "scan"
    /\ UNCHANGED <<disk, stored, top, stxo, hinted, subssh, subTop, merkleOk,
                   boot, force, prevTop, branch, start, next, refHeight, utxo,
                   hintsDone, stops>>

-----------------------------------------------------------------------------
(* BlockchainScanner::scan *)

(* check_merkle: the block SUBSSH was scanned to, if it is on the main branch,
   raises the height to scan from. *)
ScanFrom ==
    IF subTop \in Chain[top] /\ Height[subTop] > start
    THEN Height[subTop] ELSE start

(* The unspent outputs of STXO, by the hash of their transactions, which is read
   from TXHINTS: without it, the output is put where no input finds it. *)
PreloadUtxos == {b \in hinted : stxo[b] = "unspent"}

(* check_merkle and the beginning of scan_nocheck.  A scan that has nothing to
   do reports the top as scanned only when the SUBSSH block is on the main
   branch; otherwise the builder finds the wrong top, its repair has nothing to
   add (assessBlkFile returns an empty map) and it throws. *)
Scan ==
    /\ pc = "scan"
    /\ merkleOk' = TRUE
    /\ IF ScanFrom > Height[top]
       THEN /\ pc' = IF subTop \in Chain[top] THEN "ssh" ELSE "failed"
            /\ UNCHANGED <<next, refHeight, utxo>>
       ELSE /\ next' = ScanFrom
            /\ refHeight' = scanHeight
            /\ utxo' = PreloadUtxos
            /\ pc' = "batch"
    /\ UNCHANGED <<disk, headers, stxo, hinted, subssh, subTop, sshdb, boot,
                   force, prevTop, branch, start, batch, hintsDone, stops>>

(* processOutputsThread: outputs of addresses not yet scanned at that height. *)
BatchOuts(end) ==
    {b \in Chain[top] : next <= Height[b] /\ Height[b] <= end
                        /\ Height[b] > refHeight}

(* Mutant: outputs of the batch itself are not merged before its inputs. *)
BatchInsBeforeMerge(end) ==
    {b \in Chain[top] : next <= Height[b] /\ Height[b] <= end
                        /\ Spends[b] \in utxo}

(* processInputsThread: inputs that spend a known output. *)
BatchIns(end) ==
    {b \in Chain[top] : next <= Height[b] /\ Height[b] <= end
                        /\ Spends[b] \in utxo \cup BatchOuts(end)}

(* The next batch, up to some height, through the output and input threads. *)
ParseBatch ==
    /\ pc = "batch"
    /\ \E end \in next..Height[top] :
          LET outs == BatchOuts(end)
              ins == BatchIns(end)
          IN /\ batch' = [end |-> end, outs |-> outs, ins |-> ins]
             /\ utxo' = (utxo \cup outs) \ {Spends[b] : b \in ins}
    /\ hintsDone' = FALSE
    /\ pc' = "stxo"
    /\ UNCHANGED <<disk, headers, stxo, hinted, subssh, subTop, sshdb, merkleOk,
                   boot, force, prevTop, branch, start, next, refHeight, stops>>

(* writeBlockData, the STXO transaction: spent outputs override unspent ones. *)
WriteStxo ==
    /\ pc = "stxo"
    /\ stxo' = [b \in Block |->
                  IF \E c \in batch.ins : Spends[c] = b THEN "spent"
                  ELSE IF b \in batch.outs THEN "unspent"
                  ELSE stxo[b]]
    /\ pc' = "subssh"
    /\ UNCHANGED <<disk, headers, hinted, subssh, subTop, sshdb, merkleOk, boot,
                   force, local, stops>>

(* What a batch records for block b. *)
Entries(b) ==
    (IF b \in batch.outs THEN {"out"} ELSE {})
        \cup (IF b \in batch.ins THEN {"in"} ELSE {})

(* The SUBSSH transaction: an entry replaces the one under its key. *)
WriteSubssh ==
    /\ pc = "subssh"
    /\ subssh' = [b \in Block |-> IF Entries(b) # {} THEN Entries(b) ELSE subssh[b]]
    /\ subTop' = CHOOSE b \in Chain[top] : Height[b] = batch.end
    /\ pc' = "join"
    /\ UNCHANGED <<disk, headers, stxo, hinted, sshdb, merkleOk, boot, force,
                   local, stops>>

(* processAndCommitTxHints, a thread of its own. *)
WriteHints ==
    /\ pc \in {"stxo", "subssh", "join"} /\ ~hintsDone
    /\ hinted' = hinted \cup batch.outs \cup batch.ins
    /\ hintsDone' = TRUE
    /\ UNCHANGED <<disk, headers, stxo, subssh, subTop, sshdb, merkleOk, pc, boot,
                   force, prevTop, branch, start, next, refHeight, utxo, batch,
                   stops>>

(* Mutant: the loop waits for a height above the top. *)
ScanDoneAbove(end) == end > Height[top]

(* The loop of scan_nocheck ends at the top. *)
ScanDone(end) == end >= Height[top]

(* The hint thread is joined; the scan goes on to the top. *)
EndBatch ==
    /\ pc = "join" /\ hintsDone
    /\ next' = batch.end + 1
    /\ batch' = NoBatch
    /\ pc' = IF ScanDone(batch.end) THEN "ssh" ELSE "batch"
    /\ UNCHANGED <<disk, headers, stxo, hinted, subssh, subTop, sshdb, merkleOk,
                   boot, force, prevTop, branch, start, refHeight, utxo,
                   hintsDone, stops>>

-----------------------------------------------------------------------------
(* updateSSH *)

(* parseSubSsh: the entries added up, by height and by duplicate id. *)
Counted(from) == {b \in Block : Height[b] >= from /\ validMain[Height[b]] = b}

(* The early returns. *)
SshScanned(from) ==
    \/ from > Height[top]
    \/ /\ ~force
       /\ sshTop \in Chain[top]
       /\ Height[sshTop] # 0 /\ Height[sshTop] >= Height[top]

UpdateSSH ==
    /\ pc = "ssh"
    /\ LET from == IF force THEN 0 ELSE start
       IN IF SshScanned(from)
          THEN UNCHANGED sshdb
          ELSE /\ credit' = Add(credit, {b \in Counted(from) : "out" \in subssh[b]}, 1)
               /\ debit' = Add(debit, {b \in Counted(from) : "in" \in subssh[b]}, 1)
               /\ scanHeight' = Height[top]
               /\ sshTop' = top
    /\ pc' = "idle"
    /\ boot' = FALSE
    /\ UNCHANGED <<disk, headers, stxo, hinted, subssh, subTop, merkleOk, force,
                   local, stops>>

-----------------------------------------------------------------------------
(* The server stops, and DatabaseBuilder::init *)

(* A stop between updates. *)
Stop ==
    /\ stops < MaxStops /\ pc = "idle"
    /\ stops' = stops + 1
    /\ pc' = "down"
    /\ UNCHANGED <<disk, headers, stxo, hinted, subssh, subTop, sshdb, merkleOk,
                   boot, force, local>>

(* A kill between two transactions. *)
Kill ==
    /\ stops < MaxStops /\ pc \in KillAt
    /\ stops' = stops + 1
    /\ pc' = "killed"
    /\ UNCHANGED <<disk, headers, stxo, hinted, subssh, subTop, sshdb, merkleOk,
                   boot, force, local>>

(* Mutant: the STXO db is kept. *)
ResetHistoryKeepsStxo ==
    /\ stxo' = stxo
    /\ hinted' = {}
    /\ subssh' = [b \in Block |-> {}]
    /\ subTop' = Genesis

(* resetHistoryDatabases but for the SSH entries, which keep their scanHeight_. *)
ResetHistory ==
    /\ stxo' = [b \in Block |-> "none"]
    /\ hinted' = {}
    /\ subssh' = [b \in Block |-> {}]
    /\ subTop' = Genesis

(* resetSSHdb. *)
ResetSSHdb ==
    /\ credit' = [b \in Block |-> 0]
    /\ debit' = [b \in Block |-> 0]
    /\ sshTop' = Genesis

(* Mutant: the addresses keep their height, as in DatabaseBuilder::resetHistory. *)
RestartHeightKept(mode) == scanHeight

(* ScrAddrFilter::resetSshDB: a rescan forgets how far the addresses were. *)
RestartHeight(mode) == IF mode = "rescan" THEN NoHeight ELSE scanHeight

(* BlockDataManager::resetDatabases for the init mode, then the headers of the
   db are loaded and organised from scratch, and validDupByHeight_ with them. *)
Restart(mode) ==
    /\ \/ pc = "down" /\ mode \in CleanModes
       \/ pc = "killed" /\ mode \in KillModes
    /\ IF mode = "rescan" THEN ResetHistory
       ELSE UNCHANGED <<stxo, hinted, subssh, subTop>>
    /\ IF mode = "load" THEN UNCHANGED <<credit, debit, sshTop>> ELSE ResetSSHdb
    /\ scanHeight' = RestartHeight(mode)
    /\ top' = Heaviest(stored, Genesis)
    /\ validMain' = [h \in Heights |->
                       IF \E b \in Chain[top'] : Height[b] = h
                       THEN CHOOSE b \in Chain[top'] : Height[b] = h ELSE NoBlock]
    /\ force' = (mode = "balance")
    /\ boot' = TRUE
    /\ pc' = "sync"
    /\ prevTop' = Genesis /\ branch' = NoBlock
    /\ start' = 0 /\ next' = 0 /\ refHeight' = NoHeight /\ utxo' = {}
    /\ batch' = NoBatch /\ hintsDone' = TRUE
    /\ UNCHANGED <<disk, stored, merkleOk, stops>>

(* Mutant: a reorganisation does not lower the height. *)
BootStartIgnoresBranch ==
    IF Height[subTop] > Height[sshTop] THEN Height[subTop]
    ELSE IF scanHeight = NoHeight THEN NoHeight ELSE scanHeight + 1

(* ScrAddrFilter::scanFrom, or the height SUBSSH is at when it is ahead of SSH;
   not above the branch point of a reorganisation. *)
BootStart ==
    LET s == IF Height[subTop] > Height[sshTop] THEN Height[subTop]
             ELSE IF scanHeight = NoHeight THEN NoHeight ELSE scanHeight + 1
    IN IF branch # NoBlock /\ Height[branch] + 1 < s THEN Height[branch] + 1 ELSE s

(* init between updateBlocksInDB and the scan: with new addresses everything is
   reset and scanned again, and a reorganisation is not undone. *)
PlanScan ==
    /\ pc = "plan"
    /\ IF merkleOk
       THEN /\ start' = BootStart
            /\ pc' = IF branch = NoBlock THEN "scan" ELSE "undo"
            /\ UNCHANGED <<stxo, hinted, subssh, subTop, credit, debit, sshTop>>
       ELSE /\ start' = NoHeight
            /\ pc' = "scan"
            /\ ResetHistory /\ ResetSSHdb
    /\ UNCHANGED <<disk, headers, scanHeight, merkleOk, boot, force, prevTop,
                   branch, next, refHeight, utxo, batch, hintsDone, stops>>

-----------------------------------------------------------------------------
(* The steps of the builder thread and of the hint thread it waits for. *)
Builder ==
    \/ UpdateBlocksInDB \/ PlanScan
    \/ UndoSpentness \/ UndoSsh
    \/ Scan \/ ParseBatch \/ WriteStxo \/ WriteSubssh \/ WriteHints \/ EndBatch
    \/ UpdateSSH

Next ==
    \/ Builder
    \/ \E b \in Block \ {Genesis} : NodeWrites(b)
    \/ RegisterNewAddresses
    \/ Stop \/ Kill
    \/ \E mode \in CleanModes \cup KillModes : Restart(mode)

Spec == Init /\ [][Next]_vars

(* An update or a start-up that has begun goes on to its end; nothing obliges an
   update to begin, which takes an announcement of the node.  The node, the
   clients and whoever stops the server owe nothing, but a stopped server is
   started again. *)
FairSpec ==
    /\ Spec
    /\ WF_vars(pc # "idle" /\ Builder)
    /\ WF_vars(\E mode \in CleanModes \cup KillModes : Restart(mode))
-----------------------------------------------------------------------------
(* The history databases are well typed. *)
TypeOK ==
    /\ disk \subseteq Block /\ stored \subseteq disk /\ top \in stored
    /\ validMain \in [Heights -> Block \cup {NoBlock}]
    /\ stxo \in [Block -> {"none", "unspent", "spent"}]
    /\ hinted \subseteq Block
    /\ subssh \in [Block -> SUBSET {"out", "in"}]
    /\ subTop \in stored /\ sshTop \in stored
    /\ credit \in [Block -> Int] /\ debit \in [Block -> Int]
    /\ scanHeight \in Int
    /\ merkleOk \in BOOLEAN /\ boot \in BOOLEAN /\ force \in BOOLEAN
    /\ pc \in {"idle", "sync", "plan", "undo", "undossh", "scan", "batch", "stxo",
               "subssh", "join", "ssh", "down", "killed", "failed"}
    /\ prevTop \in Block /\ branch \in Block \cup {NoBlock}
    /\ start \in Int /\ next \in Int /\ refHeight \in Int
    /\ utxo \subseteq Block
    /\ batch \in [end : Int, outs : SUBSET Block, ins : SUBSET Block]
    /\ hintsDone \in BOOLEAN /\ stops \in 0..MaxStops

One(p) == IF p THEN 1 ELSE 0

(* Between updates a balance holds the outputs and inputs of the main branch,
   each once, and nothing of an abandoned branch: what update() and init() are
   for. *)
HistoryIsMain ==
    pc = "idle" => \A b \in Block :
        /\ credit[b] = One(b \in Chain[top])
        /\ debit[b] = One(b \in Chain[top] /\ Spends[b] # NoBlock)

(* Between updates the STXO db holds the outputs of the main branch, spent
   exactly when a block of the main branch spends them: what the next scan
   preloads as utxos. *)
StxoIsMain ==
    pc = "idle" => \A b \in Block :
        stxo[b] = IF b \notin Chain[top] THEN "none"
                  ELSE IF \E c \in Chain[top] : Spends[c] = b THEN "spent"
                  ELSE "unspent"

(* At no point, undo and scan included, is a block in a balance twice or taken
   out of it without having been in it (totalUnspent_ is unsigned). *)
TallyNeverOff ==
    \A b \in Block : credit[b] \in {0, 1} /\ debit[b] \in {0, 1}

(* The builder does not end in "failed to repair DB" or "scan failure". *)
NeverFails == pc # "failed"

(* Every update ends, with the history of a chain at least as heavy as any block
   it has read: also for a block of a branch that lost when it was read, and
   whatever the node writes meanwhile.  That an announced block gets to an
   update is NodeFeed's SignalledProcessed. *)
UpdatesEnd ==
    \A b \in Block : b \in stored ~>
        (pc = "idle" /\ sshTop = top /\ ChainWork[top] >= ChainWork[b])
-----------------------------------------------------------------------------
(* The header side, as this module has it. *)
Promise ==
    INSTANCE MainBranch WITH have <- stored, best <- top, prev <- prevTop, fork <- branch

(* What this module takes the header side to do is what MainBranch says, which
   is what Blockchain is shown to implement. *)
FollowsMainBranch == Promise!Spec
=============================================================================
