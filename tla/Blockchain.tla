----------------------------- MODULE Blockchain -----------------------------
(***************************************************************************)
(* Blockchain.cpp and the header side of DatabaseBuilder.cpp: block files   *)
(* are parsed into headers, the headers are organised into a main branch   *)
(* (incrementally, or from scratch after a reorganisation and at start-up),*)
(* and new headers are written to the HEADERS db, which gives each block   *)
(* its duplicate id at its height.                                         *)
(*                                                                         *)
(* The server can be killed at any moment; the block files (written by the *)
(* bitcoin node) and the HEADERS db survive.                               *)
(***************************************************************************)
EXTENDS ChainTree, Sequences

CONSTANTS
    MaxId,       \* bound on block ids, a bound of the model
    MaxCrash,    \* bound on the number of kills
    FileCap,     \* blocks per block file
    Rewind,      \* rewindCount of DatabaseBuilder::init
    InOrder,     \* TRUE: the node writes no block before its parent
    CrashHeight, \* the server is killed with a chain of this height on disk
    Tracking     \* what getAllScrAddrInDB finds at start-up: "none", the
                 \* addresses of the last run ("same"), or "new" ones as well

ASSUME BlockchainBounds ==
    /\ MaxId \in Nat /\ MaxCrash \in Nat
    /\ FileCap \in Nat \ {0} /\ Rewind \in Nat
    /\ InOrder \in BOOLEAN
    /\ CrashHeight \in Nat
    /\ Tracking \in {"none", "same", "new"}

NoHeight == -1       \* UINT32_MAX
NoSum == -1          \* difficultySum_ of an unsolved header
NoDup == -1          \* UINT8_MAX
NoId == -1           \* uniqueID_ of a header never parsed

VARIABLES
    file,        \* the block files, as one sequence of blocks
    offset,      \* topBlockOffset_: blocks of file already parsed
    known,       \* keys of headerMap_
    id,          \* uniqueID_ of each header
    byId,        \* headersById_
    topId,       \* topID_
    newly,       \* newlyParsedBlocks_
    sum,         \* difficultySum_
    hgt,         \* blockHeight_
    finished,    \* isFinishedCalc_
    main,        \* isMainBranch_
    next,        \* nextHash_
    byHeight,    \* headersByHeight_
    top,         \* topBlockPtr_
    topBlockId,  \* topBlockId_
    dup,         \* duplicateID_
    validDup,    \* LMDBBlockDatabase::validDupByHeight_
    dbHgt,       \* height of each header in the HEADERS db
    phase,       \* where DatabaseBuilder is
    boot,        \* TRUE in DatabaseBuilder::init, FALSE in update
    reorg,       \* the ReorganizationState of the last organize
    crashes

vars == <<file, offset, known, id, byId, topId, newly, sum, hgt, finished, main,
          next, byHeight, top, topBlockId, dup, validDup, dbHgt, phase, boot,
          reorg, crashes>>

Ids == 0..MaxId

NoReorg == [prevTop |-> Genesis, newTop |-> Genesis, branch |-> NoBlock,
            hasNewTop |-> FALSE]

(* A server that has parsed and stored a block file holding the genesis block. *)
Init ==
    /\ file = <<Genesis>>
    /\ offset = 1
    /\ known = {Genesis}
    /\ id = [b \in Block |-> IF b = Genesis THEN 0 ELSE NoId]
    /\ byId = [i \in Ids |-> IF i = 0 THEN Genesis ELSE NoBlock]
    /\ topId = 1
    /\ newly = {}
    /\ sum = [b \in Block |-> IF b = Genesis THEN 1 ELSE NoSum]
    /\ hgt = [b \in Block |-> IF b = Genesis THEN 0 ELSE NoHeight]
    /\ finished = {Genesis}
    /\ main = {Genesis}
    /\ next = [b \in Block |-> NoBlock]
    /\ byHeight = [h \in Heights |-> IF h = 0 THEN Genesis ELSE NoBlock]
    /\ top = Genesis
    /\ topBlockId = 0
    /\ dup = [b \in Block |-> IF b = Genesis THEN 0 ELSE NoDup]
    /\ validDup = [h \in Heights |-> IF h = 0 THEN 0 ELSE NoDup]
    /\ dbHgt = [b \in Block |-> IF b = Genesis THEN 0 ELSE NoHeight]
    /\ phase = "idle"
    /\ boot = FALSE
    /\ reorg = NoReorg
    /\ crashes = 0

-----------------------------------------------------------------------------
(* The bitcoin node appends a block to its files. *)
NodeWrites(b) ==
    /\ \A i \in DOMAIN file : file[i] # b
    /\ InOrder => \E i \in DOMAIN file : file[i] = Parent[b]
    /\ file' = Append(file, b)
    /\ UNCHANGED <<offset, known, id, byId, topId, newly, sum, hgt, finished,
                   main, next, byHeight, top, topBlockId, dup, validDup, dbHgt,
                   phase, boot, reorg, crashes>>

-----------------------------------------------------------------------------
(* updateBlocksInDB: parsing *)

FileNum(i) == (i - 1) \div FileCap

(* The ids handed out by getNewUniqueID to the blocks at positions ps of the
   files: one thread per file parses it in order, and fetch_add serves the
   threads in any order.  A block that is already known takes an id too. *)
IdAssignments(ps) ==
    {f \in [ps -> topId..(topId + Cardinality(ps) - 1)] :
        \A i, j \in ps : i # j =>
            /\ f[i] # f[j]
            /\ i < j /\ FileNum(i) = FileNum(j) => f[i] < f[j]}

(* addBlocksToDB on every file from topBlockOffset_ on, and addBlocksInBulk:
   headers that are already known are dropped. *)
ParseBlocks ==
    /\ phase \in {"idle", "parse"}
    /\ LET ps == {i \in DOMAIN file : i > offset}
           fresh == {i \in ps : file[i] \notin known}
           PosOf(b) == CHOOSE i \in ps : file[i] = b
           FreshAt(f, n) == {i \in fresh : f[i] = n}
       IN /\ phase = "idle" => ps # {}
          /\ topId + Cardinality(ps) <= MaxId
          /\ \E f \in IdAssignments(ps) :
                /\ id' = [b \in Block |->
                            IF \E i \in fresh : file[i] = b
                            THEN f[PosOf(b)] ELSE id[b]]
                /\ byId' = [n \in Ids |->
                            IF FreshAt(f, n) # {}
                            THEN file[CHOOSE i \in fresh : f[i] = n]
                            ELSE byId[n]]
          /\ topId' = topId + Cardinality(ps)
          /\ known' = known \cup {file[i] : i \in fresh}
          /\ newly' = newly \cup {file[i] : i \in fresh}
          /\ offset' = Len(file)
    /\ phase' = "organize"
    /\ UNCHANGED <<file, sum, hgt, finished, main, next, byHeight, top,
                   topBlockId, dup, validDup, dbHgt, boot, reorg, crashes>>

-----------------------------------------------------------------------------
(* organizeChain *)

(* traceChainDown, for every header: walk prevHash through unsolved headers to
   a solved one, then add up difficulties and heights on the way back.  A walk
   that leaves headerMap_ finds an orphan, which stays unsolved. *)
Solved(s) == {b \in known : s[b] # NoSum}

(* Mutant: a parent that is not in headerMap_ does not stop the walk. *)
TraceBaseThroughGaps(a, b, s) == FirstMet(a, b, Solved(s))

TraceBase(a, b, s) ==
    FirstMet(a, b, Solved(s)) /\ Above(a, b) \subseteq known

Traced(s) == {b \in known : \E a \in Chain[b] : TraceBase(a, b, s)}

(* Mutant: only the last difficulty of the stack is added. *)
TracedSumLastOnly(s) ==
    [b \in Block |->
        IF b \in Traced(s)
        THEN LET a == CHOOSE a \in Chain[b] : TraceBase(a, b, s)
             IN IF a = b THEN s[a] ELSE s[a] + (ChainWork[b] - ChainWork[Parent[b]])
        ELSE s[b]]

TracedSum(s) ==
    [b \in Block |->
        IF b \in Traced(s)
        THEN LET a == CHOOSE a \in Chain[b] : TraceBase(a, b, s)
             IN s[a] + (ChainWork[b] - ChainWork[a])
        ELSE s[b]]

TracedHgt(s, h) ==
    [b \in Block |->
        IF b \in Traced(s)
        THEN LET a == CHOOSE a \in Chain[b] : TraceBase(a, b, s)
             IN h[a] + (Height[b] - Height[a])
        ELSE h[b]]

(* Mutant: a header as heavy as the candidate replaces it. *)
IsHeaviestOrEqual(t, p, best, s) ==
    LET better == {b \in Solved(s) : s[b] >= best}
    IN /\ t \in better
       /\ \A b \in better :
             s[b] < s[t] \/ (s[b] = s[t] /\ Rank[t] >= Rank[b])

(* Mutant: headers come in no fixed order, as from an unordered map. *)
IsHeaviestUnordered(t, p, best, s) ==
    LET better == {b \in Solved(s) : s[b] > best}
    IN IF better = {} THEN t = p
       ELSE t \in better /\ \A b \in better : s[b] <= s[t]

(* The block the loop over headerMap_ ends on: headers come in the order of
   their hashes and only a strictly larger sum replaces the candidate, which
   starts as the previous top p with the sum it had before tracing. *)
IsHeaviest(t, p, best, s) ==
    LET better == {b \in Solved(s) : s[b] > best}
    IN IF better = {}
       THEN t = p
       ELSE /\ t \in better
            /\ \A b \in better :
                  s[b] < s[t] \/ (s[b] = s[t] /\ Rank[t] <= Rank[b])

(* The walk from the new top t down to the first finished header f marks the
   headers it visits and indexes them by height. *)
MarkedNext(t, f, n) ==
    [b \in Block |->
        IF b = t THEN NoBlock
        ELSE IF \E c \in Above(f, t) : Parent[c] = b
        THEN CHOOSE c \in Above(f, t) : Parent[c] = b
        ELSE n[b]]

MarkedByHeight(t, f, h) ==
    [k \in Heights |->
        IF \E b \in Above(f, t) \cup {f} : h[b] = k
        THEN CHOOSE b \in Above(f, t) \cup {f} : h[b] = k
        ELSE byHeight[k]]

(* The header under topBlockId_. *)
PrevTop ==
    IF topBlockId \in Ids /\ byId[topBlockId] # NoBlock
    THEN byId[topBlockId] ELSE Genesis

(* organizeChain on fields s, h, fin, m, n (as they are, or as a rebuild resets
   them), ending on the top t above the first finished header f. *)
OrganizePass(s, h, fin, m, n, t, f) ==
    LET s1 == TracedSum(s)
        h1 == TracedHgt(s, h)
    IN /\ IsHeaviest(t, PrevTop, s[PrevTop], s1)
       /\ FirstMet(f, t, fin)
       /\ sum' = s1
       /\ hgt' = h1
       /\ finished' = fin \cup Above(f, t)
       /\ main' = m \cup Above(f, t) \cup {f}
       /\ next' = MarkedNext(t, f, n)
       /\ byHeight' = MarkedByHeight(t, f, h1)
       /\ topBlockId' = id[t]
       /\ top' = t

(* Mutant: a previous top below the new one counts as still valid. *)
PrevTopBelow(t, f) == sum[PrevTop] <= TracedSum(sum)[t]

(* prevChainStillValid: the walk met the previous top. *)
PrevTopMet(t, f) == PrevTop \in Above(f, t) \cup {f}

(* Mutant: the branch point is the old top. *)
BranchPointOldTop(t, f) == IF PrevTopMet(t, f) THEN NoBlock ELSE PrevTop

(* What organizeChain returns: null, or where the walk ended. *)
BranchPoint(t, f) == IF PrevTopMet(t, f) THEN NoBlock ELSE f

(* organize(): the incremental pass.  When the walk missed the previous top
   the chain is rebuilt from scratch, and the walk's end is the branch point. *)
Organize ==
    /\ phase = "organize"
    /\ \E t \in known, f \in known :
          /\ OrganizePass(sum, hgt, finished, main, next, t, f)
          /\ reorg' = [prevTop |-> top, newTop |-> t,
                       branch |-> BranchPoint(t, f),
                       hasNewTop |-> top # t]
          /\ phase' = IF PrevTopMet(t, f) THEN "put" ELSE "rebuild"
    /\ UNCHANGED <<file, offset, known, id, byId, topId, newly, dup, validDup,
                   dbHgt, boot, crashes>>

(* What forceRebuild resets, and the genesis block set again. *)
ResetSum == [b \in Block |-> IF b = Genesis THEN 1 ELSE NoSum]
ResetHgt == [b \in Block |-> IF b \in known THEN 0 ELSE hgt[b]]
ResetNext == [b \in Block |-> NoBlock]

(* organizeChain(true), which calls itself until it meets the previous top. *)
Rebuild(then) ==
    \E t \in known, f \in known :
        /\ OrganizePass(ResetSum, ResetHgt, {Genesis}, {Genesis}, ResetNext, t, f)
        /\ phase' = IF PrevTopMet(t, f) THEN then ELSE phase

(* The rebuild organize() falls back on; then its newTop_ is read. *)
RebuildAfterReorg ==
    /\ phase = "rebuild"
    /\ Rebuild("put")
    /\ reorg' = [prevTop |-> reorg.prevTop, newTop |-> top', branch |-> reorg.branch,
                   hasNewTop |-> reorg.prevTop # top']
    /\ UNCHANGED <<file, offset, known, id, byId, topId, newly, dup, validDup,
                   dbHgt, boot, crashes>>

-----------------------------------------------------------------------------
(* putNewBareHeaders and putBareHeader *)

(* Headers of the new blocks that have a height are written; the others stay
   in newlyParsedBlocks_ until they are connected. *)
Puttable == {b \in newly : hgt[b] # NoHeight}

StoredAt(k) == {b \in Block : dbHgt[b] = k}

(* Mutant: the highest duplicate id listed, without the + 1. *)
NextDupReused(k) ==
    IF StoredAt(k) = {} THEN 0
    ELSE CHOOSE d \in {dup[c] : c \in StoredAt(k)} :
            \A c \in StoredAt(k) : dup[c] <= d

(* Duplicate ids above the ones listed at a height, for the new blocks of that
   height, in the order newlyParsedBlocks_ happens to have. *)
NextDup(k) ==
    IF StoredAt(k) = {} THEN 0
    ELSE 1 + CHOOSE d \in {dup[c] : c \in StoredAt(k)} :
                \A c \in StoredAt(k) : dup[c] <= d

NewDups ==
    {d \in [Puttable -> 0..Cardinality(Block)] :
        \A b \in Puttable :
            LET peers == {c \in Puttable : hgt[c] = hgt[b]}
            IN /\ d[b] \in NextDup(hgt[b])..(NextDup(hgt[b]) + Cardinality(peers) - 1)
               /\ \A c \in peers : c # b => d[c] # d[b]}

(* Does the update go on to undoHistory?  init leaves without it when there is
   nothing to scan, and when the history was reset for new addresses; update
   leaves without it when the top did not change. *)
Undoes ==
    /\ reorg.branch # NoBlock
    /\ IF boot THEN Tracking = "same" ELSE reorg.hasNewTop

PutNewBareHeaders ==
    /\ phase = "put"
    /\ \E d \in NewDups :
          /\ dup' = [b \in Block |-> IF b \in Puttable THEN d[b] ELSE dup[b]]
          /\ validDup' = [k \in Heights |->
                IF \E b \in Puttable \cap main : hgt[b] = k
                THEN d[CHOOSE b \in Puttable \cap main : hgt[b] = k]
                ELSE validDup[k]]
    /\ dbHgt' = [b \in Block |-> IF b \in Puttable THEN hgt[b] ELSE dbHgt[b]]
    /\ newly' = newly \ Puttable
    /\ phase' = IF Undoes THEN "undo" ELSE "idle"
    /\ boot' = (boot /\ Undoes)
    /\ UNCHANGED <<file, offset, known, id, byId, topId, sum, hgt, finished,
                   main, next, byHeight, top, topBlockId, reorg, crashes>>

(* Mutant: only the new top is entered. *)
BranchedDupTopOnly(from, to) ==
    [k \in Heights |-> IF hgt[to] = k THEN dup[to] ELSE validDup[k]]

(* updateBranchingMaps: from the previous top, or the branch point, up the
   nextHash links to the new top. *)
BranchedDup(from, to) ==
    [k \in Heights |->
        IF \E b \in Above(from, to) \cup {from} : hgt[b] = k
        THEN dup[CHOOSE b \in Above(from, to) \cup {from} : hgt[b] = k]
        ELSE validDup[k]]

(* The end of undoHistory. *)
UpdateBranchingMaps ==
    /\ phase = "undo"
    /\ validDup' = BranchedDup(reorg.branch, reorg.newTop)
    /\ phase' = "idle"
    /\ boot' = FALSE
    /\ UNCHANGED <<file, offset, known, id, byId, topId, newly, sum, hgt,
                   finished, main, next, byHeight, top, topBlockId, dup, dbHgt,
                   reorg, crashes>>

-----------------------------------------------------------------------------
(* A kill, and DatabaseBuilder::init up to updateBlocksInDB *)

InDb == {b \in Block : dbHgt[b] # NoHeight}

Crash ==
    /\ crashes < MaxCrash
    /\ \E b \in InDb : dbHgt[b] >= CrashHeight
    /\ crashes' = crashes + 1
    /\ phase' = "down"
    /\ UNCHANGED <<file, offset, known, id, byId, topId, newly, sum, hgt,
                   finished, main, next, byHeight, top, topBlockId, dup,
                   validDup, dbHgt, boot, reorg>>

(* loadBlockHeadersFromDB: Blockchain::clear, which leaves the genesis block,
   then every header of the db; topID_ becomes the highest id loaded. *)
LoadHeaders ==
    /\ phase = "down"
    /\ known' = InDb \cup {Genesis}
    /\ id' = [b \in Block |-> IF b \in InDb THEN id[b] ELSE NoId]
    /\ byId' = [n \in Ids |->
                  IF \E b \in InDb : id[b] = n
                  THEN CHOOSE b \in InDb :
                          id[b] = n /\ \A c \in InDb : id[c] = n => Rank[c] <= Rank[b]
                  ELSE NoBlock]
    /\ topId' = CHOOSE n \in Ids :
                  (\E b \in InDb : id[b] = n) /\ \A b \in InDb : id[b] <= n
    /\ newly' = {}
    /\ sum' = [b \in Block |-> NoSum]
    /\ hgt' = [b \in Block |-> dbHgt[b]]
    /\ finished' = {}
    /\ main' = {}
    /\ next' = [b \in Block |-> NoBlock]
    /\ byHeight' = [k \in Heights |-> NoBlock]
    /\ top' = Genesis
    /\ topBlockId' = 0
    /\ dup' = [b \in Block |-> IF b \in InDb THEN dup[b] ELSE NoDup]
    /\ validDup' = [k \in Heights |-> NoDup]
    /\ reorg' = NoReorg
    /\ boot' = TRUE
    /\ phase' = "load"
    /\ UNCHANGED <<file, offset, dbHgt, crashes>>

(* forceOrganize at start-up. *)
ForceOrganize ==
    /\ phase = "load"
    /\ Rebuild("branching")
    /\ UNCHANGED <<file, offset, known, id, byId, topId, newly, dup, validDup,
                   dbHgt, boot, reorg, crashes>>

PosInFile(b) == CHOOSE i \in DOMAIN file : file[i] = b

(* updateBranchingMaps over the whole main branch, then the rewind: parsing
   resumes after the main branch block rewindCount below the top, after the
   first block when the chain is shorter than that, and after the last header
   of the db when there is no first block. *)
RewindOffset ==
    /\ phase = "branching"
    /\ validDup' = BranchedDup(Genesis, top)
    /\ LET h == IF hgt[top] > Rewind THEN hgt[top] - Rewind ELSE 1
           last == CHOOSE i \in DOMAIN file :
                     file[i] \in InDb /\ \A j \in DOMAIN file : file[j] \in InDb => j <= i
       IN offset' = IF h \in Heights /\ byHeight[h] # NoBlock
                    THEN PosInFile(byHeight[h]) ELSE last
    /\ phase' = "parse"
    /\ UNCHANGED <<file, known, id, byId, topId, newly, sum, hgt, finished, main,
                   next, byHeight, top, topBlockId, dup, dbHgt, boot, reorg, crashes>>

-----------------------------------------------------------------------------
Next ==
    \/ \E b \in Block \ {Genesis} : NodeWrites(b)
    \/ ParseBlocks \/ Organize \/ RebuildAfterReorg \/ PutNewBareHeaders
    \/ UpdateBranchingMaps
    \/ Crash \/ LoadHeaders \/ ForceOrganize \/ RewindOffset

Spec == Init /\ [][Next]_vars
-----------------------------------------------------------------------------
(* The header maps are well typed. *)
TypeOK ==
    /\ file \in Seq(Block)
    /\ offset \in Nat
    /\ known \subseteq Block /\ newly \subseteq known
    /\ id \in [Block -> Ids \cup {NoId}]
    /\ byId \in [Ids -> Block \cup {NoBlock}]
    /\ topId \in Nat
    /\ sum \in [Block -> Int]
    /\ hgt \in [Block -> Int]
    /\ finished \subseteq known /\ main \subseteq known
    /\ next \in [Block -> Block \cup {NoBlock}]
    /\ byHeight \in [Heights -> Block \cup {NoBlock}]
    /\ top \in Block
    /\ topBlockId \in Ids \cup {NoId}
    /\ dup \in [Block -> Int]
    /\ validDup \in [Heights -> Int]
    /\ dbHgt \in [Block -> Int]
    /\ phase \in {"idle", "organize", "rebuild", "put", "undo", "down", "load",
                   "branching", "parse"}
    /\ boot \in BOOLEAN
    /\ reorg \in [prevTop : Block, newTop : Block, branch : Block \cup {NoBlock},
                  hasNewTop : BOOLEAN]
    /\ crashes \in Nat

(* organize() has returned, and nothing has been parsed since. *)
Organized == phase \in {"put", "undo", "idle"}

(* The main branch is one chain, from the genesis block to the top, and the
   flags, the height index and the nextHash links all describe it, whether it
   grew block by block, was rebuilt or was loaded. *)
MainBranchConsistent ==
    phase \notin {"down", "load", "rebuild"} =>
        /\ main = Chain[top] /\ finished = Chain[top]
        /\ \A b \in Chain[top] : hgt[b] = Height[b] /\ byHeight[Height[b]] = b
        /\ next[top] = NoBlock
        /\ \A b \in Chain[top] \ {Genesis} : next[Parent[b]] = b

(* The top of the main branch carries the most work of all the headers that
   connect to the genesis block, orphans and ties notwithstanding. *)
TopIsHeaviest ==
    Organized => \A b \in known :
        Chain[b] \subseteq known => ChainWork[b] <= ChainWork[top]

(* The branch point organize() reports is where the previous and the new main
   branch part; it reports none exactly when the previous top was extended. *)
BranchPointIsFork ==
    phase \in {"put", "undo"} =>
        IF reorg.branch = NoBlock
        THEN reorg.prevTop \in Chain[reorg.newTop]
        ELSE /\ reorg.prevTop \notin Chain[reorg.newTop]
             /\ Chain[reorg.prevTop] \cap Chain[reorg.newTop] = Chain[reorg.branch]

(* Between updates the duplicate id that history reads at a height is the one
   of the main branch block there. *)
ValidDupIsMain ==
    phase = "idle" => \A b \in Chain[top] :
        dup[b] # NoDup /\ validDup[Height[b]] = dup[b]

(* Height and duplicate id name one block: they are the key of its data. *)
DupIsUnique ==
    \A a, b \in known :
        a # b /\ Height[a] = Height[b] /\ dup[a] # NoDup => dup[a] # dup[b]

(* Blockchain.cpp, "make sure headerMap_ and DB agree": a header in the HEADERS
   db is stored under the height it has in memory. *)
HeadersAgree == phase = "idle" => \A b \in InDb : dbHgt[b] = hgt[b]

(* Blockchain.cpp: "It is crucial block IDs are not reused". *)
IdsNotReused ==
    \A a, b \in known : a # b => id[a] # id[b]

(* Blockchain.cpp: "On a full rebuild, prevChainStillValid should ALWAYS be
   true": the rebuild that follows a reorganisation does not recurse again. *)
RebuildSettles == [][RebuildAfterReorg => phase' = "put"]_vars

(* headersById_ answers topBlockId_ with the top block whenever organizeChain is
   about to look the previous top up there. *)
TopIdIsTop == phase \in {"organize", "rebuild", "load"} => PrevTop = top

(* getHeaderByHeight: "will return the main chain header for this height". *)
ByHeightIsMain ==
    Organized => \A k \in Heights : byHeight[k] # NoBlock => byHeight[k] \in main

(* Blockchain.cpp: a block with the same difficulty sum as the top does not
   replace it. *)
TieKeepsTop ==
    [][phase = "organize" /\ top' # top => ChainWork[top'] > ChainWork[top]]_vars

-----------------------------------------------------------------------------
(* The headers that took part in the last choice of a top.  A server that is
   down has what the HEADERS db holds; while it loads that, no sum is set. *)
Organised ==
    CASE phase = "down" -> Attached(InDb \cup {Genesis})
      [] phase = "load" -> Attached(known)
      [] OTHER -> Solved(sum)

(* The top a restart is going to find, before it has found it. *)
CurrentTop ==
    IF phase \in {"down", "load"} THEN CHOOSE t \in Organised : IsBest(t, Organised, Genesis)
    ELSE top

(* The last ReorganizationState; a server that is down has none. *)
LastReorg == IF phase = "down" THEN NoReorg ELSE reorg

Promise ==
    INSTANCE MainBranch WITH
        have <- Organised,
        best <- CurrentTop,
        prev <- LastReorg.prevTop,
        fork <- LastReorg.branch

(* Parsing, the incremental pass, the rebuild that may follow it, the put and
   the load of a restart together do what MainBranch promises: the top only
   ever moves to a heavier chain, with the right branch point, and a restart
   comes back with the heaviest chain that was stored. *)
ImplementsMainBranch == Promise!Spec
=============================================================================
