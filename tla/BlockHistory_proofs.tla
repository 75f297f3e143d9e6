------------------------ MODULE BlockHistory_proofs ------------------------
(***************************************************************************)
(* For every block tree and every order of arrival in which a heavier      *)
(* chain is not a shorter one: what the databases hold between updates is  *)
(* the history of the main branch, through any number of reorganisations,  *)
(* clean restarts, and kills followed by a rescan.                         *)
(*                                                                         *)
(* The argument: SSH holds the blocks of one chain up to scanHeight_, STXO *)
(* holds them up to the batch last written, an undo takes both back to the *)
(* branch point, and a scan adds each block above scanHeight_ once.        *)
(***************************************************************************)
EXTENDS BlockHistory, ChainTree_proofs

(* A heavier chain is not a shorter one, as among chains of one difficulty. *)
NeverShorter ==
    \A a, b \in Block : ChainWork[a] < ChainWork[b] => Height[a] <= Height[b]

(* No two blocks carry the same work. *)
NoTies == \A a, b \in Block : ChainWork[a] = ChainWork[b] => a = b

(* The server runs without a stop; or it is started again by loading after a
   clean stop and by a rescan after a kill, with the addresses it had and no two
   branches that a restart could take for each other. *)
Setting ==
    /\ NeverShorter
    /\ CleanModes \subseteq {"load"} /\ KillModes \subseteq {"rescan"}
    /\ MaxStops = 0 \/ (Registers = FALSE /\ NoTies)

-----------------------------------------------------------------------------
(* The inductive invariant *)

(* The blocks of the chain of t up to height h. *)
Upto(t, h) == {b \in Chain[t] : Height[b] <= h}

(* SSH holds the blocks of S and no others. *)
Tallied(S) ==
    \A b \in Block : /\ credit[b] = One(b \in S)
                     /\ debit[b] = One(b \in S /\ Spends[b] # NoBlock)

(* What STXO holds of block b after a scan of the blocks of S. *)
StxoState(S, b) ==
    IF b \notin S THEN "none"
    ELSE IF \E c \in S : Spends[c] = b THEN "spent" ELSE "unspent"

StxoHolds(S) == \A b \in Block : stxo[b] = StxoState(S, b)

Unspent(S) == {b \in S : ~\E c \in S : Spends[c] = b}

(* SUBSSH holds the blocks of S, which are on the main branch. *)
Recorded(S) ==
    \A b \in S : "out" \in subssh[b] /\ ("in" \in subssh[b] <=> Spends[b] # NoBlock)

(* validDupByHeight_ names the chain of t and nothing else. *)
ValidFor(t) == \A b \in Block : validMain[Height[b]] = b <=> b \in Chain[t]

(* The history is the one of the chain of t up to scanHeight_. *)
HistoryOf(t) ==
    /\ Tallied(Upto(t, scanHeight)) /\ StxoHolds(Upto(t, scanHeight))
    /\ Upto(t, scanHeight) \subseteq hinted

(* All of it is there, or none of it, after a rescan was asked for. *)
Synced(t) == scanHeight = Height[t] /\ subTop = t /\ sshTop = t
Blank == scanHeight = NoHeight /\ subTop = Genesis /\ sshTop = Genesis

(* The block files and the HEADERS db hold whole chains, and the main branch
   is a heaviest one. *)
TreeInv ==
    /\ Genesis \in stored
    /\ \A b \in disk : Chain[b] \subseteq disk
    /\ \A b \in stored : Chain[b] \subseteq stored
    /\ \A b \in stored : ChainWork[b] <= ChainWork[top]

(* Between updates, or with a start-up about to look for blocks. *)
RestInv ==
    /\ pc \in {"idle", "down", "sync"} =>
          HistoryOf(top) /\ ValidFor(top) /\ (Synced(top) \/ Blank)
    /\ pc \in {"idle", "down"} => Synced(top)

(* The previous main branch and the new one. *)
Extended == branch = NoBlock /\ prevTop \in Chain[top] /\ ValidFor(top)
Forked ==
    /\ branch \in Block
    /\ prevTop \notin Chain[top] /\ Chain[prevTop] \cap Chain[top] = Chain[branch]
    /\ Height[prevTop] <= Height[top]
    /\ \A b \in Chain[branch] : validMain[Height[b]] = b
    /\ \A b \in Block : validMain[Height[b]] = b => b \in Chain[prevTop] \cup Chain[top]

(* From updateBlocksInDB to the end of the undo. *)
UndoInv ==
    /\ pc = "plan" => /\ Extended \/ Forked
                      /\ HistoryOf(prevTop) /\ (Synced(prevTop) \/ Blank)
    /\ pc \in {"undo", "undossh"} =>
          /\ Forked
          /\ Synced(prevTop) \/ Blank
          /\ start = IF scanHeight = NoHeight THEN NoHeight ELSE Height[branch] + 1
    /\ pc = "undo" => HistoryOf(prevTop)
    /\ pc = "undossh" =>
          /\ Tallied(Upto(prevTop, scanHeight))
          /\ StxoHolds(Upto(branch, scanHeight)) /\ Upto(branch, scanHeight) \subseteq hinted
          /\ batch.outs = Upto(prevTop, scanHeight) \ Chain[branch]
          /\ batch.ins = {b \in batch.outs : Spends[b] # NoBlock}

(* From the start of the scan to the end of updateSSH. *)
Scanning == pc \in {"scan", "batch", "stxo", "subssh", "join", "ssh"}
InBatch == pc \in {"stxo", "subssh", "join"}

(* The height the blocks of STXO, of SUBSSH and of TXHINTS go up to. *)
StxoTo == IF pc \in {"subssh", "join"} THEN batch.end ELSE next - 1
SubsshTo == IF pc = "join" THEN batch.end ELSE next - 1
HintsTo == IF InBatch /\ hintsDone THEN batch.end ELSE next - 1
UtxoTo == IF InBatch THEN batch.end ELSE next - 1

(* SSH is where the scan found it. *)
ScanBase ==
    /\ Tallied(Upto(top, scanHeight)) /\ ValidFor(top)
    /\ NoHeight <= scanHeight /\ scanHeight <= Height[top]
    /\ start = IF scanHeight = NoHeight THEN NoHeight ELSE scanHeight + 1
    /\ scanHeight = Height[top] => sshTop = top /\ pc \in {"scan", "ssh"}
    /\ scanHeight # Height[top] => Height[sshTop] = 0 \/ Height[sshTop] < Height[top]

ScanInv ==
    /\ Scanning => ScanBase
    /\ pc = "scan" =>
          /\ StxoHolds(Upto(top, scanHeight)) /\ Upto(top, scanHeight) \subseteq hinted
          /\ scanHeight = NoHeight => subTop = Genesis
          /\ scanHeight # NoHeight /\ subTop \in Chain[top] => Height[subTop] <= scanHeight
          /\ scanHeight = Height[top] => subTop = top
    /\ InBatch \/ pc = "batch" =>
          /\ refHeight = scanHeight /\ scanHeight < next /\ 0 <= next /\ next <= Height[top]
          /\ StxoHolds(Upto(top, StxoTo))
          /\ Upto(top, HintsTo) \subseteq hinted
          /\ Recorded(Upto(top, SubsshTo) \ Upto(top, scanHeight))
          /\ utxo = Unspent(Upto(top, UtxoTo))
    /\ InBatch =>
          /\ next <= batch.end /\ batch.end <= Height[top]
          /\ batch.outs = Upto(top, batch.end) \ Upto(top, next - 1)
          /\ batch.ins = {b \in batch.outs : Spends[b] # NoBlock}
    /\ pc = "join" => subTop \in Chain[top] /\ Height[subTop] = batch.end
    /\ pc = "ssh" =>
          /\ StxoHolds(Chain[top]) /\ Chain[top] \subseteq hinted /\ subTop = top
          /\ Recorded(Chain[top] \ Upto(top, scanHeight))

(* Where a start-up can be found. *)
BootInv ==
    /\ force = FALSE /\ pc # "failed"
    /\ pc = "idle" => boot = FALSE
    /\ pc \in {"sync", "plan"} => boot = TRUE
    /\ MaxStops = 0 => boot = FALSE /\ pc \notin {"down", "killed", "sync", "plan"}
    /\ Registers = FALSE => merkleOk = TRUE

HistoryInv ==
    TypeOK /\ TreeInv /\ BootInv /\ RestInv /\ UndoInv /\ ScanInv /\ TallyNeverOff
-----------------------------------------------------------------------------
(* What an undo and a batch do to the outputs *)

(* S is a chain, or the lower part of one. *)
Lower(S) == \E t \in Block : S \subseteq Chain[t] /\ \A b \in S : Chain[b] \subseteq S

LEMMA UptoLower ==
    ASSUME NEW t \in Block, NEW h \in Int
    PROVE  /\ Upto(t, h) \subseteq Chain[t] /\ Upto(t, h) \subseteq Block
           /\ Lower(Upto(t, h))
<1>1. Upto(t, h) \subseteq Chain[t] /\ Chain[t] \subseteq Block
  BY BlockAssumption DEF Upto
<1>2. ASSUME NEW b \in Upto(t, h), NEW c \in Chain[b]
      PROVE  c \in Upto(t, h)
  <2>1. b \in Chain[t] /\ b \in Block /\ Height[b] <= h
    BY <1>1 DEF Upto
  <2>2. c \in Chain[t] /\ c \in Block
    BY <2>1, <1>1, ChainAssumption
  <2>3. c = b \/ Height[c] < Height[b]
    BY <2>1, ChainAssumption
  <2>4. Height[b] \in Int /\ Height[c] \in Int
    BY <2>1, <2>2, BlockAssumption
  <2>5. Height[c] <= h
    BY <2>1, <2>3, <2>4
  <2> QED
    BY <2>2, <2>5 DEF Upto
<1>3. Lower(Upto(t, h))
  BY <1>1, <1>2 DEF Lower
<1> QED
  BY <1>1, <1>3

(* Up to its own height, and beyond, a chain is all there. *)
LEMMA UptoAll ==
    ASSUME NEW t \in Block, NEW h \in Int, Height[t] <= h
    PROVE  Upto(t, h) = Chain[t]
<1>1. ASSUME NEW b \in Chain[t]
      PROVE  Height[b] <= h
  <2>1. b \in Block /\ Height[b] \in Int /\ Height[t] \in Int
    BY BlockAssumption
  <2>2. b = t \/ Height[b] < Height[t]
    BY ChainAssumption
  <2> QED
    BY <2>1, <2>2
<1> QED
  BY <1>1 DEF Upto

LEMMA UptoNone ==
    ASSUME NEW t \in Block, NEW h \in Int, h < 0
    PROVE  Upto(t, h) = {}
<1>1. \A b \in Chain[t] : Height[b] \in Nat
  BY BlockAssumption
<1> QED
  BY <1>1 DEF Upto

(* Up to a height that f reaches, a chain through f is the chain of f. *)
LEMMA UptoBelow ==
    ASSUME NEW t \in Block, NEW f \in Chain[t], NEW h \in Int, h <= Height[f]
    PROVE  Upto(t, h) = Upto(f, h)
<1>1. f \in Block /\ Height[f] \in Int /\ \A b \in Chain[t] : Height[b] \in Int
  BY BlockAssumption
<1>2. Chain[f] \subseteq Chain[t]
  BY ChainAssumption
<1>3. ASSUME NEW b \in Chain[t], Height[b] <= h
      PROVE  b \in Chain[f]
  <2>1. Height[b] <= Height[f]
    BY <1>1, <1>3
  <2> QED
    BY <2>1, LowerOnChain
<1> QED
  BY <1>2, <1>3 DEF Upto

(* Two blocks of a chain do not spend the same output. *)
LEMMA SpendsOnce ==
    ASSUME NEW S, Lower(S), NEW a \in S, NEW c \in S, Spends[a] \in Block, Spends[a] = Spends[c]
    PROVE  a = c
<1>1. PICK t \in Block : S \subseteq Chain[t]
  BY DEF Lower
<1>2. a \in Chain[t] /\ c \in Chain[t] /\ Spends[a] # NoBlock
  BY <1>1, BlockAssumption
<1> QED
  BY <1>2, SpendsAssumption

(* A spent output is on the chain that spends it. *)
LEMMA SpentBelow ==
    ASSUME NEW S, Lower(S), NEW c \in S, Spends[c] # NoBlock
    PROVE  Spends[c] \in S /\ Spends[c] \in Block /\ c \in Block
<1>1. PICK t \in Block : S \subseteq Chain[t] /\ \A b \in S : Chain[b] \subseteq S
  BY DEF Lower
<1>2. c \in Block /\ Chain[c] \subseteq S /\ Chain[c] \subseteq Block
  BY <1>1, BlockAssumption
<1>3. Spends[c] \in Chain[c]
  BY <1>2, SpendsAssumption
<1> QED
  BY <1>2, <1>3

(* Taking back the outputs and the inputs above R. *)
LEMMA UndoneState ==
    ASSUME NEW S, NEW R \in SUBSET S, Lower(S), Lower(R), NEW b \in Block
    PROVE  StxoState(R, b) =
             IF b \in S \ R THEN "none"
             ELSE IF \E c \in S \ R : Spends[c] # NoBlock /\ Spends[c] = b THEN "unspent"
             ELSE StxoState(S, b)
<1>1. CASE b \in S \ R
  BY <1>1 DEF StxoState
<1>2. CASE b \notin S
  <2>1. ~\E c \in S : Spends[c] # NoBlock /\ Spends[c] = b
    BY <1>2, SpentBelow
  <2> QED
    BY <1>2, <2>1 DEF StxoState
<1>3. CASE b \in R
  <2>1. CASE \E c \in S \ R : Spends[c] # NoBlock /\ Spends[c] = b
    <3>1. ~\E c \in R : Spends[c] = b
      BY <2>1, SpendsOnce
    <3> QED
      BY <3>1, <2>1, <1>3 DEF StxoState
  <2>2. CASE ~\E c \in S \ R : Spends[c] # NoBlock /\ Spends[c] = b
    <3>1. b # NoBlock
      BY BlockAssumption
    <3>2. (\E c \in S : Spends[c] = b) <=> (\E c \in R : Spends[c] = b)
      BY <2>2, <3>1
    <3> QED
      BY <3>2, <2>2, <1>3 DEF StxoState
  <2> QED
    BY <2>1, <2>2
<1> QED
  BY <1>1, <1>2, <1>3

(* Adding the outputs and the inputs above R. *)
LEMMA ScannedState ==
    ASSUME NEW S, NEW R \in SUBSET S, Lower(S), Lower(R), NEW b \in Block
    PROVE  StxoState(S, b) =
             IF \E c \in S \ R : Spends[c] # NoBlock /\ Spends[c] = b THEN "spent"
             ELSE IF b \in S \ R THEN "unspent"
             ELSE StxoState(R, b)
<1>0. b # NoBlock
  BY BlockAssumption
<1>1. CASE \E c \in S \ R : Spends[c] # NoBlock /\ Spends[c] = b
  <2>1. b \in S
    BY <1>1, SpentBelow
  <2> QED
    BY <2>1, <1>1 DEF StxoState
<1>2. CASE ~\E c \in S \ R : Spends[c] # NoBlock /\ Spends[c] = b
  <2>1. (\E c \in S : Spends[c] = b) <=> (\E c \in R : Spends[c] = b)
    BY <1>2, <1>0
  <2>2. (\E c \in R : Spends[c] = b) => b \in R
    BY <1>0, SpentBelow
  <2> QED
    BY <2>1, <2>2, <1>2 DEF StxoState
<1> QED
  BY <1>1, <1>2

(* An input above R spends an output of the batch or one that R left unspent. *)
LEMMA InputFound ==
    ASSUME NEW S, NEW R \in SUBSET S, Lower(S), Lower(R), NEW b \in S \ R
    PROVE  Spends[b] \in Unspent(R) \cup (S \ R) <=> Spends[b] # NoBlock
<1>1. Spends[b] # NoBlock => Spends[b] \in S /\ Spends[b] \in Block
  BY SpentBelow
<1>2. S \subseteq Block
  BY BlockAssumption DEF Lower
<1>3. CASE Spends[b] = NoBlock
  BY <1>2, <1>3, BlockAssumption DEF Unspent
<1>4. CASE Spends[b] # NoBlock
  <2>1. ~\E c \in R : Spends[c] = Spends[b]
    BY <1>1, <1>4, SpendsOnce
  <2> QED
    BY <2>1, <1>1, <1>4 DEF Unspent
<1> QED
  BY <1>3, <1>4

(* The utxo map after a batch. *)
LEMMA UtxoAfter ==
    ASSUME NEW S, NEW R \in SUBSET S, Lower(S), Lower(R)
    PROVE  (Unspent(R) \cup (S \ R)) \ {Spends[c] : c \in {d \in S \ R : Spends[d] # NoBlock}}
             = Unspent(S)
<1> DEFINE ins == {d \in S \ R : Spends[d] # NoBlock}
<1>1. \A x : x \in {Spends[c] : c \in ins} <=> \E c \in ins : Spends[c] = x
  OBVIOUS
<1>2. S \subseteq Block
  BY BlockAssumption DEF Lower
<1>3. ASSUME NEW x \in S
      PROVE  (x \in R => ~\E c \in R : Spends[c] = x) /\ (~\E c \in ins : Spends[c] = x)
               <=> ~\E c \in S : Spends[c] = x
  <2>1. x # NoBlock
    BY <1>2, BlockAssumption
  <2>2. \A c \in R : Spends[c] = x => x \in R
    BY <2>1, SpentBelow
  <2> QED
    BY <2>1, <2>2
<1> HIDE DEF ins
<1>4. ASSUME NEW x
      PROVE  x \in (Unspent(R) \cup (S \ R)) \ {Spends[c] : c \in ins} <=> x \in Unspent(S)
  <2>1. x \in Unspent(S) <=> x \in S /\ ~\E c \in S : Spends[c] = x
    BY DEF Unspent
  <2>2. x \in Unspent(R) \cup (S \ R) <=> x \in S /\ (x \in R => ~\E c \in R : Spends[c] = x)
    BY DEF Unspent
  <2> QED
    BY <2>1, <2>2, <1>1, <1>3
<1> QED
  BY <1>4 DEF ins
-----------------------------------------------------------------------------
(* Where organize ends *)

LEMMA HeaviestIs ==
    ASSUME NEW S \in SUBSET Block, NEW cur \in Block
    PROVE  /\ Heaviest(S, cur) \in S \cup {cur}
           /\ \A b \in S : ChainWork[b] <= ChainWork[Heaviest(S, cur)]
           /\ Heaviest(S, cur) # cur => ChainWork[cur] < ChainWork[Heaviest(S, cur)]
<1> DEFINE better == {b \in S : ChainWork[b] > ChainWork[cur]}
           First(b) == \A c \in better : \/ ChainWork[c] < ChainWork[b]
                                         \/ ChainWork[c] = ChainWork[b] /\ Rank[b] <= Rank[c]
<1>1. \A b \in S : b \in Block /\ ChainWork[b] \in Nat /\ ChainWork[cur] \in Nat
  BY BlockAssumption
<1>2. CASE better = {}
  <2>1. Heaviest(S, cur) = cur
    BY <1>2 DEF Heaviest
  <2>2. \A b \in S : ~(ChainWork[b] > ChainWork[cur])
    BY <1>2
  <2> QED
    BY <2>1, <2>2, <1>1
<1>3. CASE better # {}
  <2>1. better \in SUBSET Block
    OBVIOUS
  <2>2. \E b \in better : First(b)
    <3>1. PICK b \in better : FirstOf(b, better)
      BY <2>1, <1>3, HeaviestExists
    <3>2. First(b)
      BY <3>1 DEF FirstOf
    <3> QED
      BY <3>2
  <2>3. Heaviest(S, cur) = CHOOSE b \in better : First(b)
    BY <1>3 DEF Heaviest
  <2> HIDE DEF First
  <2>4. Heaviest(S, cur) \in better /\ First(Heaviest(S, cur))
    BY <2>2, <2>3
  <2> DEFINE t == Heaviest(S, cur)
  <2>5. t \in S /\ t \in Block /\ ChainWork[t] > ChainWork[cur] /\ ChainWork[t] \in Nat
    BY <2>4, <1>1
  <2>6. ASSUME NEW b \in S
        PROVE  ChainWork[b] <= ChainWork[t]
    <3>1. CASE b \in better
      BY <3>1, <2>4, <2>5, <1>1 DEF First
    <3>2. CASE b \notin better
      BY <3>2, <2>5, <1>1
    <3> QED
      BY <3>1, <3>2
  <2> HIDE DEF t
  <2>7. ChainWork[cur] < ChainWork[t]
    BY <2>5, <1>1
  <2> QED
    BY <2>5, <2>6, <2>7 DEF t
<1> QED
  BY <1>2, <1>3

(* What is entered in validDupByHeight_ for blocks of one chain. *)
LEMMA EnteredAt ==
    ASSUME NEW t \in Block, NEW S \in SUBSET Chain[t], NEW b \in Block
    PROVE  /\ b \in S => Entered(S)[Height[b]] = b
           /\ ~(\E c \in S : Height[c] = Height[b]) => Entered(S)[Height[b]] = validMain[Height[b]]
           /\ \A c \in S : Height[c] = Height[b] => Entered(S)[Height[b]] = c
<1>1. Height[b] \in Heights
  BY DEF Heights
<1>2. Entered(S)[Height[b]] =
        IF \E c \in S : Height[c] = Height[b]
        THEN CHOOSE c \in S : Height[c] = Height[b] ELSE validMain[Height[b]]
  BY <1>1 DEF Entered
<1>3. \A c, d \in S : Height[c] = Height[d] => c = d
  BY OnePerHeight
<1> QED
  BY <1>2, <1>3

LEMMA EnteredType ==
    ASSUME validMain \in [Heights -> Block \cup {NoBlock}], NEW S \in SUBSET Block
    PROVE  Entered(S) \in [Heights -> Block \cup {NoBlock}]
<1>1. \A h \in Heights : (\E b \in S : Height[b] = h) => (CHOOSE b \in S : Height[b] = h) \in Block
  OBVIOUS
<1> QED
  BY <1>1 DEF Entered

-----------------------------------------------------------------------------
LEMMA HistoryInit ==
    ASSUME Init
    PROVE  HistoryInv
<1>1. /\ Genesis \in Block /\ NoBlock \notin Block /\ Chain[Genesis] = {Genesis}
      /\ Height[Genesis] = 0 /\ 0 \in Heights /\ ChainWork[Genesis] \in Nat
  BY BlockAssumption, StepAssumption DEF Heights
<1>2. Spends[Genesis] = NoBlock
  BY <1>1, SpendsAssumption
<1>3. MaxStops \in Nat
  BY HistoryBounds
<1>4. Upto(Genesis, 0) = {Genesis}
  BY <1>1 DEF Upto
<1>5. batch \in [end : Int, outs : SUBSET Block, ins : SUBSET Block]
  BY DEF Init, NoBatch, NoHeight
<1>6. TypeOK
  <2>1. validMain \in [Heights -> Block \cup {NoBlock}]
    BY <1>1 DEF Init
  <2>2. stxo \in [Block -> {"none", "unspent", "spent"}]
    BY DEF Init
  <2>3. subssh \in [Block -> SUBSET {"out", "in"}]
    BY DEF Init
  <2>4. credit \in [Block -> Int] /\ debit \in [Block -> Int]
    BY DEF Init
  <2>5. merkleOk \in BOOLEAN /\ boot \in BOOLEAN /\ force \in BOOLEAN /\ hintsDone \in BOOLEAN
    BY DEF Init
  <2>6. scanHeight \in Int /\ start \in Int /\ next \in Int /\ refHeight \in Int
        /\ stops \in 0..MaxStops
    BY <1>3 DEF Init, NoHeight
  <2>7. /\ disk \subseteq Block /\ stored \subseteq disk /\ top \in stored
        /\ hinted \subseteq Block /\ subTop \in stored /\ sshTop \in stored /\ utxo \subseteq Block
        /\ pc = "idle" /\ prevTop \in Block /\ branch \in Block \cup {NoBlock}
    BY <1>1 DEF Init
  <2> QED
    BY <2>1, <2>2, <2>3, <2>4, <2>5, <2>6, <2>7, <1>5 DEF TypeOK
<1>7. TreeInv
  BY <1>1 DEF TreeInv, Init
<1>8. BootInv
  BY DEF BootInv, Init
<1>9. pc = "idle" /\ top = Genesis /\ scanHeight = 0 /\ subTop = Genesis /\ sshTop = Genesis
      /\ hinted = {Genesis}
  BY DEF Init
<1>10. Tallied({Genesis})
  BY <1>1, <1>2 DEF Tallied, One, Init
<1>11. StxoHolds({Genesis})
  <2>1. ~\E c \in {Genesis} : Spends[c] = Genesis
    BY <1>1, <1>2
  <2> QED
    BY <2>1, <1>1 DEF StxoHolds, StxoState, Init
<1>12. ValidFor(Genesis)
  <2> SUFFICES ASSUME NEW b \in Block
               PROVE  validMain[Height[b]] = b <=> b = Genesis
    BY <1>1 DEF ValidFor
  <2>1. Height[b] \in Heights
    BY DEF Heights
  <2> QED
    BY <2>1, <1>1 DEF Init
<1>13. RestInv
  BY <1>1, <1>4, <1>9, <1>10, <1>11, <1>12 DEF RestInv, HistoryOf, Synced
<1>14. UndoInv /\ ScanInv
  BY <1>9 DEF UndoInv, ScanInv, ScanBase, Scanning, InBatch
<1>15. TallyNeverOff
  BY <1>10 DEF Tallied, TallyNeverOff, One
<1> QED
  BY <1>6, <1>7, <1>8, <1>13, <1>14, <1>15 DEF HistoryInv

(* Steps that touch no history and leave the builder where it is. *)
LEMMA Frame ==
    ASSUME UNCHANGED <<top, validMain, stxo, hinted, subssh, subTop, credit, debit,
                       scanHeight, sshTop, pc, local>>
    PROVE  /\ RestInv => RestInv'
           /\ UndoInv => UndoInv'
           /\ ScanInv => ScanInv'
           /\ TallyNeverOff => TallyNeverOff'
<1>1. /\ UNCHANGED <<top, validMain, stxo, hinted, subssh, subTop, credit, debit, scanHeight,
                     sshTop, pc, prevTop, branch, start, next, refHeight, utxo, batch, hintsDone>>
  BY DEF local
<1>2. RestInv => RestInv'
  BY <1>1 DEF RestInv, HistoryOf, Tallied, StxoHolds, Upto, ValidFor, Synced, Blank
<1>3. UndoInv => UndoInv'
  BY <1>1 DEF UndoInv, Extended, Forked, HistoryOf, Tallied, StxoHolds, Upto, ValidFor, Synced, Blank
<1>4. ScanInv => ScanInv'
  BY <1>1 DEF ScanInv, ScanBase, Scanning, InBatch, Tallied, StxoHolds, Upto, ValidFor, Recorded,
              StxoTo, SubsshTo, HintsTo, UtxoTo, Unspent
<1>5. TallyNeverOff => TallyNeverOff'
  BY <1>1 DEF TallyNeverOff
<1> QED
  BY <1>2, <1>3, <1>4, <1>5

LEMMA WritesStep ==
    ASSUME HistoryInv, NEW b \in Block \ {Genesis}, NodeWrites(b)
    PROVE  HistoryInv'
<1>1. /\ b \notin disk /\ Parent[b] \in disk /\ disk' = disk \cup {b}
      /\ UNCHANGED <<stored, top, validMain, stxo, hinted, subssh, subTop, credit, debit,
                     scanHeight, sshTop, merkleOk, pc, boot, force, stops>>
      /\ UNCHANGED <<prevTop, branch, start, next, refHeight, utxo, batch, hintsDone>>
  BY DEF NodeWrites, headers, sshdb, local
<1>2. TypeOK'
  <2>1. disk' \subseteq Block /\ stored' \subseteq disk'
    BY <1>1 DEF HistoryInv, TypeOK
  <2> QED
    BY <2>1, <1>1 DEF HistoryInv, TypeOK
<1>3. TreeInv'
  <2>1. Chain[b] = Chain[Parent[b]] \cup {b}
    BY StepAssumption
  <2>2. \A c \in disk' : Chain[c] \subseteq disk'
    BY <2>1, <1>1 DEF HistoryInv, TreeInv
  <2> QED
    BY <2>2, <1>1 DEF HistoryInv, TreeInv
<1>4. BootInv'
  BY <1>1 DEF HistoryInv, BootInv
<1>5. RestInv' /\ UndoInv' /\ ScanInv' /\ TallyNeverOff'
  BY <1>1, Frame DEF HistoryInv, local
<1> QED
  BY <1>2, <1>3, <1>4, <1>5 DEF HistoryInv

LEMMA RegisterStep ==
    ASSUME HistoryInv, RegisterNewAddresses
    PROVE  HistoryInv'
<1>1. /\ Registers /\ merkleOk' = FALSE
      /\ UNCHANGED <<disk, stored, top, validMain, stxo, hinted, subssh, subTop, credit, debit,
                     scanHeight, sshTop, pc, boot, force, stops>>
      /\ UNCHANGED <<prevTop, branch, start, next, refHeight, utxo, batch, hintsDone>>
  BY DEF RegisterNewAddresses, headers, sshdb, local
<1>2. TypeOK'
  BY <1>1 DEF HistoryInv, TypeOK
<1>3. TreeInv'
  BY <1>1 DEF HistoryInv, TreeInv
<1>4. BootInv'
  BY <1>1 DEF HistoryInv, BootInv
<1>5. RestInv' /\ UndoInv' /\ ScanInv' /\ TallyNeverOff'
  BY <1>1, Frame DEF HistoryInv, local
<1> QED
  BY <1>2, <1>3, <1>4, <1>5 DEF HistoryInv

LEMMA StutterStep ==
    ASSUME HistoryInv, UNCHANGED vars
    PROVE  HistoryInv'
<1>1. /\ UNCHANGED <<disk, stored, top, validMain, stxo, hinted, subssh, subTop, credit, debit,
                     scanHeight, sshTop, merkleOk, pc, boot, force, stops>>
      /\ UNCHANGED <<prevTop, branch, start, next, refHeight, utxo, batch, hintsDone>>
  BY DEF vars
<1>2. TypeOK'
  BY <1>1 DEF HistoryInv, TypeOK
<1>3. TreeInv'
  BY <1>1 DEF HistoryInv, TreeInv
<1>4. BootInv'
  BY <1>1 DEF HistoryInv, BootInv
<1>5. RestInv' /\ UndoInv' /\ ScanInv' /\ TallyNeverOff'
  BY <1>1, Frame DEF HistoryInv, local
<1> QED
  BY <1>2, <1>3, <1>4, <1>5 DEF HistoryInv

LEMMA StopStep ==
    ASSUME HistoryInv, Stop \/ Kill
    PROVE  HistoryInv'
<1>1. /\ stops < MaxStops /\ stops' = stops + 1
      /\ (pc = "idle" /\ pc' = "down") \/ pc' = "killed"
      /\ UNCHANGED <<disk, stored, top, validMain, stxo, hinted, subssh, subTop, credit, debit,
                     scanHeight, sshTop, merkleOk, boot, force>>
      /\ UNCHANGED <<prevTop, branch, start, next, refHeight, utxo, batch, hintsDone>>
  BY DEF Stop, Kill, headers, sshdb, local
<1>2. MaxStops \in Nat /\ stops \in 0..MaxStops
  BY HistoryBounds DEF HistoryInv, TypeOK
<1>3. MaxStops # 0 /\ stops' \in 0..MaxStops
  BY <1>1, <1>2
<1>4. TypeOK'
  BY <1>1, <1>3 DEF HistoryInv, TypeOK
<1>5. TreeInv'
  BY <1>1 DEF HistoryInv, TreeInv
<1>6. BootInv'
  BY <1>1, <1>3 DEF HistoryInv, BootInv
<1>7. RestInv'
  BY <1>1 DEF HistoryInv, RestInv, HistoryOf, Tallied, StxoHolds, Upto, ValidFor, Synced, Blank
<1>8. UndoInv' /\ ScanInv'
  BY <1>1 DEF UndoInv, ScanInv, ScanBase, Scanning, InBatch
<1>9. TallyNeverOff'
  BY <1>1 DEF HistoryInv, TallyNeverOff
<1> QED
  BY <1>4, <1>5, <1>6, <1>7, <1>8, <1>9 DEF HistoryInv

(* updateBlocksInDB extends the main branch or meets a fork. *)
LEMMA UpdateStep ==
    ASSUME Setting, HistoryInv, UpdateBlocksInDB
    PROVE  HistoryInv'
<1> DEFINE t == Heaviest(disk, top)
           point == IF top \in Chain[t] THEN NoBlock ELSE ForkPoint(top, t)
<1>1. /\ pc \in {"sync", "idle"}
      /\ top' = t /\ prevTop' = top /\ branch' = point
      /\ validMain' = Entered(Chain[t] \ stored)
      /\ stored' = disk
      /\ start' = IF point = NoBlock THEN Height[top] + 1 ELSE Height[point] + 1
      /\ pc' = IF boot THEN "plan"
               ELSE IF t = top THEN "idle"
               ELSE IF point = NoBlock THEN "scan" ELSE "undo"
  BY DEF UpdateBlocksInDB, HeadersPut, StartHeight
<1>2. /\ UNCHANGED <<disk, stxo, hinted, subssh, subTop, credit, debit, scanHeight, sshTop,
                     merkleOk, boot, force, next, refHeight, utxo, batch, hintsDone, stops>>
  BY DEF UpdateBlocksInDB, sshdb
<1>3. TypeOK /\ TreeInv /\ BootInv /\ RestInv /\ TallyNeverOff
  BY DEF HistoryInv
<1>4. /\ disk \subseteq Block /\ stored \subseteq disk /\ top \in stored /\ top \in Block
      /\ Genesis \in stored
      /\ \A b \in disk : Chain[b] \subseteq disk
      /\ \A b \in stored : Chain[b] \subseteq stored /\ ChainWork[b] <= ChainWork[top]
      /\ validMain \in [Heights -> Block \cup {NoBlock}]
      /\ boot \in BOOLEAN
  BY <1>3 DEF TypeOK, TreeInv
<1>5. /\ HistoryOf(top) /\ ValidFor(top) /\ (Synced(top) \/ Blank)
      /\ boot = FALSE => Synced(top) /\ pc = "idle"
      /\ boot = TRUE => pc = "sync"
  BY <1>1, <1>3 DEF RestInv, BootInv
<1>6. /\ t \in disk /\ t \in Block
      /\ \A b \in disk : ChainWork[b] <= ChainWork[t]
      /\ t # top => ChainWork[top] < ChainWork[t]
  BY <1>4, HeaviestIs
<1> HIDE DEF t
<1>7. \A b \in Block : Height[b] \in Nat /\ ChainWork[b] \in Nat
  BY BlockAssumption
<1>8. Height[top] <= Height[t]
  <2>1. t # top => Height[top] <= Height[t]
    BY <1>4, <1>6 DEF Setting, NeverShorter
  <2> QED
    BY <2>1, <1>4, <1>7
<1>9. Chain[t] \ stored \in SUBSET Chain[t] /\ Chain[t] \in SUBSET Block
  BY <1>6, BlockAssumption
<1>10. TreeInv'
  BY <1>1, <1>2, <1>4, <1>6 DEF TreeInv
<1>11. ASSUME top \in Chain[t]
       PROVE  ValidFor(top)'
  <2>1. point = NoBlock /\ Chain[top] \subseteq Chain[t] /\ Chain[top] \subseteq stored
    BY <1>4, <1>6, <1>11, ChainAssumption
  <2>2. ASSUME NEW b \in Chain[t], b \in stored
        PROVE  b \in Chain[top]
    <3>1. b \in Block /\ ChainWork[b] <= ChainWork[top]
      BY <2>2, <1>4
    <3>2. b \in Chain[top] \/ top \in Chain[b]
      BY <2>2, <1>6, <1>11, ChainAssumption
    <3>3. top \in Chain[b] => top = b \/ ChainWork[top] < ChainWork[b]
      BY <3>1, ChainAssumption
    <3>4. top \in Chain[top]
      BY <1>4, ChainAssumption
    <3> QED
      BY <3>1, <3>2, <3>3, <3>4, <1>4, <1>7
  <2>3. ASSUME NEW b \in Block
        PROVE  validMain'[Height[b]] = b <=> b \in Chain[t]
    <3> DEFINE S == Chain[t] \ stored
    <3>1. /\ b \in S => validMain'[Height[b]] = b
          /\ ~(\E c \in S : Height[c] = Height[b]) => validMain'[Height[b]] = validMain[Height[b]]
          /\ \A c \in S : Height[c] = Height[b] => validMain'[Height[b]] = c
      BY <1>1, <1>6, <1>9, EnteredAt
    <3>2. validMain[Height[b]] = b <=> b \in Chain[top]
      BY <1>5 DEF ValidFor
    <3>3. CASE b \in S
      BY <3>1, <3>3
    <3>4. CASE b \in Chain[t] /\ b \in stored
      <4>1. ~\E c \in S : Height[c] = Height[b]
        BY <3>4, <1>6, OnePerHeight
      <4> QED
        BY <4>1, <3>1, <3>2, <3>4, <2>2
    <3>5. CASE b \notin Chain[t]
      BY <3>1, <3>2, <3>5, <2>1
    <3> QED
      BY <3>3, <3>4, <3>5
  <2> QED
    BY <2>3, <1>1 DEF ValidFor
<1>12. ASSUME top \notin Chain[t]
       PROVE  Forked'
  <2>1. point = ForkPoint(top, t)
    BY <1>12
  <2>2. \E c \in Chain[top] \cap Chain[t] : Chain[top] \cap Chain[t] = Chain[c]
    BY <1>4, <1>6, ForkExists
  <2>3. point \in Chain[top] \cap Chain[t] /\ Chain[top] \cap Chain[t] = Chain[point]
    BY <2>1, <2>2 DEF ForkPoint
  <2>4. point \in Block /\ Chain[top] \subseteq stored
    BY <2>3, <1>4, BlockAssumption
  <2>5. ASSUME NEW b \in Block
        PROVE  /\ b \in Chain[point] => validMain'[Height[b]] = b
               /\ validMain'[Height[b]] = b => b \in Chain[top] \cup Chain[t]
    <3> DEFINE S == Chain[t] \ stored
    <3>1. /\ b \in S => validMain'[Height[b]] = b
          /\ ~(\E c \in S : Height[c] = Height[b]) => validMain'[Height[b]] = validMain[Height[b]]
          /\ \A c \in S : Height[c] = Height[b] => validMain'[Height[b]] = c
      BY <1>1, <1>6, <1>9, EnteredAt
    <3>2. validMain[Height[b]] = b <=> b \in Chain[top]
      BY <1>5 DEF ValidFor
    <3>3. ASSUME b \in Chain[point]
          PROVE  validMain'[Height[b]] = b
      <4>1. b \in Chain[t] /\ b \in Chain[top] /\ b \notin S
        BY <3>3, <2>3, <2>4
      <4>2. ~\E c \in S : Height[c] = Height[b]
        BY <4>1, <1>6, OnePerHeight
      <4> QED
        BY <4>1, <4>2, <3>1, <3>2
    <3>4. validMain'[Height[b]] = b => b \in Chain[top] \cup Chain[t]
      BY <3>1, <3>2
    <3> QED
      BY <3>3, <3>4
  <2>6. \A b \in Chain[point] : b \in Block
    BY <2>4, BlockAssumption
  <2> HIDE DEF point
  <2> QED
    BY <2>3, <2>4, <2>5, <2>6, <1>1, <1>8, <1>12 DEF Forked
<1>13. point \in Block \cup {NoBlock} /\ (top \notin Chain[t] => point \in Block /\ point # NoBlock)
  BY <1>1, <1>12, BlockAssumption DEF Forked
<1>14. top \in Chain[t] <=> point = NoBlock
  BY <1>13
<1> HIDE DEF point
<1>15. TypeOK'
  <2>1. validMain' \in [Heights -> Block \cup {NoBlock}]
    BY <1>1, <1>4, <1>9, EnteredType
  <2>2. start' \in Int
    BY <1>1, <1>4, <1>7, <1>13
  <2>3. pc' \in {"plan", "idle", "scan", "undo"}
    BY <1>1
  <2>4. stored' \subseteq disk' /\ top' \in stored' /\ subTop' \in stored' /\ sshTop' \in stored'
        /\ prevTop' \in Block /\ branch' \in Block \cup {NoBlock}
    BY <1>1, <1>2, <1>3, <1>4, <1>6, <1>13 DEF TypeOK
  <2> QED
    BY <2>1, <2>2, <2>3, <2>4, <1>2, <1>3 DEF TypeOK
<1>16. TallyNeverOff'
  BY <1>2, <1>3 DEF TallyNeverOff
<1>17. HistoryOf(prevTop)' /\ (Synced(prevTop) \/ Blank)' /\ (boot = FALSE => Synced(prevTop)')
  <2>1. HistoryOf(prevTop)'
    BY <1>1, <1>2, <1>5 DEF HistoryOf, Tallied, StxoHolds, Upto
  <2>2. (Synced(prevTop) \/ Blank)' /\ (boot = FALSE => Synced(prevTop)')
    BY <1>1, <1>2, <1>5 DEF Synced, Blank
  <2> QED
    BY <2>1, <2>2
<1>18. CASE boot = TRUE
  <2>1. pc' = "plan" /\ pc = "sync"
    BY <1>1, <1>5, <1>18
  <2>2. BootInv'
    BY <2>1, <1>2, <1>3, <1>18 DEF BootInv
  <2>3. (Extended \/ Forked)'
    <3>1. CASE top \in Chain[t]
      BY <3>1, <1>1, <1>11, <1>14 DEF Extended
    <3>2. CASE top \notin Chain[t]
      BY <3>2, <1>12
    <3> QED
      BY <3>1, <3>2
  <2>4. UndoInv'
    BY <2>1, <2>3, <1>17 DEF UndoInv
  <2>5. RestInv' /\ ScanInv'
    BY <2>1 DEF RestInv, ScanInv, ScanBase, Scanning, InBatch
  <2> QED
    BY <2>2, <2>4, <2>5, <1>10, <1>15, <1>16 DEF HistoryInv
<1>19. CASE boot = FALSE
  <2>1. pc' = IF t = top THEN "idle" ELSE IF point = NoBlock THEN "scan" ELSE "undo"
    BY <1>1, <1>19
  <2>2. pc = "idle" /\ Synced(top)
    BY <1>5, <1>19
  <2>3. BootInv'
    BY <2>1, <2>2, <1>2, <1>3, <1>19 DEF BootInv
  <2>4. CASE t = top
    <3>1. pc' = "idle" /\ top' = top /\ prevTop' = top
      BY <2>1, <2>4, <1>1
    <3>2. top \in Chain[t]
      BY <2>4, <1>4, ChainAssumption
    <3>3. ValidFor(top)'
      BY <3>2, <1>11
    <3>4. HistoryOf(top)' /\ Synced(top)'
      BY <3>1, <1>17, <1>19 DEF HistoryOf, Tallied, StxoHolds, Upto, Synced
    <3>5. RestInv' /\ UndoInv' /\ ScanInv'
      BY <3>1, <3>3, <3>4 DEF RestInv, UndoInv, ScanInv, ScanBase, Scanning, InBatch
    <3> QED
      BY <3>5, <2>3, <1>10, <1>15, <1>16 DEF HistoryInv
  <2>5. CASE t # top /\ point = NoBlock
    <3>1. pc' = "scan" /\ top \in Chain[t]
      BY <2>1, <2>5, <1>14
    <3>2. Height[top] < Height[t]
      BY <2>5, <3>1, <1>6, ChainAssumption
    <3>3. /\ scanHeight' = Height[top] /\ subTop' = top /\ sshTop' = top
          /\ start' = Height[top] + 1
      BY <2>2, <2>5, <1>1, <1>2 DEF Synced
    <3>4. Upto(t, Height[top]) = Upto(top, Height[top])
      BY <3>1, <1>4, <1>6, <1>7, UptoBelow
    <3>5. /\ Tallied(Upto(top, scanHeight)) /\ StxoHolds(Upto(top, scanHeight))
          /\ Upto(top, scanHeight) \subseteq hinted /\ scanHeight = Height[top]
      BY <2>2, <1>5 DEF HistoryOf, Synced
    <3>6. Upto(top, scanHeight)' = Upto(top, scanHeight)
      <4>1. Upto(top, scanHeight)' = Upto(t, Height[top])
        BY <3>3, <1>1 DEF Upto
      <4> QED
        BY <4>1, <3>4, <3>5
    <3>7. /\ Tallied(Upto(top, scanHeight))' /\ StxoHolds(Upto(top, scanHeight))'
          /\ (Upto(top, scanHeight) \subseteq hinted)'
      BY <3>5, <3>6, <1>2 DEF Tallied, StxoHolds
    <3>8. ValidFor(top)'
      BY <3>1, <1>11
    <3>9. Height[top] \in Nat /\ Height[t] \in Nat
      BY <1>4, <1>6, <1>7
    <3>10. /\ NoHeight <= scanHeight' /\ scanHeight' <= Height[top'] /\ scanHeight' # Height[top']
           /\ start' = IF scanHeight' = NoHeight THEN NoHeight ELSE scanHeight' + 1
           /\ Height[sshTop'] < Height[top'] /\ scanHeight' # NoHeight
           /\ Height[subTop'] <= scanHeight'
      BY <3>2, <3>3, <3>9, <1>1 DEF NoHeight
    <3>11. ScanInv'
      BY <3>1, <3>7, <3>8, <3>10 DEF ScanInv, ScanBase, Scanning, InBatch
    <3>12. RestInv' /\ UndoInv'
      BY <3>1 DEF RestInv, UndoInv
    <3> QED
      BY <3>11, <3>12, <2>3, <1>10, <1>15, <1>16 DEF HistoryInv
  <2>6. CASE t # top /\ point # NoBlock
    <3>1. pc' = "undo" /\ top \notin Chain[t]
      BY <2>1, <2>6, <1>14
    <3>2. scanHeight' = Height[top] /\ Height[top] \in Nat /\ start' = Height[branch'] + 1
      BY <2>2, <2>6, <1>1, <1>2, <1>4, <1>7 DEF Synced
    <3>3. start' = IF scanHeight' = NoHeight THEN NoHeight ELSE Height[branch'] + 1
      BY <3>2 DEF NoHeight
    <3>4. UndoInv'
      BY <3>1, <3>3, <1>12, <1>17 DEF UndoInv
    <3>5. RestInv' /\ ScanInv'
      BY <3>1 DEF RestInv, ScanInv, ScanBase, Scanning, InBatch
    <3> QED
      BY <3>4, <3>5, <2>3, <1>10, <1>15, <1>16 DEF HistoryInv
  <2> QED
    BY <2>4, <2>5, <2>6
<1> QED
  BY <1>4, <1>18, <1>19

(* A start-up loads the history of the main branch it organises, or none. *)
LEMMA RestartStep ==
    ASSUME Setting, HistoryInv, NEW mode \in CleanModes \cup KillModes, Restart(mode)
    PROVE  HistoryInv'
<1>1. TypeOK /\ TreeInv /\ BootInv /\ RestInv /\ TallyNeverOff
  BY DEF HistoryInv
<1>2. (pc = "down" /\ mode = "load") \/ (pc = "killed" /\ mode = "rescan")
  BY DEF Restart, Setting
<1>3. MaxStops # 0 /\ Registers = FALSE /\ NoTies /\ merkleOk = TRUE
  BY <1>1, <1>2 DEF BootInv, Setting
<1>4. /\ top' = Heaviest(stored, Genesis)
      /\ validMain' = [h \in Heights |->
                         IF \E b \in Chain[top'] : Height[b] = h
                         THEN CHOOSE b \in Chain[top'] : Height[b] = h ELSE NoBlock]
      /\ force' = (mode = "balance") /\ boot' = TRUE /\ pc' = "sync"
      /\ prevTop' = Genesis /\ branch' = NoBlock
      /\ start' = 0 /\ next' = 0 /\ refHeight' = NoHeight /\ utxo' = {}
      /\ batch' = NoBatch /\ hintsDone' = TRUE
      /\ scanHeight' = IF mode = "rescan" THEN NoHeight ELSE scanHeight
      /\ UNCHANGED <<disk, stored, merkleOk, stops>>
  BY DEF Restart, RestartHeight
<1>5. /\ stored \subseteq Block /\ top \in stored /\ Genesis \in stored /\ Genesis \in Block
      /\ \A b \in stored : ChainWork[b] <= ChainWork[top]
  BY <1>1 DEF TypeOK, TreeInv
<1>6. top' \in stored /\ top' \in Block /\ \A b \in stored : ChainWork[b] <= ChainWork[top']
  BY <1>4, <1>5, HeaviestIs
<1>7. TreeInv'
  BY <1>1, <1>4, <1>6 DEF TreeInv
<1>8. ValidFor(top)'
  <2> SUFFICES ASSUME NEW b \in Block
               PROVE  validMain'[Height[b]] = b <=> b \in Chain[top']
    BY DEF ValidFor
  <2>1. Height[b] \in Heights
    BY DEF Heights
  <2>2. validMain'[Height[b]] =
          IF \E c \in Chain[top'] : Height[c] = Height[b]
          THEN CHOOSE c \in Chain[top'] : Height[c] = Height[b] ELSE NoBlock
    BY <2>1, <1>4
  <2>3. \A c, d \in Chain[top'] : Height[c] = Height[d] => c = d
    BY <1>6, OnePerHeight
  <2>4. b # NoBlock
    BY BlockAssumption
  <2>5. CASE \E c \in Chain[top'] : Height[c] = Height[b]
    <3>1. PICK c \in Chain[top'] : Height[c] = Height[b]
      BY <2>5
    <3>2. validMain'[Height[b]] = c
      BY <3>1, <2>2, <2>3
    <3> QED
      BY <3>1, <3>2, <2>3
  <2>6. CASE ~\E c \in Chain[top'] : Height[c] = Height[b]
    BY <2>2, <2>4, <2>6
  <2> QED
    BY <2>5, <2>6
<1>9. validMain' \in [Heights -> Block \cup {NoBlock}]
  <2>1. Chain[top'] \subseteq Block
    BY <1>6, BlockAssumption
  <2>2. \A h \in Heights : (\E b \in Chain[top'] : Height[b] = h)
          => (CHOOSE b \in Chain[top'] : Height[b] = h) \in Block
    BY <2>1
  <2> QED
    BY <2>2, <1>4
<1>10. batch' \in [end : Int, outs : SUBSET Block, ins : SUBSET Block]
  BY <1>4 DEF NoBatch, NoHeight
<1>11. BootInv'
  <2>1. force' = FALSE
    BY <1>2, <1>4
  <2> QED
    BY <2>1, <1>3, <1>4 DEF BootInv
<1>12. UndoInv' /\ ScanInv'
  BY <1>4 DEF UndoInv, ScanInv, ScanBase, Scanning, InBatch
<1>13. /\ hintsDone' \in BOOLEAN /\ boot' \in BOOLEAN /\ force' \in BOOLEAN /\ merkleOk' \in BOOLEAN
       /\ utxo' \subseteq Block /\ prevTop' \in Block /\ branch' \in Block \cup {NoBlock}
       /\ start' \in Int /\ next' \in Int /\ refHeight' \in Int
  BY <1>1, <1>4, <1>5 DEF TypeOK, NoHeight
<1>14. CASE pc = "down" /\ mode = "load"
  <2>1. UNCHANGED <<stxo, hinted, subssh, subTop, credit, debit, sshTop, scanHeight>>
    BY <1>4, <1>14 DEF Restart
  <2>2. top' = top
    <3>1. ChainWork[top] \in Nat /\ ChainWork[top'] \in Nat
      BY <1>5, <1>6, BlockAssumption
    <3>2. ChainWork[top] = ChainWork[top']
      BY <3>1, <1>5, <1>6
    <3> QED
      BY <3>2, <1>3, <1>5, <1>6 DEF NoTies
  <2>3. HistoryOf(top)' /\ Synced(top)'
    BY <2>1, <2>2, <1>1, <1>14 DEF RestInv, HistoryOf, Tallied, StxoHolds, Upto, Synced
  <2>4. RestInv'
    BY <2>3, <1>4, <1>8 DEF RestInv
  <2>5. TypeOK'
    BY <2>1, <1>1, <1>4, <1>6, <1>9, <1>10, <1>13 DEF TypeOK
  <2>6. TallyNeverOff'
    BY <2>1, <1>1 DEF TallyNeverOff
  <2> QED
    BY <2>4, <2>5, <2>6, <1>7, <1>11, <1>12 DEF HistoryInv
<1>15. CASE pc = "killed" /\ mode = "rescan"
  <2>1. /\ stxo' = [b \in Block |-> "none"] /\ hinted' = {}
        /\ subssh' = [b \in Block |-> {}] /\ subTop' = Genesis
        /\ credit' = [b \in Block |-> 0] /\ debit' = [b \in Block |-> 0] /\ sshTop' = Genesis
        /\ scanHeight' = NoHeight
    BY <1>4, <1>15 DEF Restart, ResetHistory, ResetSSHdb
  <2>2. Upto(top, scanHeight)' = {}
    <3>1. Upto(top', -1) = {}
      BY <1>6, UptoNone
    <3>2. Upto(top, scanHeight)' = Upto(top', -1)
      BY <2>1 DEF Upto, NoHeight
    <3> QED
      BY <3>1, <3>2
  <2>3. HistoryOf(top)' /\ Blank'
    <3>1. (Tallied({}) /\ StxoHolds({}))'
      BY <2>1 DEF Tallied, StxoHolds, StxoState, One
    <3>2. HistoryOf(top)'
      BY <3>1, <2>2 DEF HistoryOf, Tallied, StxoHolds
    <3> QED
      BY <3>2, <2>1 DEF Blank
  <2>4. RestInv'
    BY <2>3, <1>4, <1>8 DEF RestInv
  <2>5. TypeOK'
    <3>1. /\ stxo' \in [Block -> {"none", "unspent", "spent"}]
          /\ subssh' \in [Block -> SUBSET {"out", "in"}]
          /\ credit' \in [Block -> Int] /\ debit' \in [Block -> Int] /\ scanHeight' \in Int
      BY <2>1 DEF NoHeight
    <3> QED
      BY <3>1, <2>1, <1>1, <1>4, <1>5, <1>6, <1>9, <1>10, <1>13 DEF TypeOK
  <2>6. TallyNeverOff'
    BY <2>1 DEF TallyNeverOff
  <2> QED
    BY <2>4, <2>5, <2>6, <1>7, <1>11, <1>12 DEF HistoryInv
<1> QED
  BY <1>2, <1>14, <1>15

(* init takes up the scan where the history ends, or undoes first. *)
LEMMA PlanStep ==
    ASSUME Setting, HistoryInv, PlanScan
    PROVE  HistoryInv'
<1>1. TypeOK /\ TreeInv /\ BootInv /\ UndoInv /\ TallyNeverOff /\ pc = "plan"
  BY DEF HistoryInv, PlanScan
<1>2. merkleOk = TRUE /\ MaxStops # 0
  BY <1>1 DEF BootInv, Setting
<1>3. /\ start' = BootStart
      /\ pc' = IF branch = NoBlock THEN "scan" ELSE "undo"
      /\ UNCHANGED <<stxo, hinted, subssh, subTop, credit, debit, sshTop, disk, stored, top,
                     validMain, scanHeight, merkleOk, boot, force, prevTop, branch, next,
                     refHeight, utxo, batch, hintsDone, stops>>
  BY <1>2 DEF PlanScan, headers
<1>4. /\ Extended \/ Forked
      /\ HistoryOf(prevTop) /\ (Synced(prevTop) \/ Blank)
  BY <1>1 DEF UndoInv
<1>5. /\ top \in Block /\ prevTop \in Block /\ branch \in Block \cup {NoBlock}
      /\ Height[top] \in Nat /\ Height[prevTop] \in Nat /\ Height[Genesis] = 0
      /\ NoBlock \notin Block /\ Genesis \in Block /\ scanHeight \in Int
  BY <1>1, BlockAssumption, StepAssumption DEF TypeOK
<1>6. branch \in Block => Height[branch] \in Nat
  BY BlockAssumption
<1>7. Forked => Height[branch] < Height[prevTop]
  <2> SUFFICES ASSUME Forked PROVE Height[branch] < Height[prevTop]
    OBVIOUS
  <2>1. branch \in Block /\ branch \in Chain[branch]
    BY ChainAssumption DEF Forked
  <2>2. branch \in Chain[prevTop] /\ branch \in Chain[top]
    BY <2>1 DEF Forked
  <2>3. branch # prevTop
    BY <2>2 DEF Forked
  <2> QED
    BY <2>2, <2>3, <1>5, ChainAssumption
<1>8. (branch = NoBlock => Extended) /\ (branch # NoBlock => Forked)
  BY <1>4, <1>5 DEF Extended, Forked
<1>9. start' = IF branch = NoBlock
               THEN IF scanHeight = NoHeight THEN NoHeight ELSE scanHeight + 1
               ELSE IF scanHeight = NoHeight THEN NoHeight ELSE Height[branch] + 1
  <2>1. CASE Blank
    <3>1. BootStart = IF branch # NoBlock /\ Height[branch] + 1 < -1
                      THEN Height[branch] + 1 ELSE -1
      BY <2>1, <1>5 DEF BootStart, Blank, NoHeight
    <3>2. ~(branch # NoBlock /\ Height[branch] + 1 < -1)
      BY <1>5, <1>6
    <3>3. start' = -1
      BY <3>1, <3>2, <1>3
    <3> QED
      BY <3>3, <2>1 DEF Blank, NoHeight
  <2>2. CASE Synced(prevTop)
    <3>1. ~(Height[subTop] > Height[sshTop]) /\ scanHeight = Height[prevTop] /\ scanHeight # -1
      BY <2>2, <1>5 DEF Synced
    <3>2. BootStart = IF branch # NoBlock /\ Height[branch] + 1 < scanHeight + 1
                      THEN Height[branch] + 1 ELSE scanHeight + 1
      BY <3>1 DEF BootStart, NoHeight
    <3>3. branch # NoBlock => Height[branch] + 1 < scanHeight + 1
      BY <3>1, <1>5, <1>6, <1>7, <1>8
    <3> QED
      BY <3>1, <3>2, <3>3, <1>3 DEF NoHeight
  <2> QED
    BY <2>1, <2>2, <1>4
<1>10. TypeOK'
  <2>1. start' \in Int
    BY <1>5, <1>6, <1>9 DEF NoHeight
  <2>2. pc' \in {"scan", "undo"}
    BY <1>3
  <2> QED
    BY <2>1, <2>2, <1>1, <1>3 DEF TypeOK
<1>11. TreeInv' /\ TallyNeverOff'
  BY <1>1, <1>3 DEF TreeInv, TallyNeverOff
<1>12. BootInv'
  BY <1>1, <1>2, <1>3 DEF BootInv
<1>13. CASE branch = NoBlock
  <2>1. pc' = "scan" /\ Extended
    BY <1>3, <1>8, <1>13
  <2>2. prevTop \in Chain[top] /\ ValidFor(top)
    BY <2>1 DEF Extended
  <2>3. scanHeight <= Height[prevTop] /\ NoHeight <= scanHeight
    BY <1>4, <1>5 DEF Synced, Blank, NoHeight
  <2>4. Upto(top, scanHeight) = Upto(prevTop, scanHeight)
    BY <2>2, <2>3, <1>5, UptoBelow
  <2>5. Upto(top, scanHeight)' = Upto(top, scanHeight) /\ ValidFor(top)'
    BY <2>2, <1>3 DEF Upto, ValidFor
  <2>6. /\ Tallied(Upto(top, scanHeight)) /\ StxoHolds(Upto(top, scanHeight))
        /\ Upto(top, scanHeight) \subseteq hinted
    BY <2>4, <1>4 DEF HistoryOf
  <2>7. /\ Tallied(Upto(top, scanHeight))' /\ StxoHolds(Upto(top, scanHeight))'
        /\ (Upto(top, scanHeight) \subseteq hinted)'
    BY <2>5, <2>6, <1>3 DEF Tallied, StxoHolds
  <2>8. prevTop = top \/ Height[prevTop] < Height[top]
    BY <2>2, <1>5, ChainAssumption
  <2>9. /\ NoHeight <= scanHeight /\ scanHeight <= Height[top]
        /\ scanHeight = Height[top] => sshTop = top /\ subTop = top
        /\ scanHeight # Height[top] => Height[sshTop] = 0 \/ Height[sshTop] < Height[top]
        /\ scanHeight = NoHeight => subTop = Genesis
        /\ scanHeight # NoHeight => Height[subTop] <= scanHeight
    <3>1. CASE Blank
      BY <3>1, <1>5 DEF Blank, NoHeight
    <3>2. CASE Synced(prevTop)
      BY <3>2, <2>8, <1>5 DEF Synced, NoHeight
    <3> QED
      BY <3>1, <3>2, <1>4
  <2>10. start' = IF scanHeight = NoHeight THEN NoHeight ELSE scanHeight + 1
    BY <1>9, <1>13
  <2>11. ScanInv'
    BY <2>1, <2>5, <2>7, <2>9, <2>10, <1>3 DEF ScanInv, ScanBase, Scanning, InBatch
  <2>12. RestInv' /\ UndoInv'
    BY <2>1 DEF RestInv, UndoInv
  <2> QED
    BY <2>11, <2>12, <1>10, <1>11, <1>12 DEF HistoryInv
<1>14. CASE branch # NoBlock
  <2>1. pc' = "undo" /\ Forked
    BY <1>3, <1>8, <1>14
  <2>2. Forked' /\ (Synced(prevTop) \/ Blank)' /\ HistoryOf(prevTop)'
    BY <2>1, <1>3, <1>4 DEF Forked, Synced, Blank, HistoryOf, Tallied, StxoHolds, Upto
  <2>3. start' = IF scanHeight' = NoHeight THEN NoHeight ELSE Height[branch'] + 1
    BY <1>3, <1>9, <1>14
  <2>4. UndoInv'
    BY <2>1, <2>2, <2>3 DEF UndoInv
  <2>5. RestInv' /\ ScanInv'
    BY <2>1 DEF RestInv, ScanInv, ScanBase, Scanning, InBatch
  <2> QED
    BY <2>4, <2>5, <1>10, <1>11, <1>12 DEF HistoryInv
<1> QED
  BY <1>13, <1>14

-----------------------------------------------------------------------------
(* The undo *)

(* undo takes the outputs and inputs above the branch point out of STXO. *)
LEMMA UndoSpentnessStep ==
    ASSUME HistoryInv, UndoSpentness
    PROVE  HistoryInv'
<1>1. /\ pc = "undo" /\ pc' = "undossh"
      /\ batch' = [end |-> NoHeight, outs |-> UndoneOuts, ins |-> UndoneIns]
      /\ stxo' = UndoneStxo
      /\ UNCHANGED <<disk, stored, top, validMain, hinted, subssh, subTop, credit, debit,
                     scanHeight, sshTop, merkleOk, boot, force, stops>>
      /\ UNCHANGED <<prevTop, branch, start, next, refHeight, utxo, hintsDone>>
  BY DEF UndoSpentness, headers, sshdb
<1>2. TypeOK /\ TreeInv /\ BootInv /\ UndoInv /\ TallyNeverOff
  BY DEF HistoryInv
<1>3. /\ Forked /\ (Synced(prevTop) \/ Blank) /\ HistoryOf(prevTop)
      /\ start = IF scanHeight = NoHeight THEN NoHeight ELSE Height[branch] + 1
  BY <1>1, <1>2 DEF UndoInv
<1>4. /\ prevTop \in Block /\ branch \in Block /\ scanHeight \in Int
      /\ stxo \in [Block -> {"none", "unspent", "spent"}] /\ hinted \subseteq Block
  BY <1>2, <1>3 DEF TypeOK, Forked
<1>5. branch \in Chain[prevTop] /\ Chain[branch] \subseteq Chain[prevTop]
  BY <1>3, <1>4, ChainAssumption DEF Forked
<1> DEFINE S == Upto(prevTop, scanHeight)
           R == Upto(branch, scanHeight)
<1>6. \A b \in Chain[prevTop] : b \in Block /\ Height[b] \in Int
  BY <1>4, BlockAssumption
<1>7. UndoneOuts = S \ R /\ S \ R = S \ Chain[branch] /\ R \subseteq S
  BY <1>4, <1>5, <1>6 DEF UndoneOuts, Above, Upto
<1>8. Lower(S) /\ Lower(R) /\ S \subseteq Block
  BY <1>4, UptoLower
<1>9. Tallied(S) /\ StxoHolds(S) /\ S \subseteq hinted
  BY <1>3 DEF HistoryOf
<1> HIDE DEF S, R
<1>10. UndoneIns = {b \in S \ R : Spends[b] # NoBlock}
  <2>1. ASSUME NEW b \in S \ R
        PROVE  (Spends[b] \in hinted /\ stxo[Spends[b]] # "none") <=> Spends[b] # NoBlock
    <3>1. CASE Spends[b] = NoBlock
      BY <3>1, <1>4, BlockAssumption
    <3>2. CASE Spends[b] # NoBlock
      <4>1. Spends[b] \in S /\ Spends[b] \in Block
        BY <3>2, <1>8, SpentBelow
      <4>2. stxo[Spends[b]] = StxoState(S, Spends[b])
        BY <4>1, <1>9 DEF StxoHolds
      <4> QED
        BY <4>1, <4>2, <3>2, <1>9 DEF StxoState
    <3> QED
      BY <3>1, <3>2
  <2> QED
    BY <2>1, <1>7 DEF UndoneIns
<1>11. ASSUME NEW b \in Block
       PROVE  stxo'[b] = StxoState(R, b)
  <2>1. stxo'[b] = IF b \in UndoneOuts THEN "none"
                   ELSE IF \E c \in UndoneIns : Spends[c] = b THEN "unspent"
                   ELSE stxo[b]
    BY <1>1 DEF UndoneStxo
  <2>2. stxo[b] = StxoState(S, b)
    BY <1>9 DEF StxoHolds
  <2>3. StxoState(R, b) =
             IF b \in S \ R THEN "none"
             ELSE IF \E c \in S \ R : Spends[c] # NoBlock /\ Spends[c] = b THEN "unspent"
             ELSE StxoState(S, b)
    BY <1>7, <1>8, UndoneState
  <2>4. (\E c \in UndoneIns : Spends[c] = b) <=> \E c \in S \ R : Spends[c] # NoBlock /\ Spends[c] = b
    BY <1>10
  <2> QED
    BY <2>1, <2>2, <2>3, <2>4, <1>7
<1>12. batch' \in [end : Int, outs : SUBSET Block, ins : SUBSET Block]
  <2>1. UndoneOuts \subseteq Block /\ UndoneIns \subseteq Block /\ NoHeight \in Int
    BY <1>7, <1>8, <1>10 DEF NoHeight
  <2> QED
    BY <2>1, <1>1
<1>13. stxo' \in [Block -> {"none", "unspent", "spent"}]
  BY <1>1, <1>4 DEF UndoneStxo
<1>14. TypeOK'
  BY <1>1, <1>2, <1>12, <1>13 DEF TypeOK
<1>15. TreeInv' /\ TallyNeverOff'
  BY <1>1, <1>2 DEF TreeInv, TallyNeverOff
<1>16. BootInv'
  BY <1>1, <1>2 DEF BootInv
<1>17. RestInv' /\ ScanInv'
  BY <1>1 DEF RestInv, ScanInv, ScanBase, Scanning, InBatch
<1>18. UndoInv'
  <2>1. Forked' /\ (Synced(prevTop) \/ Blank)'
        /\ start' = IF scanHeight' = NoHeight THEN NoHeight ELSE Height[branch'] + 1
    BY <1>1, <1>3 DEF Forked, Synced, Blank
  <2>2. Upto(prevTop, scanHeight)' = S /\ Upto(branch, scanHeight)' = R
    BY <1>1 DEF S, R, Upto
  <2>3. Tallied(Upto(prevTop, scanHeight))'
    BY <1>1, <1>9, <2>2 DEF Tallied
  <2>4. StxoHolds(Upto(branch, scanHeight))'
    BY <1>11, <2>2 DEF StxoHolds
  <2>5. Upto(branch', scanHeight') \subseteq hinted'
    BY <1>1, <1>7, <1>9, <2>2
  <2>6. batch'.outs = Upto(prevTop', scanHeight') \ Chain[branch']
    BY <1>1, <1>7, <2>2
  <2>7. batch'.ins = {b \in batch'.outs : Spends[b] # NoBlock}
    BY <1>1, <1>7, <1>10
  <2> QED
    BY <2>1, <2>3, <2>4, <2>5, <2>6, <2>7, <1>1 DEF UndoInv
<1> QED
  BY <1>14, <1>15, <1>16, <1>17, <1>18 DEF HistoryInv

(* undo takes them out of SSH, and updateBranchingMaps enters the new branch. *)
LEMMA UndoSshStep ==
    ASSUME HistoryInv, UndoSsh
    PROVE  HistoryInv'
<1>1. /\ pc = "undossh" /\ pc' = "scan"
      /\ credit' = Add(credit, batch.outs, -1)
      /\ debit' = Add(debit, batch.ins, -1)
      /\ scanHeight' = IF scanHeight > Height[branch] THEN Height[branch] ELSE scanHeight
      /\ sshTop' = branch
      /\ validMain' = Entered(Above(branch, top) \cup {branch})
      /\ batch' = NoBatch
      /\ UNCHANGED <<disk, stored, top, stxo, hinted, subssh, subTop, merkleOk, boot, force, stops>>
      /\ UNCHANGED <<prevTop, branch, start, next, refHeight, utxo, hintsDone>>
  BY DEF UndoSsh
<1>2. TypeOK /\ TreeInv /\ BootInv /\ UndoInv
  BY DEF HistoryInv
<1>3. /\ Forked /\ (Synced(prevTop) \/ Blank)
      /\ start = IF scanHeight = NoHeight THEN NoHeight ELSE Height[branch] + 1
      /\ Tallied(Upto(prevTop, scanHeight))
      /\ StxoHolds(Upto(branch, scanHeight)) /\ Upto(branch, scanHeight) \subseteq hinted
      /\ batch.outs = Upto(prevTop, scanHeight) \ Chain[branch]
      /\ batch.ins = {b \in batch.outs : Spends[b] # NoBlock}
  BY <1>1, <1>2 DEF UndoInv
<1>4. /\ prevTop \in Block /\ branch \in Block /\ top \in Block /\ top \in stored /\ scanHeight \in Int
      /\ validMain \in [Heights -> Block \cup {NoBlock}]
      /\ credit \in [Block -> Int] /\ debit \in [Block -> Int]
      /\ \A b \in Block : Height[b] \in Nat
      /\ Height[prevTop] <= Height[top]
  BY <1>2, <1>3, BlockAssumption DEF TypeOK, Forked
<1>5. /\ branch \in Chain[prevTop] /\ branch \in Chain[top]
      /\ Chain[branch] \subseteq Chain[prevTop] /\ Chain[branch] \subseteq Chain[top]
      /\ prevTop \notin Chain[top] /\ Chain[prevTop] \cap Chain[top] = Chain[branch]
      /\ top \in Chain[top] /\ prevTop \in Chain[prevTop] /\ branch \in Chain[branch]
  BY <1>3, <1>4, ChainAssumption DEF Forked
<1>6. Height[branch] < Height[prevTop] /\ Height[branch] < Height[top]
  <2>1. branch # prevTop
    BY <1>5
  <2>2. Height[branch] < Height[prevTop]
    BY <2>1, <1>4, <1>5, ChainAssumption
  <2> QED
    BY <2>2, <1>4
<1>7. scanHeight' \in Int /\ NoHeight <= scanHeight' /\ scanHeight' <= Height[branch]
  BY <1>1, <1>3, <1>4 DEF Synced, Blank, NoHeight
<1>8. start = IF scanHeight' = NoHeight THEN NoHeight ELSE scanHeight' + 1
  <2>1. CASE Blank
    BY <2>1, <1>1, <1>3, <1>4 DEF Blank, NoHeight
  <2>2. CASE Synced(prevTop)
    BY <2>2, <1>1, <1>3, <1>4, <1>6 DEF Synced, NoHeight
  <2> QED
    BY <2>1, <2>2, <1>3
<1>9. /\ scanHeight' = NoHeight => subTop = Genesis
      /\ scanHeight' # NoHeight => subTop = prevTop
  <2>1. CASE Blank
    BY <2>1, <1>1, <1>4 DEF Blank, NoHeight
  <2>2. CASE Synced(prevTop)
    BY <2>2, <1>1, <1>4, <1>6 DEF Synced, NoHeight
  <2> QED
    BY <2>1, <2>2, <1>3
<1> DEFINE S == Upto(prevTop, scanHeight)
           R == Upto(branch, scanHeight)
<1>10. R = Upto(top, scanHeight')
  <2>1. Upto(top, scanHeight') = Upto(branch, scanHeight')
    BY <1>4, <1>5, <1>7, UptoBelow
  <2>2. ASSUME NEW b \in Chain[branch]
        PROVE  Height[b] <= scanHeight <=> Height[b] <= scanHeight'
    <3>1. b \in Block /\ Height[b] \in Nat
      BY <1>4, BlockAssumption
    <3>2. Height[b] <= Height[branch]
      BY <3>1, <1>4, ChainAssumption
    <3> QED
      BY <3>1, <3>2, <1>1, <1>4
  <2>3. R = Upto(branch, scanHeight')
    BY <2>2 DEF Upto
  <2> QED
    BY <2>1, <2>3
<1>11. batch.outs = S \ R /\ R \subseteq S /\ S \subseteq Block
       /\ batch.ins = {b \in S \ R : Spends[b] # NoBlock}
  <2>1. S \subseteq Block
    BY <1>4, UptoLower
  <2>2. S \ Chain[branch] = S \ R /\ R \subseteq S
    BY <1>5 DEF Upto
  <2> HIDE DEF S, R
  <2> QED
    BY <2>1, <2>2, <1>3 DEF S
<1> HIDE DEF S, R
<1>12. Tallied(Upto(top, scanHeight))'
  <2> SUFFICES ASSUME NEW b \in Block
               PROVE  /\ credit'[b] = One(b \in R)
                      /\ debit'[b] = One(b \in R /\ Spends[b] # NoBlock)
    <3>1. Upto(top, scanHeight)' = R
      BY <1>1, <1>10 DEF Upto
    <3> QED
      BY <3>1 DEF Tallied
  <2>1. credit[b] = One(b \in S) /\ debit[b] = One(b \in S /\ Spends[b] # NoBlock)
    BY <1>3 DEF Tallied, S
  <2>2. /\ credit'[b] = IF b \in S \ R THEN credit[b] + (-1) ELSE credit[b]
        /\ debit'[b] = IF b \in S \ R /\ Spends[b] # NoBlock THEN debit[b] + (-1) ELSE debit[b]
    BY <1>1, <1>11 DEF Add
  <2>3. b \in R => b \in S
    BY <1>11
  <2> QED
    BY <2>1, <2>2, <2>3 DEF One
<1>13. ValidFor(top)'
  <2> DEFINE U == Above(branch, top) \cup {branch}
  <2>1. U \in SUBSET Chain[top] /\ U \cup Chain[branch] = Chain[top]
    BY <1>5 DEF Above
  <2>2. ASSUME NEW b \in Block
        PROVE  validMain'[Height[b]] = b <=> b \in Chain[top]
    <3>1. /\ b \in U => validMain'[Height[b]] = b
          /\ ~(\E c \in U : Height[c] = Height[b]) => validMain'[Height[b]] = validMain[Height[b]]
          /\ \A c \in U : Height[c] = Height[b] => validMain'[Height[b]] = c
      BY <1>1, <1>4, <2>1, EnteredAt
    <3> HIDE DEF U
    <3>2. CASE b \in U
      BY <3>1, <3>2, <2>1
    <3>3. CASE b \in Chain[branch] /\ b \notin U
      <4>1. ~\E c \in U : Height[c] = Height[b]
        BY <3>3, <2>1, <1>4, OnePerHeight
      <4>2. validMain[Height[b]] = b
        BY <3>3, <1>3 DEF Forked
      <4> QED
        BY <4>1, <4>2, <3>1, <3>3, <2>1
    <3>4. CASE b \notin Chain[top]
      <4>1. SUFFICES ASSUME validMain'[Height[b]] = b PROVE FALSE
        BY <3>4
      <4>2. ~\E c \in U : Height[c] = Height[b]
        BY <4>1, <3>1, <3>4, <2>1
      <4>3. b \in Chain[prevTop]
        BY <4>1, <4>2, <3>1, <3>4, <1>3 DEF Forked
      <4>4. Height[b] <= Height[prevTop]
        BY <4>3, <1>4, ChainAssumption
      <4>5. Height[b] \in Nat /\ Height[b] <= Height[top]
        BY <4>4, <1>4
      <4>6. PICK c \in Chain[top] : Height[c] = Height[b]
        BY <4>5, <1>4, HeightOnChain
      <4>7. c \in Chain[prevTop]
        BY <4>2, <4>6, <2>1, <1>5
      <4>8. c = b
        BY <4>3, <4>6, <4>7, <1>4, OnePerHeight
      <4> QED
        BY <4>6, <4>8, <3>4
    <3> QED
      BY <3>2, <3>3, <3>4, <2>1
  <2> QED
    BY <2>2, <1>1 DEF ValidFor
<1>14. TypeOK'
  <2>1. Above(branch, top) \cup {branch} \in SUBSET Block
    BY <1>4, BlockAssumption DEF Above
  <2>2. validMain' \in [Heights -> Block \cup {NoBlock}]
    BY <2>1, <1>1, <1>4, EnteredType
  <2>3. credit' \in [Block -> Int] /\ debit' \in [Block -> Int]
    BY <1>1, <1>4 DEF Add
  <2>4. sshTop' \in stored
    BY <1>1, <1>2, <1>4, <1>5 DEF TreeInv
  <2>5. batch' \in [end : Int, outs : SUBSET Block, ins : SUBSET Block]
    BY <1>1 DEF NoBatch, NoHeight
  <2> QED
    BY <2>2, <2>3, <2>4, <2>5, <1>1, <1>2, <1>7 DEF TypeOK
<1>15. TreeInv'
  BY <1>1, <1>2 DEF TreeInv
<1>16. BootInv'
  BY <1>1, <1>2 DEF BootInv
<1>17. RestInv' /\ UndoInv'
  BY <1>1 DEF RestInv, UndoInv
<1>18. TallyNeverOff'
  BY <1>12 DEF Tallied, TallyNeverOff, One
<1>19. ScanInv'
  <2>1. Upto(top, scanHeight)' = R
    BY <1>1, <1>10 DEF Upto
  <2>3. StxoHolds(Upto(top, scanHeight))' /\ Upto(top', scanHeight') \subseteq hinted'
    BY <1>1, <1>3, <2>1 DEF StxoHolds, R
  <2>4. scanHeight' # Height[top'] /\ scanHeight' <= Height[top'] /\ Height[sshTop'] < Height[top']
    BY <1>1, <1>4, <1>6, <1>7
  <2>5. /\ start' = IF scanHeight' = NoHeight THEN NoHeight ELSE scanHeight' + 1
        /\ NoHeight <= scanHeight'
    BY <1>1, <1>7, <1>8
  <2>6. /\ scanHeight' = NoHeight => subTop' = Genesis
        /\ scanHeight' # NoHeight => subTop' \notin Chain[top']
    BY <1>1, <1>5, <1>9
  <2> QED
    BY <2>3, <2>4, <2>5, <2>6, <1>1, <1>12, <1>13 DEF ScanInv, ScanBase, Scanning, InBatch
<1> QED
  BY <1>14, <1>15, <1>16, <1>17, <1>18, <1>19 DEF HistoryInv

-----------------------------------------------------------------------------
(* The scan *)

(* What no step of the scan touches. *)
LEMMA BaseFrame ==
    ASSUME ScanBase, pc' \in {"scan", "ssh"} \/ scanHeight # Height[top],
           UNCHANGED <<top, validMain, credit, debit, scanHeight, sshTop, start>>
    PROVE  ScanBase'
<1>1. Tallied(Upto(top, scanHeight))' /\ ValidFor(top)'
  BY DEF ScanBase, Tallied, ValidFor, Upto
<1> QED
  BY <1>1 DEF ScanBase

(* A scan begins above the height of the addresses. *)
LEMMA ScanStep ==
    ASSUME HistoryInv, Scan
    PROVE  HistoryInv'
<1>1. /\ pc = "scan" /\ merkleOk' = TRUE
      /\ UNCHANGED <<disk, stored, top, validMain, stxo, hinted, subssh, subTop, credit, debit,
                     scanHeight, sshTop, boot, force, prevTop, branch, start, batch, hintsDone,
                     stops>>
  BY DEF Scan, headers, sshdb
<1>2. IF ScanFrom > Height[top]
      THEN /\ pc' = IF subTop \in Chain[top] THEN "ssh" ELSE "failed"
           /\ UNCHANGED <<next, refHeight, utxo>>
      ELSE /\ next' = ScanFrom
           /\ refHeight' = scanHeight
           /\ utxo' = {b \in hinted : stxo[b] = "unspent"}
           /\ pc' = "batch"
  BY DEF Scan, PreloadUtxos
<1>3. TypeOK /\ TreeInv /\ BootInv /\ ScanInv /\ TallyNeverOff
  BY DEF HistoryInv
<1>4. /\ ScanBase
      /\ StxoHolds(Upto(top, scanHeight)) /\ Upto(top, scanHeight) \subseteq hinted
      /\ scanHeight = NoHeight => subTop = Genesis
      /\ scanHeight # NoHeight /\ subTop \in Chain[top] => Height[subTop] <= scanHeight
      /\ scanHeight = Height[top] => subTop = top
  BY <1>1, <1>3 DEF ScanInv, Scanning
<1>5. /\ top \in Block /\ subTop \in Block /\ scanHeight \in Int /\ start \in Int
      /\ Height[top] \in Nat /\ Height[subTop] \in Nat
  BY <1>3, BlockAssumption DEF TypeOK
<1>6. ScanFrom = scanHeight + 1
  <2>1. Genesis \in Chain[top] /\ Height[Genesis] = 0
    BY <1>5, ChainAssumption, StepAssumption
  <2>2. start = IF scanHeight = NoHeight THEN NoHeight ELSE scanHeight + 1
    BY <1>4 DEF ScanBase
  <2>3. CASE scanHeight = NoHeight
    BY <2>1, <2>2, <2>3, <1>4 DEF ScanFrom, NoHeight
  <2>4. CASE scanHeight # NoHeight
    BY <2>2, <2>4, <1>4, <1>5 DEF ScanFrom
  <2> QED
    BY <2>3, <2>4
<1> DEFINE S == Upto(top, scanHeight)
<1>7. Lower(S) /\ S \subseteq Block
  BY <1>5, UptoLower
<1>8. StxoHolds(S)' /\ S \subseteq hinted /\ Upto(top, scanHeight)' = S
  BY <1>1, <1>4 DEF StxoHolds, Upto
<1>9. TallyNeverOff' /\ TreeInv'
  BY <1>1, <1>3 DEF TreeInv, TallyNeverOff
<1>10. -1 <= scanHeight /\ scanHeight <= Height[top]
  BY <1>4 DEF ScanBase, NoHeight
<1>11. CASE scanHeight = Height[top]
  <2>1. pc' = "ssh" /\ UNCHANGED <<next, refHeight, utxo>> /\ subTop = top
    <3>1. ScanFrom > Height[top]
      BY <1>5, <1>6, <1>11
    <3>2. subTop = top /\ top \in Chain[top]
      BY <1>4, <1>5, <1>11, ChainAssumption
    <3> QED
      BY <3>1, <3>2, <1>2
  <2>2. S = Chain[top]
    BY <1>5, <1>11, UptoAll
  <2>3. TypeOK'
    BY <2>1, <1>1, <1>3 DEF TypeOK
  <2>4. BootInv'
    BY <2>1, <1>1, <1>3 DEF BootInv
  <2>5. RestInv' /\ UndoInv'
    BY <2>1 DEF RestInv, UndoInv
  <2>6. ScanBase'
    BY <2>1, <1>1, <1>4, BaseFrame
  <2>7. Recorded(Chain[top] \ Upto(top, scanHeight))'
    <3>1. (Chain[top] \ Upto(top, scanHeight))' = {}
      BY <2>2, <1>1, <1>8
    <3> QED
      BY <3>1 DEF Recorded
  <2>8. StxoHolds(Chain[top])' /\ Chain[top'] \subseteq hinted'
    BY <2>2, <1>1, <1>8 DEF StxoHolds
  <2>9. ScanInv'
    BY <2>1, <2>6, <2>7, <2>8, <1>1 DEF ScanInv, Scanning, InBatch
  <2> QED
    BY <2>3, <2>4, <2>5, <2>9, <1>9 DEF HistoryInv
<1>12. CASE scanHeight # Height[top]
  <2>1. /\ pc' = "batch" /\ next' = scanHeight + 1 /\ refHeight' = scanHeight
        /\ utxo' = {b \in hinted : stxo[b] = "unspent"}
    <3>1. ~(ScanFrom > Height[top])
      BY <1>5, <1>6, <1>10, <1>12
    <3> QED
      BY <3>1, <1>2, <1>6
  <2>2. TypeOK'
    <3>1. next' \in Int /\ refHeight' \in Int /\ utxo' \subseteq Block
      BY <2>1, <1>3, <1>5 DEF TypeOK
    <3> QED
      BY <3>1, <2>1, <1>1, <1>3 DEF TypeOK
  <2>3. BootInv'
    BY <2>1, <1>1, <1>3 DEF BootInv
  <2>4. RestInv' /\ UndoInv'
    BY <2>1 DEF RestInv, UndoInv
  <2>5. ScanBase'
    BY <1>1, <1>4, <1>12, BaseFrame
  <2>6. StxoTo' = scanHeight /\ SubsshTo' = scanHeight /\ HintsTo' = scanHeight /\ UtxoTo' = scanHeight
    BY <2>1, <1>5 DEF StxoTo, SubsshTo, HintsTo, UtxoTo, InBatch
  <2>7. /\ Upto(top, StxoTo)' = S /\ Upto(top, SubsshTo)' = S
        /\ Upto(top, HintsTo)' = S /\ Upto(top, UtxoTo)' = S
    BY <2>6, <1>1 DEF Upto
  <2>8. utxo' = Unspent(S)
    <3>1. \A b \in Block : stxo[b] = StxoState(S, b)
      BY <1>4 DEF StxoHolds
    <3> HIDE DEF S
    <3>2. \A b \in Block : stxo[b] = "unspent" <=> b \in S /\ ~\E c \in S : Spends[c] = b
      BY <3>1 DEF StxoState
    <3> QED
      BY <3>2, <2>1, <1>3, <1>7, <1>8 DEF Unspent, TypeOK
  <2>9. Recorded(Upto(top, SubsshTo) \ Upto(top, scanHeight))'
    <3>1. (Upto(top, SubsshTo) \ Upto(top, scanHeight))' = {}
      BY <2>7, <1>8
    <3> QED
      BY <3>1 DEF Recorded
  <2>10. /\ StxoHolds(Upto(top, StxoTo))' /\ (Upto(top, HintsTo) \subseteq hinted)'
         /\ (utxo = Unspent(Upto(top, UtxoTo)))'
    BY <2>7, <2>8, <1>1, <1>8 DEF StxoHolds, Unspent
  <2>11. refHeight' = scanHeight' /\ scanHeight' < next' /\ 0 <= next' /\ next' <= Height[top']
    BY <2>1, <1>1, <1>5, <1>10, <1>12
  <2>12. ScanInv'
    BY <2>1, <2>5, <2>9, <2>10, <2>11 DEF ScanInv, Scanning, InBatch
  <2> QED
    BY <2>2, <2>3, <2>4, <2>12, <1>9 DEF HistoryInv
<1> QED
  BY <1>11, <1>12

(* A chain up to two heights. *)
LEMMA UptoTwo ==
    ASSUME NEW t \in Block, NEW h \in Int, NEW k \in Int, h <= k
    PROVE  /\ Upto(t, h) \in SUBSET Upto(t, k)
           /\ Upto(t, k) \ Upto(t, h) = {b \in Chain[t] : h < Height[b] /\ Height[b] <= k}
<1>1. \A b \in Chain[t] : Height[b] \in Int
  BY BlockAssumption
<1> QED
  BY <1>1 DEF Upto

(* A batch holds the outputs and the inputs of the next heights. *)
LEMMA ParseStep ==
    ASSUME HistoryInv, ParseBatch
    PROVE  HistoryInv'
<1>1. /\ pc = "batch" /\ pc' = "stxo" /\ hintsDone' = FALSE
      /\ UNCHANGED <<disk, stored, top, validMain, stxo, hinted, subssh, subTop, credit, debit,
                     scanHeight, sshTop, merkleOk, boot, force, prevTop, branch, start, next,
                     refHeight, stops>>
  BY DEF ParseBatch, headers, sshdb
<1>2. PICK end \in next..Height[top] :
        /\ batch' = [end |-> end, outs |-> BatchOuts(end), ins |-> BatchIns(end)]
        /\ utxo' = (utxo \cup BatchOuts(end)) \ {Spends[b] : b \in BatchIns(end)}
  BY DEF ParseBatch
<1>3. TypeOK /\ TreeInv /\ BootInv /\ ScanInv /\ TallyNeverOff
  BY DEF HistoryInv
<1>4. /\ ScanBase
      /\ refHeight = scanHeight /\ scanHeight < next /\ 0 <= next /\ next <= Height[top]
      /\ StxoHolds(Upto(top, StxoTo)) /\ Upto(top, HintsTo) \subseteq hinted
      /\ Recorded(Upto(top, SubsshTo) \ Upto(top, scanHeight))
      /\ utxo = Unspent(Upto(top, UtxoTo))
  BY <1>1, <1>3 DEF ScanInv, Scanning
<1>5. /\ top \in Block /\ scanHeight \in Int /\ next \in Int /\ Height[top] \in Nat
      /\ end \in Int /\ next <= end /\ end <= Height[top]
  BY <1>2, <1>3, BlockAssumption DEF TypeOK
<1> DEFINE S == Upto(top, end)
           R == Upto(top, next - 1)
<1>6. StxoTo = next - 1 /\ HintsTo = next - 1 /\ SubsshTo = next - 1 /\ UtxoTo = next - 1
  BY <1>1 DEF StxoTo, HintsTo, SubsshTo, UtxoTo, InBatch
<1>7. Lower(S) /\ Lower(R) /\ S \subseteq Block
  BY <1>5, UptoLower
<1>8. R \in SUBSET S /\ S \ R = {b \in Chain[top] : next - 1 < Height[b] /\ Height[b] <= end}
  BY <1>5, UptoTwo
<1>9. \A b \in Chain[top] : Height[b] \in Int
  BY <1>5, BlockAssumption
<1>10. BatchOuts(end) = S \ R
  BY <1>4, <1>5, <1>8, <1>9 DEF BatchOuts
<1>11. utxo = Unspent(R)
  BY <1>4, <1>6
<1> HIDE DEF S, R
<1>12. BatchIns(end) = {b \in S \ R : Spends[b] # NoBlock}
  <2>1. \A b \in S \ R : Spends[b] \in Unspent(R) \cup (S \ R) <=> Spends[b] # NoBlock
    BY <1>7, <1>8, InputFound
  <2>2. \A b : b \in S \ R <=> b \in Chain[top] /\ next <= Height[b] /\ Height[b] <= end
    BY <1>5, <1>8, <1>9
  <2>3. BatchIns(end) = {b \in S \ R : Spends[b] \in Unspent(R) \cup (S \ R)}
    BY <2>2, <1>10, <1>11 DEF BatchIns
  <2> QED
    BY <2>1, <2>3
<1>13. utxo' = Unspent(S)
  BY <1>2, <1>7, <1>8, <1>10, <1>11, <1>12, UtxoAfter
<1>14. batch' = [end |-> end, outs |-> S \ R, ins |-> {b \in S \ R : Spends[b] # NoBlock}]
  BY <1>2, <1>10, <1>12
<1>15. TypeOK'
  <2>1. utxo' \subseteq Block
    BY <1>7, <1>13 DEF Unspent
  <2>2. batch' \in [end : Int, outs : SUBSET Block, ins : SUBSET Block]
    BY <1>5, <1>7, <1>14
  <2> QED
    BY <2>1, <2>2, <1>1, <1>3 DEF TypeOK
<1>16. TreeInv' /\ TallyNeverOff'
  BY <1>1, <1>3 DEF TreeInv, TallyNeverOff
<1>17. BootInv'
  BY <1>1, <1>3 DEF BootInv
<1>18. RestInv' /\ UndoInv'
  BY <1>1 DEF RestInv, UndoInv
<1>19. ScanInv'
  <2>1. ScanBase'
    BY <1>1, <1>4, <1>5, BaseFrame
  <2>2. StxoTo' = next - 1 /\ HintsTo' = next - 1 /\ SubsshTo' = next - 1 /\ UtxoTo' = end
    BY <1>1, <1>14 DEF StxoTo, HintsTo, SubsshTo, UtxoTo, InBatch
  <2>3. /\ Upto(top, StxoTo)' = R /\ Upto(top, HintsTo)' = R /\ Upto(top, SubsshTo)' = R
        /\ Upto(top, UtxoTo)' = S /\ Upto(top, batch.end)' = S /\ Upto(top, next - 1)' = R
        /\ Upto(top, scanHeight)' = Upto(top, scanHeight)
    BY <2>2, <1>1, <1>14 DEF Upto, S, R
  <2>4. StxoHolds(R) /\ R \subseteq hinted /\ Recorded(R \ Upto(top, scanHeight))
    BY <1>4, <1>6 DEF R
  <2>5. /\ StxoHolds(Upto(top, StxoTo))' /\ (Upto(top, HintsTo) \subseteq hinted)'
        /\ Recorded(Upto(top, SubsshTo) \ Upto(top, scanHeight))'
        /\ (utxo = Unspent(Upto(top, UtxoTo)))'
    BY <2>3, <2>4, <1>1, <1>13 DEF StxoHolds, Recorded, Unspent
  <2>6. /\ batch'.outs = (Upto(top, batch.end) \ Upto(top, next - 1))'
        /\ batch'.ins = {b \in batch'.outs : Spends[b] # NoBlock}
        /\ next' <= batch'.end /\ batch'.end <= Height[top']
    BY <2>3, <1>1, <1>5, <1>14
  <2>7. refHeight' = scanHeight' /\ scanHeight' < next' /\ 0 <= next' /\ next' <= Height[top']
    BY <1>1, <1>4
  <2> QED
    BY <2>1, <2>5, <2>6, <2>7, <1>1 DEF ScanInv, Scanning, InBatch
<1> QED
  BY <1>15, <1>16, <1>17, <1>18, <1>19 DEF HistoryInv

(* What holds of a batch on its way to the databases. *)
LEMMA BatchFacts ==
    ASSUME TypeOK, ScanInv, InBatch
    PROVE  /\ top \in Block /\ scanHeight \in Int /\ next \in Int /\ batch.end \in Int
           /\ Height[top] \in Nat /\ scanHeight # Height[top] /\ ScanBase
           /\ next <= batch.end /\ batch.end <= Height[top] /\ 0 <= next /\ scanHeight < next
           /\ Lower(Upto(top, batch.end)) /\ Lower(Upto(top, next - 1))
           /\ Upto(top, batch.end) \subseteq Block
           /\ Upto(top, next - 1) \in SUBSET Upto(top, batch.end)
           /\ batch.outs = Upto(top, batch.end) \ Upto(top, next - 1)
           /\ batch.ins = {b \in batch.outs : Spends[b] # NoBlock}
           /\ refHeight = scanHeight /\ next <= Height[top]
           /\ StxoHolds(Upto(top, StxoTo)) /\ Upto(top, HintsTo) \subseteq hinted
           /\ Recorded(Upto(top, SubsshTo) \ Upto(top, scanHeight))
           /\ utxo = Unspent(Upto(top, batch.end))
<1>1. /\ ScanBase
      /\ refHeight = scanHeight /\ scanHeight < next /\ 0 <= next /\ next <= Height[top]
      /\ StxoHolds(Upto(top, StxoTo)) /\ Upto(top, HintsTo) \subseteq hinted
      /\ Recorded(Upto(top, SubsshTo) \ Upto(top, scanHeight))
      /\ utxo = Unspent(Upto(top, UtxoTo)) /\ UtxoTo = batch.end
      /\ next <= batch.end /\ batch.end <= Height[top]
      /\ batch.outs = Upto(top, batch.end) \ Upto(top, next - 1)
      /\ batch.ins = {b \in batch.outs : Spends[b] # NoBlock}
  BY DEF ScanInv, Scanning, InBatch, UtxoTo
<1>2. top \in Block /\ scanHeight \in Int /\ next \in Int /\ batch.end \in Int /\ Height[top] \in Nat
  BY BlockAssumption DEF TypeOK
<1>3. next - 1 \in Int /\ next - 1 <= batch.end /\ scanHeight # Height[top]
  BY <1>1, <1>2
<1>4. /\ Lower(Upto(top, batch.end)) /\ Lower(Upto(top, next - 1))
      /\ Upto(top, batch.end) \subseteq Block
  BY <1>2, <1>3, UptoLower
<1>5. Upto(top, next - 1) \in SUBSET Upto(top, batch.end)
  BY <1>2, <1>3, UptoTwo
<1> QED
  BY <1>1, <1>2, <1>3, <1>4, <1>5

(* writeBlockData marks what the batch pays and spends. *)
LEMMA StxoStep ==
    ASSUME HistoryInv, WriteStxo
    PROVE  HistoryInv'
<1>1. /\ pc = "stxo" /\ pc' = "subssh"
      /\ stxo' = [b \in Block |->
                    IF \E c \in batch.ins : Spends[c] = b THEN "spent"
                    ELSE IF b \in batch.outs THEN "unspent"
                    ELSE stxo[b]]
      /\ UNCHANGED <<disk, stored, top, validMain, hinted, subssh, subTop, credit, debit,
                     scanHeight, sshTop, merkleOk, boot, force, stops>>
      /\ UNCHANGED <<prevTop, branch, start, next, refHeight, utxo, batch, hintsDone>>
  BY DEF WriteStxo, headers, sshdb, local
<1>2. TypeOK /\ TreeInv /\ BootInv /\ ScanInv /\ TallyNeverOff /\ InBatch
  BY <1>1 DEF HistoryInv, InBatch
<1> DEFINE S == Upto(top, batch.end)
           R == Upto(top, next - 1)
<1>3. StxoTo = next - 1 /\ SubsshTo = next - 1 /\ HintsTo = IF hintsDone THEN batch.end ELSE next - 1
  BY <1>1 DEF StxoTo, SubsshTo, HintsTo, InBatch
<1>4. /\ Lower(S) /\ Lower(R) /\ R \in SUBSET S /\ StxoHolds(R)
      /\ batch.outs = S \ R /\ batch.ins = {b \in batch.outs : Spends[b] # NoBlock}
  BY <1>2, <1>3, BatchFacts
<1> HIDE DEF S, R
<1>5. ASSUME NEW b \in Block
      PROVE  stxo'[b] = StxoState(S, b)
  <2>1. StxoState(S, b) =
             IF \E c \in S \ R : Spends[c] # NoBlock /\ Spends[c] = b THEN "spent"
             ELSE IF b \in S \ R THEN "unspent"
             ELSE StxoState(R, b)
    BY <1>4, ScannedState
  <2>2. stxo[b] = StxoState(R, b)
    BY <1>4 DEF StxoHolds
  <2>3. stxo'[b] = IF \E c \in batch.ins : Spends[c] = b THEN "spent"
                   ELSE IF b \in batch.outs THEN "unspent"
                   ELSE stxo[b]
    BY <1>1
  <2>4. (\E c \in batch.ins : Spends[c] = b) <=> \E c \in S \ R : Spends[c] # NoBlock /\ Spends[c] = b
    BY <1>4
  <2> QED
    BY <2>1, <2>2, <2>3, <2>4, <1>4
<1>6. TypeOK'
  <2>1. stxo' \in [Block -> {"none", "unspent", "spent"}]
    BY <1>1, <1>2 DEF TypeOK
  <2> QED
    BY <2>1, <1>1, <1>2 DEF TypeOK
<1>7. TreeInv' /\ TallyNeverOff'
  BY <1>1, <1>2 DEF TreeInv, TallyNeverOff
<1>8. BootInv'
  BY <1>1, <1>2 DEF BootInv
<1>9. RestInv' /\ UndoInv'
  BY <1>1 DEF RestInv, UndoInv
<1>10. ScanInv'
  <2>1. ScanBase'
    BY <1>1, <1>2, BatchFacts, BaseFrame
  <2>2. StxoTo' = batch.end /\ SubsshTo' = SubsshTo /\ HintsTo' = HintsTo /\ UtxoTo' = batch.end
    BY <1>1, <1>3 DEF StxoTo, SubsshTo, HintsTo, UtxoTo, InBatch
  <2>3. /\ Upto(top, StxoTo)' = S /\ Upto(top, HintsTo)' = Upto(top, HintsTo)
        /\ Upto(top, SubsshTo)' = Upto(top, SubsshTo)
        /\ Upto(top, UtxoTo)' = S /\ Upto(top, batch.end)' = S /\ Upto(top, next - 1)' = R
        /\ Upto(top, scanHeight)' = Upto(top, scanHeight)
    BY <2>2, <1>1 DEF Upto, S, R
  <2>4. StxoHolds(Upto(top, StxoTo))'
    BY <2>3, <1>5 DEF StxoHolds
  <2>5. /\ Upto(top, HintsTo) \subseteq hinted
        /\ Recorded(Upto(top, SubsshTo) \ Upto(top, scanHeight)) /\ utxo = Unspent(S)
    BY <1>2, BatchFacts DEF S
  <2>6. (Upto(top, HintsTo) \subseteq hinted)'
    BY <2>3, <2>5, <1>1
  <2>7. Recorded(Upto(top, SubsshTo) \ Upto(top, scanHeight))'
    BY <2>3, <2>5, <1>1 DEF Recorded
  <2>8. (utxo = Unspent(Upto(top, UtxoTo)))'
    BY <2>3, <2>5, <1>1 DEF Unspent
  <2>9. /\ batch'.outs = (Upto(top, batch.end) \ Upto(top, next - 1))'
        /\ batch'.ins = {b \in batch'.outs : Spends[b] # NoBlock}
    BY <2>3, <1>1, <1>4
  <2>10. /\ next' <= batch'.end /\ batch'.end <= Height[top']
         /\ refHeight' = scanHeight' /\ scanHeight' < next' /\ 0 <= next' /\ next' <= Height[top']
    BY <1>1, <1>2, BatchFacts
  <2> QED
    BY <2>1, <2>4, <2>6, <2>7, <2>8, <2>9, <2>10, <1>1 DEF ScanInv, Scanning, InBatch
<1> QED
  BY <1>6, <1>7, <1>8, <1>9, <1>10 DEF HistoryInv

(* The SUBSSH transaction records the batch and names its last block. *)
LEMMA SubsshStep ==
    ASSUME HistoryInv, WriteSubssh
    PROVE  HistoryInv'
<1>1. /\ pc = "subssh" /\ pc' = "join"
      /\ subssh' = [b \in Block |-> IF Entries(b) # {} THEN Entries(b) ELSE subssh[b]]
      /\ subTop' = CHOOSE b \in Chain[top] : Height[b] = batch.end
      /\ UNCHANGED <<disk, stored, top, validMain, stxo, hinted, credit, debit,
                     scanHeight, sshTop, merkleOk, boot, force, stops>>
      /\ UNCHANGED <<prevTop, branch, start, next, refHeight, utxo, batch, hintsDone>>
  BY DEF WriteSubssh, headers, sshdb, local
<1>2. TypeOK /\ TreeInv /\ BootInv /\ ScanInv /\ TallyNeverOff /\ InBatch
  BY <1>1 DEF HistoryInv, InBatch
<1> DEFINE S == Upto(top, batch.end)
           R == Upto(top, next - 1)
           Old == Upto(top, scanHeight)
<1>3. StxoTo = batch.end /\ SubsshTo = next - 1 /\ HintsTo = IF hintsDone THEN batch.end ELSE next - 1
  BY <1>1 DEF StxoTo, SubsshTo, HintsTo, InBatch
<1>4. /\ R \in SUBSET S /\ S \subseteq Block /\ Recorded(R \ Old) /\ StxoHolds(S)
      /\ batch.outs = S \ R /\ batch.ins = {b \in batch.outs : Spends[b] # NoBlock}
      /\ utxo = Unspent(S)
  BY <1>2, <1>3, BatchFacts
<1> HIDE DEF S, R, Old
<1>5. subTop' \in Chain[top] /\ Height[subTop'] = batch.end
  <2>1. top \in Block /\ batch.end \in Nat /\ batch.end <= Height[top]
    BY <1>2, BatchFacts
  <2>2. \E b \in Chain[top] : Height[b] = batch.end
    BY <2>1, HeightOnChain
  <2> QED
    BY <2>2, <1>1
<1>6. ASSUME NEW b \in S, b \notin Old
      PROVE  "out" \in subssh'[b] /\ ("in" \in subssh'[b] <=> Spends[b] # NoBlock)
  <2>1. b \in Block /\ subssh'[b] = IF Entries(b) # {} THEN Entries(b) ELSE subssh[b]
    BY <1>1, <1>4
  <2>2. CASE b \in R
    <3>1. Entries(b) = {}
      BY <2>2, <1>4 DEF Entries
    <3>2. "out" \in subssh[b] /\ ("in" \in subssh[b] <=> Spends[b] # NoBlock)
      BY <2>2, <1>4, <1>6 DEF Recorded
    <3> QED
      BY <3>1, <3>2, <2>1
  <2>3. CASE b \notin R
    <3>1. b \in batch.outs /\ (b \in batch.ins <=> Spends[b] # NoBlock)
      BY <2>3, <1>4
    <3>2. "out" \in Entries(b) /\ ("in" \in Entries(b) <=> b \in batch.ins)
      BY <3>1 DEF Entries
    <3> QED
      BY <3>1, <3>2, <2>1
  <2> QED
    BY <2>2, <2>3
<1>7. TypeOK'
  <2>1. \A b \in Block : Entries(b) \in SUBSET {"out", "in"}
    BY DEF Entries
  <2>2. subssh' \in [Block -> SUBSET {"out", "in"}]
    BY <2>1, <1>1, <1>2 DEF TypeOK
  <2>3. subTop' \in stored
    BY <1>2, <1>5 DEF TypeOK, TreeInv
  <2> QED
    BY <2>2, <2>3, <1>1, <1>2 DEF TypeOK
<1>8. TreeInv' /\ TallyNeverOff'
  BY <1>1, <1>2 DEF TreeInv, TallyNeverOff
<1>9. BootInv'
  BY <1>1, <1>2 DEF BootInv
<1>10. RestInv' /\ UndoInv'
  BY <1>1 DEF RestInv, UndoInv
<1>11. ScanInv'
  <2>1. ScanBase'
    BY <1>1, <1>2, BatchFacts, BaseFrame
  <2>2. StxoTo' = batch.end /\ SubsshTo' = batch.end /\ HintsTo' = HintsTo /\ UtxoTo' = batch.end
    BY <1>1, <1>3 DEF StxoTo, SubsshTo, HintsTo, UtxoTo, InBatch
  <2>3. /\ Upto(top, StxoTo)' = S /\ Upto(top, HintsTo)' = Upto(top, HintsTo)
        /\ Upto(top, SubsshTo)' = S
        /\ Upto(top, UtxoTo)' = S /\ Upto(top, batch.end)' = S /\ Upto(top, next - 1)' = R
        /\ Upto(top, scanHeight)' = Old
    BY <2>2, <1>1 DEF Upto, S, R, Old
  <2>4. StxoHolds(Upto(top, StxoTo))'
    BY <2>3, <1>1, <1>4 DEF StxoHolds
  <2>5. Upto(top, HintsTo) \subseteq hinted
    BY <1>2, BatchFacts
  <2>6. (Upto(top, HintsTo) \subseteq hinted)'
    BY <2>3, <2>5, <1>1
  <2>7. Recorded(Upto(top, SubsshTo) \ Upto(top, scanHeight))'
    BY <2>3, <1>6 DEF Recorded
  <2>8. (utxo = Unspent(Upto(top, UtxoTo)))'
    BY <2>3, <1>1, <1>4 DEF Unspent
  <2>9. /\ batch'.outs = (Upto(top, batch.end) \ Upto(top, next - 1))'
        /\ batch'.ins = {b \in batch'.outs : Spends[b] # NoBlock}
        /\ subTop' \in Chain[top'] /\ Height[subTop'] = batch'.end
    BY <2>3, <1>1, <1>4, <1>5
  <2>10. /\ next' <= batch'.end /\ batch'.end <= Height[top']
         /\ refHeight' = scanHeight' /\ scanHeight' < next' /\ 0 <= next' /\ next' <= Height[top']
    BY <1>1, <1>2, BatchFacts
  <2> QED
    BY <2>1, <2>4, <2>6, <2>7, <2>8, <2>9, <2>10, <1>1 DEF ScanInv, Scanning, InBatch
<1> QED
  BY <1>7, <1>8, <1>9, <1>10, <1>11 DEF HistoryInv

(* The hint thread enters the transactions of the batch. *)
LEMMA HintsStep ==
    ASSUME HistoryInv, WriteHints
    PROVE  HistoryInv'
<1>1. /\ InBatch /\ hintsDone' = TRUE /\ hintsDone = FALSE
      /\ hinted' = hinted \cup batch.outs \cup batch.ins
      /\ UNCHANGED <<disk, stored, top, validMain, stxo, subssh, subTop, credit, debit,
                     scanHeight, sshTop, merkleOk, pc, boot, force, stops>>
      /\ UNCHANGED <<prevTop, branch, start, next, refHeight, utxo, batch>>
  BY DEF WriteHints, headers, sshdb, InBatch, HistoryInv, TypeOK
<1>2. TypeOK /\ TreeInv /\ BootInv /\ ScanInv /\ TallyNeverOff /\ pc \in {"stxo", "subssh", "join"}
  BY <1>1 DEF HistoryInv, InBatch
<1>3. /\ StxoTo' = StxoTo /\ SubsshTo' = SubsshTo /\ UtxoTo' = UtxoTo
      /\ HintsTo = next - 1 /\ HintsTo' = batch.end /\ UtxoTo = batch.end
  BY <1>1 DEF StxoTo, SubsshTo, HintsTo, UtxoTo, InBatch
<1> DEFINE S == Upto(top, batch.end)
           R == Upto(top, next - 1)
<1>4. /\ R \in SUBSET S /\ S \subseteq Block /\ R \subseteq hinted
      /\ batch.outs = S \ R /\ batch.ins = {b \in batch.outs : Spends[b] # NoBlock}
      /\ utxo = Unspent(S)
  BY <1>1, <1>2, <1>3, BatchFacts
<1> HIDE DEF S, R
<1>5. S \subseteq hinted'
  BY <1>1, <1>4
<1>6. TypeOK'
  <2>1. hinted' \subseteq Block
    BY <1>1, <1>2, <1>4 DEF TypeOK
  <2> QED
    BY <2>1, <1>1, <1>2 DEF TypeOK
<1>7. TreeInv' /\ TallyNeverOff'
  BY <1>1, <1>2 DEF TreeInv, TallyNeverOff
<1>8. BootInv'
  BY <1>1, <1>2 DEF BootInv
<1>9. RestInv' /\ UndoInv'
  BY <1>1, <1>2 DEF RestInv, UndoInv
<1>10. ScanInv'
  <2>1. ScanBase'
    BY <1>1, <1>2, BatchFacts, BaseFrame
  <2>2. /\ Upto(top, StxoTo)' = Upto(top, StxoTo) /\ Upto(top, HintsTo)' = S
        /\ Upto(top, SubsshTo)' = Upto(top, SubsshTo)
        /\ Upto(top, UtxoTo)' = S /\ Upto(top, batch.end)' = S /\ Upto(top, next - 1)' = R
        /\ Upto(top, scanHeight)' = Upto(top, scanHeight)
    BY <1>1, <1>3 DEF Upto, S, R
  <2>3. StxoHolds(Upto(top, StxoTo)) /\ Recorded(Upto(top, SubsshTo) \ Upto(top, scanHeight))
    BY <1>1, <1>2, BatchFacts
  <2>4. StxoHolds(Upto(top, StxoTo))'
    BY <2>2, <2>3, <1>1 DEF StxoHolds
  <2>5. (Upto(top, HintsTo) \subseteq hinted)'
    BY <2>2, <1>5
  <2>6. Recorded(Upto(top, SubsshTo) \ Upto(top, scanHeight))'
    BY <2>2, <2>3, <1>1 DEF Recorded
  <2>7. (utxo = Unspent(Upto(top, UtxoTo)))'
    BY <2>2, <1>1, <1>4 DEF Unspent
  <2>8. /\ batch'.outs = (Upto(top, batch.end) \ Upto(top, next - 1))'
        /\ batch'.ins = {b \in batch'.outs : Spends[b] # NoBlock}
    BY <2>2, <1>1, <1>4
  <2>9. /\ next' <= batch'.end /\ batch'.end <= Height[top']
        /\ refHeight' = scanHeight' /\ scanHeight' < next' /\ 0 <= next' /\ next' <= Height[top']
    BY <1>1, <1>2, BatchFacts
  <2>10. pc' = "join" => subTop' \in Chain[top'] /\ Height[subTop'] = batch'.end
    BY <1>1, <1>2 DEF ScanInv
  <2> QED
    BY <2>1, <2>4, <2>5, <2>6, <2>7, <2>8, <2>9, <2>10, <1>1, <1>2 DEF ScanInv, Scanning, InBatch
<1> QED
  BY <1>6, <1>7, <1>8, <1>9, <1>10 DEF HistoryInv

(* The scan goes on above the batch, or ends at the top. *)
LEMMA EndStep ==
    ASSUME HistoryInv, EndBatch
    PROVE  HistoryInv'
<1>1. /\ pc = "join" /\ hintsDone /\ next' = batch.end + 1 /\ batch' = NoBatch
      /\ pc' = IF batch.end >= Height[top] THEN "ssh" ELSE "batch"
      /\ UNCHANGED <<disk, stored, top, validMain, stxo, hinted, subssh, subTop, credit, debit,
                     scanHeight, sshTop, merkleOk, boot, force, stops>>
      /\ UNCHANGED <<prevTop, branch, start, refHeight, utxo, hintsDone>>
  BY DEF EndBatch, headers, sshdb, ScanDone
<1>2. TypeOK /\ TreeInv /\ BootInv /\ ScanInv /\ TallyNeverOff /\ InBatch
  BY <1>1 DEF HistoryInv, InBatch
<1>3. StxoTo = batch.end /\ SubsshTo = batch.end /\ HintsTo = batch.end
  BY <1>1 DEF StxoTo, SubsshTo, HintsTo, InBatch
<1> DEFINE S == Upto(top, batch.end)
           Old == Upto(top, scanHeight)
<1>4. /\ S \subseteq hinted /\ Recorded(S \ Old) /\ StxoHolds(S) /\ utxo = Unspent(S)
      /\ top \in Block /\ batch.end \in Int /\ Height[top] \in Nat /\ scanHeight \in Int
      /\ batch.end <= Height[top] /\ 0 <= batch.end /\ scanHeight < batch.end + 1
      /\ refHeight = scanHeight /\ ScanBase /\ scanHeight # Height[top]
  BY <1>2, <1>3, BatchFacts
<1>5. TypeOK'
  <2>1. batch' \in [end : Int, outs : SUBSET Block, ins : SUBSET Block]
    BY <1>1 DEF NoBatch, NoHeight
  <2>2. next' \in Int
    BY <1>1, <1>4
  <2> QED
    BY <2>1, <2>2, <1>1, <1>2 DEF TypeOK
<1>6. TreeInv' /\ TallyNeverOff'
  BY <1>1, <1>2 DEF TreeInv, TallyNeverOff
<1>7. BootInv'
  BY <1>1, <1>2 DEF BootInv
<1>8. RestInv' /\ UndoInv'
  BY <1>1 DEF RestInv, UndoInv
<1>9. ScanBase'
  BY <1>1, <1>4, BaseFrame
<1>10. Upto(top, scanHeight)' = Old
  BY <1>1 DEF Upto
<1>11. CASE batch.end >= Height[top]
  <2>1. pc' = "ssh" /\ batch.end = Height[top]
    BY <1>1, <1>4, <1>11
  <2>2. S = Chain[top]
    BY <2>1, <1>4, UptoAll
  <2>3. subTop = top
    <3>1. subTop \in Chain[top] /\ Height[subTop] = Height[top]
      BY <2>1, <1>1, <1>2 DEF ScanInv
    <3> QED
      BY <3>1, <1>4, OnePerHeight, ChainAssumption
  <2> HIDE DEF S, Old
  <2>4. StxoHolds(Chain[top])' /\ Chain[top'] \subseteq hinted'
    BY <2>2, <1>1, <1>4 DEF StxoHolds
  <2>5. Recorded(Chain[top] \ Upto(top, scanHeight))'
    BY <2>2, <1>1, <1>4, <1>10 DEF Recorded
  <2>6. ScanInv'
    BY <2>1, <2>3, <2>4, <2>5, <1>1, <1>9 DEF ScanInv, Scanning, InBatch
  <2> QED
    BY <2>6, <1>5, <1>6, <1>7, <1>8 DEF HistoryInv
<1>12. CASE ~(batch.end >= Height[top])
  <2>1. pc' = "batch" /\ next' - 1 = batch.end
    BY <1>1, <1>4, <1>12
  <2>2. StxoTo' = batch.end /\ SubsshTo' = batch.end /\ HintsTo' = batch.end /\ UtxoTo' = batch.end
    BY <2>1 DEF StxoTo, SubsshTo, HintsTo, UtxoTo, InBatch
  <2>3. /\ Upto(top, StxoTo)' = S /\ Upto(top, HintsTo)' = S
        /\ Upto(top, SubsshTo)' = S /\ Upto(top, UtxoTo)' = S
    BY <2>2, <1>1 DEF Upto
  <2> HIDE DEF S, Old
  <2>4. StxoHolds(Upto(top, StxoTo))' /\ (Upto(top, HintsTo) \subseteq hinted)'
    BY <2>3, <1>1, <1>4 DEF StxoHolds
  <2>5. Recorded(Upto(top, SubsshTo) \ Upto(top, scanHeight))'
    BY <2>3, <1>1, <1>4, <1>10 DEF Recorded
  <2>6. (utxo = Unspent(Upto(top, UtxoTo)))'
    BY <2>3, <1>1, <1>4 DEF Unspent
  <2>7. refHeight' = scanHeight' /\ scanHeight' < next' /\ 0 <= next' /\ next' <= Height[top']
    BY <1>1, <1>4, <1>12
  <2>8. ScanInv'
    BY <2>1, <2>4, <2>5, <2>6, <2>7, <1>9 DEF ScanInv, Scanning, InBatch
  <2> QED
    BY <2>8, <1>5, <1>6, <1>7, <1>8 DEF HistoryInv
<1> QED
  BY <1>11, <1>12

(* updateSSH counts every block above scanHeight_ once. *)
LEMMA UpdateSSHStep ==
    ASSUME HistoryInv, UpdateSSH
    PROVE  HistoryInv'
<1>1. TypeOK /\ TreeInv /\ BootInv /\ ScanInv /\ TallyNeverOff
  BY DEF HistoryInv
<1>2. /\ pc = "ssh" /\ pc' = "idle" /\ boot' = FALSE
      /\ UNCHANGED <<disk, stored, top, validMain, stxo, hinted, subssh, subTop, merkleOk, force,
                     stops>>
      /\ UNCHANGED <<prevTop, branch, start, next, refHeight, utxo, batch, hintsDone>>
  BY DEF UpdateSSH, headers, local
<1>3. IF SshScanned(start)
      THEN UNCHANGED <<credit, debit, scanHeight, sshTop>>
      ELSE /\ credit' = Add(credit, {b \in Counted(start) : "out" \in subssh[b]}, 1)
           /\ debit' = Add(debit, {b \in Counted(start) : "in" \in subssh[b]}, 1)
           /\ scanHeight' = Height[top]
           /\ sshTop' = top
  <2>1. force = FALSE
    BY <1>1 DEF BootInv
  <2> QED
    BY <2>1 DEF UpdateSSH, sshdb
<1>4. /\ ScanBase /\ subTop = top /\ StxoHolds(Chain[top]) /\ Chain[top] \subseteq hinted
      /\ Recorded(Chain[top] \ Upto(top, scanHeight))
  BY <1>1, <1>2 DEF ScanInv, Scanning
<1>5. /\ top \in Block /\ top \in stored /\ scanHeight \in Int /\ Height[top] \in Nat
      /\ credit \in [Block -> Int] /\ debit \in [Block -> Int] /\ start \in Int
      /\ Chain[top] \subseteq Block /\ Height[sshTop] \in Nat
      /\ \A b \in Block : Height[b] \in Nat
  BY <1>1, BlockAssumption DEF TypeOK
<1>6. /\ Tallied(Upto(top, scanHeight)) /\ ValidFor(top)
      /\ -1 <= scanHeight /\ scanHeight <= Height[top]
      /\ start = IF scanHeight = -1 THEN -1 ELSE scanHeight + 1
      /\ scanHeight = Height[top] => sshTop = top
      /\ scanHeight # Height[top] => Height[sshTop] = 0 \/ Height[sshTop] < Height[top]
  BY <1>4 DEF ScanBase, NoHeight
<1>7. /\ Tallied(Chain[top])' /\ scanHeight' = Height[top] /\ sshTop' = top
      /\ credit' \in [Block -> Int] /\ debit' \in [Block -> Int]
  <2>1. CASE scanHeight = Height[top]
    <3>1. SshScanned(start)
      BY <2>1, <1>5, <1>6 DEF SshScanned
    <3>2. Upto(top, scanHeight) = Chain[top]
      BY <2>1, <1>5, UptoAll
    <3>3. Tallied(Chain[top])'
      BY <3>1, <3>2, <1>2, <1>3, <1>6 DEF Tallied
    <3> QED
      BY <3>1, <3>3, <2>1, <1>3, <1>5, <1>6
  <2>2. CASE scanHeight # Height[top]
    <3>1. ~SshScanned(start)
      BY <2>2, <1>5, <1>6 DEF SshScanned
    <3>2. /\ credit' = Add(credit, {b \in Counted(start) : "out" \in subssh[b]}, 1)
          /\ debit' = Add(debit, {b \in Counted(start) : "in" \in subssh[b]}, 1)
          /\ scanHeight' = Height[top] /\ sshTop' = top
      BY <3>1, <1>3
    <3> DEFINE Old == Upto(top, scanHeight)
    <3>3. ASSUME NEW b \in Block
          PROVE  /\ b \in Counted(start) <=> b \in Chain[top] \ Old
                 /\ b \in Old => b \in Chain[top]
      <4>1. validMain[Height[b]] = b <=> b \in Chain[top]
        BY <1>6 DEF ValidFor
      <4>2. Height[b] >= start <=> ~(Height[b] <= scanHeight)
        BY <1>5, <1>6
      <4>3. b \in Counted(start) <=> Height[b] >= start /\ b \in Chain[top]
        BY <4>1 DEF Counted
      <4> QED
        BY <4>2, <4>3 DEF Upto
    <3> HIDE DEF Old
    <3>4. ASSUME NEW b \in Block
          PROVE  /\ credit'[b] = One(b \in Chain[top])
                 /\ debit'[b] = One(b \in Chain[top] /\ Spends[b] # NoBlock)
      <4>1. credit[b] = One(b \in Old) /\ debit[b] = One(b \in Old /\ Spends[b] # NoBlock)
        BY <1>6 DEF Tallied, Old
      <4>2. b \in Chain[top] \ Old =>
              "out" \in subssh[b] /\ ("in" \in subssh[b] <=> Spends[b] # NoBlock)
        BY <1>4 DEF Recorded, Old
      <4>3. /\ credit'[b] = IF b \in Counted(start) /\ "out" \in subssh[b]
                            THEN credit[b] + 1 ELSE credit[b]
            /\ debit'[b] = IF b \in Counted(start) /\ "in" \in subssh[b]
                           THEN debit[b] + 1 ELSE debit[b]
        BY <3>2 DEF Add
      <4>4. /\ credit'[b] = IF b \in Chain[top] \ Old THEN credit[b] + 1 ELSE credit[b]
            /\ debit'[b] = IF b \in Chain[top] \ Old /\ Spends[b] # NoBlock
                           THEN debit[b] + 1 ELSE debit[b]
        BY <4>2, <4>3, <3>3
      <4> QED
        BY <4>1, <4>4, <3>3 DEF One
    <3>5. Tallied(Chain[top])'
      BY <3>4, <1>2 DEF Tallied
    <3>6. credit' \in [Block -> Int] /\ debit' \in [Block -> Int]
      BY <3>2, <1>5 DEF Add
    <3> QED
      BY <3>2, <3>5, <3>6
  <2> QED
    BY <2>1, <2>2
<1>8. TypeOK'
  <2>1. boot' \in BOOLEAN
    BY <1>2
  <2>2. scanHeight' \in Int /\ sshTop' \in stored' /\ pc' = "idle"
    BY <1>2, <1>5, <1>7
  <2> QED
    BY <2>1, <2>2, <1>1, <1>2, <1>7 DEF TypeOK
<1>9. TreeInv'
  BY <1>1, <1>2 DEF TreeInv
<1>10. BootInv'
  BY <1>1, <1>2 DEF BootInv
<1>11. UndoInv' /\ ScanInv'
  BY <1>2 DEF UndoInv, ScanInv, Scanning, InBatch
<1>12. RestInv'
  <2>1. Upto(top, scanHeight)' = Chain[top]
    <3>1. Upto(top, Height[top]) = Chain[top]
      BY <1>5, UptoAll
    <3> QED
      BY <3>1, <1>2, <1>7 DEF Upto
  <2>2. HistoryOf(top)'
    BY <2>1, <1>2, <1>4, <1>7 DEF HistoryOf, Tallied, StxoHolds
  <2>3. ValidFor(top)'
    BY <1>2, <1>6 DEF ValidFor
  <2>4. Synced(top)'
    BY <1>2, <1>4, <1>7 DEF Synced
  <2> QED
    BY <2>2, <2>3, <2>4, <1>2 DEF RestInv
<1>13. TallyNeverOff'
  BY <1>7 DEF Tallied, TallyNeverOff, One
<1> QED
  BY <1>8, <1>9, <1>10, <1>11, <1>12, <1>13 DEF HistoryInv

-----------------------------------------------------------------------------
LEMMA HistoryStep ==
    ASSUME Setting, HistoryInv, [Next]_vars
    PROVE  HistoryInv'
<1>1. CASE UpdateBlocksInDB
  BY <1>1, UpdateStep
<1>2. CASE PlanScan
  BY <1>2, PlanStep
<1>3. CASE UndoSpentness
  BY <1>3, UndoSpentnessStep
<1>4. CASE UndoSsh
  BY <1>4, UndoSshStep
<1>5. CASE Scan
  BY <1>5, ScanStep
<1>6. CASE ParseBatch
  BY <1>6, ParseStep
<1>7. CASE WriteStxo
  BY <1>7, StxoStep
<1>8. CASE WriteSubssh
  BY <1>8, SubsshStep
<1>9. CASE WriteHints
  BY <1>9, HintsStep
<1>10. CASE EndBatch
  BY <1>10, EndStep
<1>11. CASE UpdateSSH
  BY <1>11, UpdateSSHStep
<1>12. CASE \E b \in Block \ {Genesis} : NodeWrites(b)
  BY <1>12, WritesStep
<1>13. CASE RegisterNewAddresses
  BY <1>13, RegisterStep
<1>14. CASE Stop \/ Kill
  BY <1>14, StopStep
<1>15. CASE \E mode \in CleanModes \cup KillModes : Restart(mode)
  BY <1>15, RestartStep
<1>16. CASE UNCHANGED vars
  BY <1>16, StutterStep
<1> QED
  BY <1>1, <1>2, <1>3, <1>4, <1>5, <1>6, <1>7, <1>8, <1>9, <1>10, <1>11, <1>12, <1>13, <1>14,
     <1>15, <1>16 DEF Next, Builder

(* The history databases follow the block tree through updates, reorganisations
   and restarts: the inductive invariant of updateBlocksInDB, undo, scan and
   updateSSH. *)
THEOREM HistoryInvariant == ASSUME Setting PROVE Spec => []HistoryInv
<1>1. Init => HistoryInv
  BY HistoryInit
<1>2. HistoryInv /\ [Next]_vars => HistoryInv'
  BY HistoryStep
<1> QED
  BY <1>1, <1>2, PTL DEF Spec

(* Between updates a balance holds the outputs and inputs of the main branch,
   each once, whatever blocks arrived in whatever order: update() and init() in
   DatabaseBuilder.cpp, undo, scan and updateSSH in BlockchainScanner.cpp. *)
THEOREM HistoryCorrect == ASSUME Setting PROVE Spec => []HistoryIsMain
<1>1. HistoryInv => HistoryIsMain
  <2> SUFFICES ASSUME HistoryInv, pc = "idle" PROVE HistoryIsMain
    BY DEF HistoryIsMain
  <2>1. Tallied(Upto(top, scanHeight)) /\ Upto(top, scanHeight) = Chain[top]
    <3>1. Tallied(Upto(top, scanHeight)) /\ scanHeight = Height[top]
      BY DEF HistoryInv, RestInv, HistoryOf, Synced
    <3>2. top \in Block /\ Height[top] \in Int
      BY BlockAssumption DEF HistoryInv, TypeOK
    <3> QED
      BY <3>1, <3>2, UptoAll
  <2> QED
    BY <2>1 DEF HistoryIsMain, Tallied
<1> QED
  BY <1>1, HistoryInvariant, PTL

(* Between updates the STXO db holds the outputs of the main branch, spent
   exactly when a block of the main branch spends them: what the next scan
   preloads, and what undo looks the spent outputs up in. *)
THEOREM StxoCorrect == ASSUME Setting PROVE Spec => []StxoIsMain
<1>1. HistoryInv => StxoIsMain
  <2> SUFFICES ASSUME HistoryInv, pc = "idle" PROVE StxoIsMain
    BY DEF StxoIsMain
  <2>1. StxoHolds(Upto(top, scanHeight)) /\ Upto(top, scanHeight) = Chain[top]
    <3>1. StxoHolds(Upto(top, scanHeight)) /\ scanHeight = Height[top]
      BY DEF HistoryInv, RestInv, HistoryOf, Synced
    <3>2. top \in Block /\ Height[top] \in Int
      BY BlockAssumption DEF HistoryInv, TypeOK
    <3> QED
      BY <3>1, <3>2, UptoAll
  <2> QED
    BY <2>1 DEF StxoIsMain, StxoHolds, StxoState
<1> QED
  BY <1>1, HistoryInvariant, PTL

(* At no point, undo and scan included, is a block in a balance twice or taken
   out of it without having been in it: totalUnspent_ does not wrap around in
   undo's subtraction. *)
THEOREM TallyCorrect == ASSUME Setting PROVE Spec => []TallyNeverOff
<1>1. HistoryInv => TallyNeverOff
  BY DEF HistoryInv
<1> QED
  BY <1>1, HistoryInvariant, PTL

(* The builder does not end in "failed to repair DB" or "scan failure": a scan
   that has nothing to do finds the top it is asked for in SUBSSH. *)
THEOREM BuilderNeverFails == ASSUME Setting PROVE Spec => []NeverFails
<1>1. HistoryInv => NeverFails
  BY DEF HistoryInv, BootInv, NeverFails
<1> QED
  BY <1>1, HistoryInvariant, PTL

(* The history databases are well typed: SUBSSH and SSH name blocks of the
   HEADERS db, at any time a kill can fall. *)
THEOREM HistoryTyped == ASSUME Setting PROVE Spec => []TypeOK
<1>1. HistoryInv => TypeOK
  BY DEF HistoryInv
<1> QED
  BY <1>1, HistoryInvariant, PTL

-----------------------------------------------------------------------------
(* The header side of this module is the one Blockchain implements *)

(* Whole chains are on disk and in the HEADERS db, the main branch with them. *)
HeaderInv ==
    /\ disk \subseteq Block /\ stored \subseteq disk /\ top \in stored
    /\ Genesis \in stored
    /\ \A b \in disk : Chain[b] \subseteq disk
    /\ \A b \in stored : Chain[b] \subseteq stored

(* MainBranch is about the same tree. *)
LEMMA SameChoice ==
    /\ \A S : Promise!Attached(S) = Attached(S)
    /\ \A t, S, cur : Promise!IsBest(t, S, cur) = IsBest(t, S, cur)
BY DEF Promise!Attached, Attached, Promise!IsBest, IsBest

LEMMA HeaviestBest ==
    ASSUME NEW S \in SUBSET Block, NEW cur \in S
    PROVE  IsBest(Heaviest(S, cur), S, cur)
<1> DEFINE t == Heaviest(S, cur)
           better == {b \in S : ChainWork[b] > ChainWork[cur]}
           First(b) == \A c \in better : \/ ChainWork[c] < ChainWork[b]
                                         \/ ChainWork[c] = ChainWork[b] /\ Rank[b] <= Rank[c]
<1>1. \A b \in S : b \in Block /\ ChainWork[b] \in Nat /\ Rank[b] \in Nat
  BY BlockAssumption
<1>2. /\ t \in S
      /\ \A b \in S : ChainWork[b] <= ChainWork[t]
      /\ t # cur => ChainWork[cur] < ChainWork[t]
  BY HeaviestIs
<1>3. ASSUME t # cur, NEW b \in S, ChainWork[b] = ChainWork[t]
      PROVE  Rank[t] <= Rank[b]
  <2>1. better # {}
    BY <1>2, <1>3, <1>1
  <2>2. \E c \in better : First(c)
    <3>1. better \in SUBSET Block
      OBVIOUS
    <3>2. PICK c \in better : FirstOf(c, better)
      BY <2>1, <3>1, HeaviestExists
    <3>3. First(c)
      BY <3>2 DEF FirstOf
    <3> QED
      BY <3>3
  <2>3. t = CHOOSE c \in better : First(c)
    BY <2>1 DEF Heaviest
  <2>4. First(t)
    <3> HIDE DEF First
    <3> QED
      BY <2>2, <2>3
  <2>5. b \in better
    BY <1>1, <1>2, <1>3
  <2>6. ChainWork[b] < ChainWork[t] \/ Rank[t] <= Rank[b]
    BY <2>4, <2>5
  <2> QED
    BY <2>6, <1>1, <1>2, <1>3
<1> HIDE DEF t
<1> QED
  BY <1>2, <1>3 DEF IsBest, t

LEMMA HeaderInit == Init => HeaderInv
BY BlockAssumption, StepAssumption DEF Init, HeaderInv

LEMMA HeaderUpdate ==
    ASSUME HeaderInv, UpdateBlocksInDB
    PROVE  HeaderInv' /\ Promise!Update(disk)
<1> DEFINE t == Heaviest(disk, top)
           point == IF top \in Chain[t] THEN NoBlock ELSE ForkPoint(top, t)
<1>1. top' = t /\ prevTop' = top /\ branch' = point /\ stored' = disk /\ disk' = disk
  BY DEF UpdateBlocksInDB, HeadersPut
<1>2. /\ disk \subseteq Block /\ top \in disk /\ stored \subseteq disk /\ Genesis \in disk
      /\ \A b \in disk : Chain[b] \subseteq disk
  BY DEF HeaderInv
<1>3. IsBest(t, disk, top)
  BY <1>2, HeaviestBest
<1>4. t \in disk /\ t \in Block /\ top \in Block
  BY <1>2, <1>3 DEF IsBest
<1> HIDE DEF t
<1>5. Attached(disk) = disk
  BY <1>2 DEF Attached
<1>6. IF top \in Chain[t] THEN branch' = NoBlock
      ELSE branch' \in Block /\ Chain[top] \cap Chain[t] = Chain[branch']
  <2>1. CASE top \in Chain[t]
    BY <2>1, <1>1
  <2>2. CASE top \notin Chain[t]
    <3>1. branch' = CHOOSE c \in Chain[top] \cap Chain[t] : Chain[top] \cap Chain[t] = Chain[c]
      BY <2>2, <1>1 DEF ForkPoint
    <3>2. \E c \in Chain[top] \cap Chain[t] : Chain[top] \cap Chain[t] = Chain[c]
      BY <1>4, ForkExists
    <3>3. branch' \in Chain[top] \cap Chain[t] /\ Chain[top] \cap Chain[t] = Chain[branch']
      BY <3>1, <3>2
    <3> QED
      BY <2>2, <3>3, <1>4, BlockAssumption
  <2> QED
    BY <2>1, <2>2
<1>7. HeaderInv'
  BY <1>1, <1>2, <1>4 DEF HeaderInv
<1>8. Promise!Update(disk)
  BY <1>1, <1>2, <1>3, <1>5, <1>6, SameChoice DEF Promise!Update
<1> QED
  BY <1>7, <1>8

LEMMA HeaderRestart ==
    ASSUME HeaderInv, NEW mode, Restart(mode)
    PROVE  HeaderInv' /\ Promise!Restart(stored)
<1>1. /\ top' = Heaviest(stored, Genesis) /\ prevTop' = Genesis /\ branch' = NoBlock
      /\ UNCHANGED <<disk, stored>>
  BY DEF Restart
<1>2. IsBest(top', stored, Genesis)
  BY <1>1, HeaviestBest DEF HeaderInv
<1>3. Attached(stored) = stored
  BY DEF Attached, HeaderInv
<1>4. HeaderInv'
  BY <1>1, <1>2 DEF HeaderInv, IsBest
<1>5. Promise!Restart(stored)
  BY <1>1, <1>2, <1>3, SameChoice DEF Promise!Restart, HeaderInv
<1> QED
  BY <1>4, <1>5

LEMMA HeaderStep ==
    ASSUME HeaderInv, [Next]_vars
    PROVE  HeaderInv' /\ [Promise!Next]_(Promise!mainBranch)
<1>1. CASE UpdateBlocksInDB
  <2>1. disk \in SUBSET Block
    BY DEF HeaderInv
  <2> QED
    BY <2>1, <1>1, HeaderUpdate DEF Promise!Next
<1>2. CASE \E mode \in CleanModes \cup KillModes : Restart(mode)
  <2>1. stored \in SUBSET Block
    BY DEF HeaderInv
  <2> QED
    BY <2>1, <1>2, HeaderRestart DEF Promise!Next
<1>3. CASE \E b \in Block \ {Genesis} : NodeWrites(b)
  <2>1. PICK b \in Block \ {Genesis} : NodeWrites(b)
    BY <1>3
  <2>2. /\ Parent[b] \in disk /\ disk' = disk \cup {b}
        /\ UNCHANGED <<stored, top, prevTop, branch>>
    BY <2>1 DEF NodeWrites, headers, local
  <2>3. Chain[b] = Chain[Parent[b]] \cup {b}
    BY StepAssumption
  <2>4. HeaderInv'
    BY <2>2, <2>3 DEF HeaderInv
  <2> QED
    BY <2>2, <2>4 DEF Promise!mainBranch
<1>4. CASE \/ PlanScan \/ UndoSpentness \/ UndoSsh \/ Scan \/ ParseBatch \/ WriteStxo
           \/ WriteSubssh \/ WriteHints \/ EndBatch \/ UpdateSSH
           \/ RegisterNewAddresses \/ Stop \/ Kill \/ UNCHANGED vars
  <2>1. UNCHANGED <<disk, stored, top, prevTop, branch>>
    BY <1>4 DEF PlanScan, UndoSpentness, UndoSsh, Scan, ParseBatch, WriteStxo,
       WriteSubssh, WriteHints, EndBatch, UpdateSSH, RegisterNewAddresses, Stop, Kill,
       vars, headers, local
  <2> QED
    BY <2>1 DEF HeaderInv, Promise!mainBranch
<1> QED
  BY <1>1, <1>2, <1>3, <1>4 DEF Next, Builder

(* However the server is stopped, killed and started: what updateBlocksInDB and
   the load of a start-up do here is what Blockchain is shown to do. *)
THEOREM HistoryFollowsMainBranch == Spec => FollowsMainBranch
<1>1. Init => HeaderInv /\ Promise!Init
  BY HeaderInit DEF Init, Promise!Init
<1>2. HeaderInv /\ [Next]_vars => HeaderInv' /\ [Promise!Next]_(Promise!mainBranch)
  BY HeaderStep
<1> QED
  BY <1>1, <1>2, PTL DEF Spec, FollowsMainBranch, Promise!Spec

==============================================================================
