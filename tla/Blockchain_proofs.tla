-------------------------- MODULE Blockchain_proofs --------------------------
(***************************************************************************)
(* For every block tree: the main branch is one chain that ends in a       *)
(* heaviest block, and a reorganisation reports the fork and settles;      *)
(* height and duplicate id name one block when blocks reach the files      *)
(* parents first; the headers side implements MainBranch; and the state    *)
(* keeps its types through kills and reused ids.                           *)
(*                                                                         *)
(* The argument: difficulty sums are either unset or right, the set of     *)
(* finished headers is the main branch, and a walk down a chain can only   *)
(* leave the old main branch's complement at the fork.  The headers in the *)
(* HEADERS db are a prefix of the block files, so with parents first the   *)
(* known headers are closed under prevHash and every one of them has its   *)
(* height when it is written.                                              *)
(***************************************************************************)
EXTENDS Blockchain, ChainTree_proofs

(* s and h are right wherever s is set, and only connected headers are set. *)
SumOK(s, h) ==
    \A b \in Block : s[b] # NoSum =>
        s[b] = ChainWork[b] /\ h[b] = Height[b] /\ Chain[b] \subseteq known

(* The fields of the headers have the types of their declarations. *)
Fields ==
    /\ file \in Seq(Block)
    /\ known \subseteq Block /\ Genesis \in known
    /\ dbHgt \in [Block -> Int]
    /\ sum \in [Block -> Int] /\ hgt \in [Block -> Int]
    /\ next \in [Block -> Block \cup {NoBlock}]
    /\ byHeight \in [Heights -> Block \cup {NoBlock}]
    /\ finished \subseteq Block /\ main \subseteq Block
    /\ top \in known
    /\ phase \in {"idle", "organize", "rebuild", "put", "undo", "down", "load",
                  "branching", "parse"}

(* A connected header outweighs t, or is as heavy with a smaller hash. *)
FirstHeaviest(t) ==
    \A b \in known : Chain[b] \subseteq known =>
        ChainWork[b] < ChainWork[t] \/ (ChainWork[b] = ChainWork[t] /\ Rank[t] <= Rank[b])

(* Every phase in which the main branch is whole. *)
Whole == phase \notin {"down", "load", "rebuild"}

ChainInv ==
    /\ Fields
    /\ SumOK(sum, hgt)
    /\ MainBranchConsistent
    /\ Whole => \A b \in Chain[top] : sum[b] # NoSum
    /\ TopIsHeaviest
    /\ phase = "rebuild" =>
          /\ FirstHeaviest(top) /\ Chain[top] \subseteq known
          /\ reorg.branch # NoBlock
          /\ reorg.prevTop \notin Chain[top]
          /\ Chain[reorg.prevTop] \cap Chain[top] = Chain[reorg.branch]
    /\ BranchPointIsFork

-----------------------------------------------------------------------------
(* traceChainDown sets every connected header, sets it right, and leaves the
   others and the ones that were set alone. *)
LEMMA TraceLemma ==
    ASSUME NEW s \in [Block -> Int], NEW h \in [Block -> Int],
           known \subseteq Block, SumOK(s, h),
           Genesis \in known, s[Genesis] = ChainWork[Genesis]
    PROVE  /\ TracedSum(s) \in [Block -> Int]
           /\ TracedHgt(s, h) \in [Block -> Int]
           /\ SumOK(TracedSum(s), TracedHgt(s, h))
           /\ \A b \in known : Chain[b] \subseteq known => TracedSum(s)[b] # NoSum
           /\ \A b \in Block : s[b] # NoSum => TracedSum(s)[b] = s[b]
  <1> DEFINE base(b) == CHOOSE a \in Chain[b] : TraceBase(a, b, s)
  <1>1. ASSUME NEW b \in Traced(s)
        PROVE  /\ b \in Block /\ base(b) \in Chain[b] /\ base(b) \in Block
               /\ TraceBase(base(b), b, s)
    <2>1. b \in known /\ \E a \in Chain[b] : TraceBase(a, b, s)
      BY DEF Traced
    <2>2. base(b) \in Chain[b] /\ TraceBase(base(b), b, s)
      BY <2>1
    <2> QED
      BY <2>1, <2>2, BlockAssumption
  <1>2. ASSUME NEW b \in Traced(s)
        PROVE  /\ TracedSum(s)[b] = ChainWork[b]
               /\ TracedHgt(s, h)[b] = Height[b]
               /\ Chain[b] \subseteq known
    <2>0. b \in Block /\ base(b) \in Block /\ base(b) \in Chain[b]
      BY <1>1
    <2>1. s[base(b)] # NoSum /\ Above(base(b), b) \subseteq known
      BY <1>1 DEF TraceBase, FirstMet, Solved
    <2>2. s[base(b)] = ChainWork[base(b)] /\ h[base(b)] = Height[base(b)]
          /\ Chain[base(b)] \subseteq known
      BY <2>0, <2>1 DEF SumOK
    <2>3. ChainWork[b] \in Int /\ ChainWork[base(b)] \in Int
          /\ Height[b] \in Int /\ Height[base(b)] \in Int
      BY <2>0, BlockAssumption
    <2>4. TracedSum(s)[b] = s[base(b)] + (ChainWork[b] - ChainWork[base(b)])
      BY <2>0 DEF TracedSum
    <2>5. TracedHgt(s, h)[b] = h[base(b)] + (Height[b] - Height[base(b)])
      BY <2>0 DEF TracedHgt
    <2>6. Chain[b] \subseteq known
      BY <2>1, <2>2 DEF Above
    <2> QED
      BY <2>2, <2>3, <2>4, <2>5, <2>6
  <1>3. ASSUME NEW b \in Block, b \notin Traced(s)
        PROVE  TracedSum(s)[b] = s[b] /\ TracedHgt(s, h)[b] = h[b]
    BY <1>3 DEF TracedSum, TracedHgt
  <1>4. \A b \in Block : s[b] # NoSum => TracedSum(s)[b] = s[b]
    <2> SUFFICES ASSUME NEW b \in Block, s[b] # NoSum
                 PROVE  TracedSum(s)[b] = s[b]
      OBVIOUS
    <2>1. s[b] = ChainWork[b]
      BY DEF SumOK
    <2> QED
      BY <1>2, <1>3, <2>1
  <1>5. \A b \in known : Chain[b] \subseteq known => TracedSum(s)[b] # NoSum
    <2> SUFFICES ASSUME NEW b \in known, Chain[b] \subseteq known
                 PROVE  b \in Traced(s) /\ ChainWork[b] # NoSum
      BY <1>2
    <2>1. b \in Block /\ ChainWork[b] \in Nat
      BY BlockAssumption
    <2>2. s[Genesis] # NoSum /\ Genesis \in Chain[b]
      BY <2>1, BlockAssumption, ChainAssumption DEF NoSum
    <2>3. Solved(s) \in SUBSET Block /\ Solved(s) \cap Chain[b] # {}
      BY <2>2 DEF Solved
    <2>4. PICK a \in Solved(s) \cap Chain[b] : (Chain[b] \ Chain[a]) \cap Solved(s) = {}
      BY <2>1, <2>3, WalkAssumption
    <2>5. TraceBase(a, b, s)
      BY <2>4 DEF TraceBase, FirstMet, Above
    <2> QED
      BY <2>1, <2>4, <2>5 DEF Traced, NoSum
  <1>6. ASSUME NEW b \in Block
        PROVE  TracedSum(s)[b] \in Int /\ TracedHgt(s, h)[b] \in Int
    <2>1. ChainWork[b] \in Int /\ Height[b] \in Int
      BY BlockAssumption
    <2> QED
      BY <2>1, <1>2, <1>3
  <1>7. TracedSum(s) \in [Block -> Int] /\ TracedHgt(s, h) \in [Block -> Int]
    <2>1. TracedSum(s) = [b \in Block |-> TracedSum(s)[b]]
      BY DEF TracedSum
    <2>2. TracedHgt(s, h) = [b \in Block |-> TracedHgt(s, h)[b]]
      BY DEF TracedHgt
    <2> QED
      BY <2>1, <2>2, <1>6
  <1>8. SumOK(TracedSum(s), TracedHgt(s, h))
    <2> SUFFICES ASSUME NEW b \in Block, TracedSum(s)[b] # NoSum
                 PROVE  /\ TracedSum(s)[b] = ChainWork[b]
                        /\ TracedHgt(s, h)[b] = Height[b]
                        /\ Chain[b] \subseteq known
      BY DEF SumOK
    <2>1. CASE b \in Traced(s)
      BY <2>1, <1>2
    <2>2. CASE b \notin Traced(s)
      BY <2>2, <1>3 DEF SumOK
    <2> QED
      BY <2>1, <2>2
  <1> QED
    BY <1>4, <1>5, <1>7, <1>8

(* The block the loop over headerMap_ ends on outweighs every connected header;
   when it is not the previous top it is the first of the heaviest. *)
LEMMA HeaviestLemma ==
    ASSUME NEW s \in [Block -> Int], NEW h \in [Block -> Int],
           NEW t \in known, NEW p \in Block,
           known \subseteq Block, SumOK(s, h),
           Genesis \in known, s[Genesis] = ChainWork[Genesis],
           IsHeaviest(t, p, s[p], TracedSum(s))
    PROVE  /\ \A b \in known : Chain[b] \subseteq known => ChainWork[b] <= ChainWork[t]
           /\ Chain[t] \subseteq known
           /\ TracedSum(s)[t] = ChainWork[t]
           /\ t # p \/ s[p] = NoSum => FirstHeaviest(t)
           /\ t # p => s[p] < ChainWork[t]
  <1> DEFINE s1 == TracedSum(s)
             better == {b \in Solved(s1) : s1[b] > s[p]}
  <1>1. /\ s1 \in [Block -> Int]
        /\ \A b \in Block : s1[b] # NoSum => s1[b] = ChainWork[b] /\ Chain[b] \subseteq known
        /\ \A b \in known : Chain[b] \subseteq known => s1[b] # NoSum
        /\ \A b \in Block : s[b] # NoSum => s1[b] = s[b]
    BY TraceLemma DEF SumOK
  <1>2. \A b \in Block : ChainWork[b] \in Nat
    BY BlockAssumption
  <1>3. s[Genesis] = 1 /\ s1[Genesis] = 1 /\ Genesis \in Solved(s1)
    BY <1>1, StepAssumption DEF Solved, NoSum
  <1>4. s[p] # NoSum => s[p] = ChainWork[p] /\ Chain[p] \subseteq known
    BY DEF SumOK
  <1>5. CASE better = {}
    <2>1. t = p
      BY <1>5 DEF IsHeaviest
    <2>2. s[p] # NoSum
      <3>1. ~(s1[Genesis] > s[p])
        BY <1>3, <1>5
      <3> QED
        BY <3>1, <1>3 DEF NoSum
    <2>3. ASSUME NEW b \in known, Chain[b] \subseteq known
          PROVE  ChainWork[b] <= ChainWork[t]
      <3>1. b \in Solved(s1) /\ s1[b] = ChainWork[b]
        BY <2>3, <1>1 DEF Solved
      <3>2. ~(s1[b] > s[p])
        BY <3>1, <1>5
      <3> QED
        BY <3>1, <3>2, <2>1, <2>2, <1>1, <1>2, <1>4
    <2> QED
      BY <2>1, <2>2, <2>3, <1>1, <1>4
  <1>6. CASE better # {}
    <2>1. /\ t \in better
          /\ \A b \in better : s1[b] < s1[t] \/ (s1[b] = s1[t] /\ Rank[t] <= Rank[b])
      BY <1>6 DEF IsHeaviest
    <2>2. s1[t] = ChainWork[t] /\ Chain[t] \subseteq known /\ s1[t] > s[p] /\ t \in Block
      BY <2>1, <1>1 DEF Solved
    <2>3. ASSUME NEW b \in known, Chain[b] \subseteq known
          PROVE  ChainWork[b] < ChainWork[t]
                 \/ (ChainWork[b] = ChainWork[t] /\ Rank[t] <= Rank[b])
      <3>1. b \in Solved(s1) /\ s1[b] = ChainWork[b] /\ b \in Block
        BY <2>3, <1>1 DEF Solved
      <3>2. CASE b \in better
        BY <3>1, <3>2, <2>1, <2>2
      <3>3. CASE b \notin better
        <4>1. ~(s1[b] > s[p]) /\ s1[b] \in Int /\ s[p] \in Int /\ s1[t] \in Int
          BY <3>1, <3>3, <2>2, <1>1
        <4> QED
          BY <4>1, <3>1, <2>2
      <3> QED
        BY <3>2, <3>3
    <2>4. FirstHeaviest(t)
      BY <2>3 DEF FirstHeaviest
    <2>5. \A b \in known : Chain[b] \subseteq known => ChainWork[b] <= ChainWork[t]
      BY <2>2, <2>3, <1>2
    <2>6. s[p] < ChainWork[t]
      BY <2>2, <1>1, <1>2
    <2> QED
      BY <2>2, <2>4, <2>5, <2>6
  <1> QED
    BY <1>5, <1>6

(* There is one first heaviest header. *)
LEMMA FirstHeaviestUnique ==
    ASSUME NEW t \in known, NEW u \in known, known \subseteq Block,
           Chain[t] \subseteq known, Chain[u] \subseteq known,
           FirstHeaviest(t), FirstHeaviest(u)
    PROVE  t = u
  <1>1. t \in Block /\ u \in Block
    OBVIOUS
  <1>2. ChainWork[t] \in Nat /\ ChainWork[u] \in Nat /\ Rank[t] \in Nat /\ Rank[u] \in Nat
    BY <1>1, BlockAssumption
  <1>3. Rank[t] = Rank[u]
    BY <1>1, <1>2 DEF FirstHeaviest
  <1> QED
    BY <1>1, <1>3, RankAssumption

(* The walk down from t to f, on fields that describe the chain of f, leaves
   fields that describe the chain of t. *)
LEMMA MarkLemma ==
    ASSUME NEW t \in Block, NEW f \in Block, NEW n \in [Block -> Block \cup {NoBlock}],
           NEW h \in [Block -> Int],
           f \in Chain[t],
           byHeight \in [Heights -> Block \cup {NoBlock}],
           \A b \in Chain[t] : h[b] = Height[b],
           \A b \in Chain[f] \ {Genesis} : n[Parent[b]] = b,
           \A b \in Chain[f] \ {f} : byHeight[Height[b]] = b
    PROVE  /\ MarkedNext(t, f, n) \in [Block -> Block \cup {NoBlock}]
           /\ MarkedByHeight(t, f, h) \in [Heights -> Block \cup {NoBlock}]
           /\ MarkedNext(t, f, n)[t] = NoBlock
           /\ \A b \in Chain[t] \ {Genesis} : MarkedNext(t, f, n)[Parent[b]] = b
           /\ \A b \in Chain[t] : MarkedByHeight(t, f, h)[Height[b]] = b
           /\ Chain[f] \cup Above(f, t) = Chain[t]
  <1> DEFINE up == Above(f, t)
  <1>1. /\ Chain[t] \subseteq Block /\ Chain[f] \subseteq Chain[t]
        /\ up \subseteq Chain[t] /\ f \in Chain[f]
        /\ Chain[f] \cup up = Chain[t]
    BY BlockAssumption, ChainAssumption DEF Above
  <1>2. Genesis \in Chain[f]
    BY ChainAssumption
  <1>3. \A b \in Block : Height[b] \in Nat
    BY BlockAssumption
  <1>4. \A c, b \in Chain[t] \ {Genesis} : Parent[c] = Parent[b] => c = b
    BY OnePerHeight, ParentOnChain
  <1>5. up \subseteq Chain[t] \ {Genesis}
    BY <1>1, <1>2 DEF Above
  <1>6. ASSUME NEW b \in Chain[t] \ {Genesis}
        PROVE  MarkedNext(t, f, n)[Parent[b]] = b
    <2>1. Parent[b] \in Chain[t] /\ Height[b] = Height[Parent[b]] + 1
          /\ Parent[b] \in Block /\ b \in Block
      BY <1>1, ParentOnChain
    <2>2. Parent[b] # t
      <3>1. b = t \/ Height[b] < Height[t]
        BY <1>1, ChainAssumption
      <3> QED
        BY <3>1, <2>1, <1>3
    <2>3. MarkedNext(t, f, n)[Parent[b]] =
            IF \E c \in up : Parent[c] = Parent[b]
            THEN CHOOSE c \in up : Parent[c] = Parent[b]
            ELSE n[Parent[b]]
      BY <2>1, <2>2 DEF MarkedNext
    <2>4. CASE b \in up
      BY <2>3, <2>4, <1>4, <1>5
    <2>5. CASE b \notin up
      <3>1. b \in Chain[f] \ {Genesis}
        BY <2>5, <1>1
      <3>2. ~\E c \in up : Parent[c] = Parent[b]
        BY <2>5, <1>4, <1>5
      <3> QED
        BY <2>3, <3>1, <3>2
    <2> QED
      BY <2>4, <2>5
  <1>7. ASSUME NEW b \in Chain[t]
        PROVE  MarkedByHeight(t, f, h)[Height[b]] = b
    <2>1. Height[b] \in Heights
      BY <1>1 DEF Heights
    <2>2. MarkedByHeight(t, f, h)[Height[b]] =
            IF \E c \in up \cup {f} : h[c] = Height[b]
            THEN CHOOSE c \in up \cup {f} : h[c] = Height[b]
            ELSE byHeight[Height[b]]
      BY <2>1 DEF MarkedByHeight
    <2>3. \A c \in up \cup {f} : h[c] = Height[b] => c = b
      BY <1>1, OnePerHeight
    <2>4. CASE b \in up \cup {f}
      <3>1. h[b] = Height[b]
        OBVIOUS
      <3> QED
        BY <3>1, <2>2, <2>3, <2>4
    <2>5. CASE b \notin up \cup {f}
      <3>1. b \in Chain[f] \ {f}
        BY <2>5, <1>1
      <3>2. ~\E c \in up \cup {f} : h[c] = Height[b]
        BY <2>3, <2>5
      <3> QED
        BY <3>1, <3>2, <2>2
    <2> QED
      BY <2>4, <2>5
  <1>8. MarkedNext(t, f, n) \in [Block -> Block \cup {NoBlock}]
    <2>1. \A b \in Block : (\E c \in up : Parent[c] = b) =>
            (CHOOSE c \in up : Parent[c] = b) \in Block
      BY <1>1
    <2> QED
      BY <2>1 DEF MarkedNext
  <1>9. MarkedByHeight(t, f, h) \in [Heights -> Block \cup {NoBlock}]
    <2>1. \A k \in Heights : (\E c \in up \cup {f} : h[c] = k) =>
            (CHOOSE c \in up \cup {f} : h[c] = k) \in Block
      BY <1>1
    <2> QED
      BY <2>1 DEF MarkedByHeight
  <1>10. MarkedNext(t, f, n)[t] = NoBlock
    BY DEF MarkedNext
  <1> QED
    BY <1>1, <1>6, <1>7, <1>8, <1>9, <1>10

-----------------------------------------------------------------------------
LEMMA ChainInit == Init => ChainInv
  <1> SUFFICES ASSUME Init PROVE ChainInv
    OBVIOUS
  <1>1. Chain[Genesis] = {Genesis} /\ Height[Genesis] = 0 /\ ChainWork[Genesis] = 1
    BY StepAssumption
  <1>2. Genesis \in Block /\ 0 \in Heights
    BY <1>1, BlockAssumption DEF Heights
  <1>3. Fields
    BY <1>1, <1>2 DEF Init, Fields, NoSum, NoHeight
  <1>4. SumOK(sum, hgt)
    BY <1>1, <1>2 DEF Init, SumOK
  <1>5. MainBranchConsistent
    BY <1>1, <1>2 DEF Init, MainBranchConsistent
  <1>6. TopIsHeaviest
    BY <1>1, <1>2 DEF Init, TopIsHeaviest
  <1> QED
    BY <1>1, <1>2, <1>3, <1>4, <1>5, <1>6
       DEF Init, ChainInv, BranchPointIsFork, Whole, NoSum

(* organize() that extends the previous top, or meets a fork. *)
LEMMA OrganizeStep ==
    ASSUME ChainInv, TopIdIsTop, Organize
    PROVE  ChainInv'
  <1>1. PICK t \in known, f \in known :
          /\ OrganizePass(sum, hgt, finished, main, next, t, f)
          /\ reorg' = [prevTop |-> top, newTop |-> t, branch |-> BranchPoint(t, f),
                       hasNewTop |-> top # t]
          /\ phase' = IF PrevTopMet(t, f) THEN "put" ELSE "rebuild"
    BY DEF Organize
  <1>2. /\ phase = "organize" /\ known' = known /\ file' = file /\ dbHgt' = dbHgt
        /\ PrevTop = top
    BY DEF Organize, TopIdIsTop
  <1>3. /\ Fields /\ SumOK(sum, hgt) /\ t \in Block /\ f \in Block
        /\ main = Chain[top] /\ finished = Chain[top] /\ top \in Block
        /\ \A b \in Chain[top] : byHeight[Height[b]] = b /\ sum[b] # NoSum
        /\ \A b \in Chain[top] \ {Genesis} : next[Parent[b]] = b
    BY <1>2 DEF ChainInv, Fields, MainBranchConsistent, Whole
  <1>4. /\ known \subseteq Block /\ Genesis \in known
        /\ sum \in [Block -> Int] /\ hgt \in [Block -> Int]
        /\ next \in [Block -> Block \cup {NoBlock}]
        /\ byHeight \in [Heights -> Block \cup {NoBlock}]
        /\ sum[Genesis] = ChainWork[Genesis] /\ sum[top] # NoSum
    <2>1. Genesis \in Chain[top] /\ top \in Chain[top] /\ Genesis \in Block
      BY <1>3, BlockAssumption, ChainAssumption
    <2> QED
      BY <2>1, <1>3 DEF Fields, SumOK
  <1>5. /\ IsHeaviest(t, top, sum[top], TracedSum(sum))
        /\ FirstMet(f, t, finished)
        /\ sum' = TracedSum(sum) /\ hgt' = TracedHgt(sum, hgt)
        /\ finished' = finished \cup Above(f, t)
        /\ main' = main \cup Above(f, t) \cup {f}
        /\ next' = MarkedNext(t, f, next)
        /\ byHeight' = MarkedByHeight(t, f, TracedHgt(sum, hgt))
        /\ top' = t
    BY <1>1, <1>2 DEF OrganizePass
  <1>6. /\ \A b \in known : Chain[b] \subseteq known => ChainWork[b] <= ChainWork[t]
        /\ Chain[t] \subseteq known
        /\ t # top => FirstHeaviest(t)
    BY <1>3, <1>4, <1>5, HeaviestLemma
  <1>7. /\ sum' \in [Block -> Int] /\ hgt' \in [Block -> Int]
        /\ SumOK(sum', hgt')
        /\ \A b \in known : Chain[b] \subseteq known => sum'[b] # NoSum
    BY <1>3, <1>4, <1>5, TraceLemma
  <1>8. \A b \in Chain[t] : b \in known /\ Chain[b] \subseteq known
                            /\ sum'[b] # NoSum /\ hgt'[b] = Height[b]
    BY <1>3, <1>4, <1>6, <1>7, ChainAssumption DEF SumOK
  <1>9. /\ f \in Chain[top] /\ f \in Chain[t] /\ Above(f, t) \cap Chain[top] = {}
        /\ Chain[f] \subseteq Chain[top] /\ Chain[f] \subseteq Chain[t]
        /\ top \in Chain[top]
    BY <1>3, <1>5, ChainAssumption DEF FirstMet
  <1>10. /\ next' \in [Block -> Block \cup {NoBlock}]
         /\ byHeight' \in [Heights -> Block \cup {NoBlock}]
         /\ next'[t] = NoBlock
         /\ \A b \in Chain[t] \ {Genesis} : next'[Parent[b]] = b
         /\ \A b \in Chain[t] : byHeight'[Height[b]] = b
         /\ Chain[f] \cup Above(f, t) = Chain[t]
    BY <1>3, <1>4, <1>5, <1>7, <1>8, <1>9, MarkLemma
  <1>11. Fields'
    <2>1. finished' \subseteq Block /\ main' \subseteq Block
      BY <1>3, <1>4, <1>5, <1>9, BlockAssumption DEF Above
    <2> QED
      BY <2>1, <1>1, <1>2, <1>3, <1>4, <1>5, <1>7, <1>10 DEF Fields
  <1>12. SumOK(sum, hgt)'
    BY <1>2, <1>7 DEF SumOK
  <1>13. CASE PrevTopMet(t, f)
    <2>1. f = top
      BY <1>13, <1>2, <1>9 DEF PrevTopMet
    <2>2. main' = Chain[t] /\ finished' = Chain[t]
      BY <2>1, <1>3, <1>5, <1>9, <1>10
    <2>3. phase' = "put" /\ reorg'.prevTop = top /\ reorg'.newTop = t
          /\ reorg'.branch = NoBlock
      BY <1>1, <1>13 DEF BranchPoint
    <2>4. MainBranchConsistent'
      BY <2>2, <2>3, <1>5, <1>8, <1>10 DEF MainBranchConsistent
    <2>5. TopIsHeaviest'
      BY <1>2, <1>5, <1>6 DEF TopIsHeaviest
    <2>6. BranchPointIsFork'
      BY <2>1, <2>3, <1>9 DEF BranchPointIsFork
    <2>7. (Whole => \A b \in Chain[top] : sum[b] # NoSum)'
      BY <1>5, <1>8
    <2> QED
      BY <2>3, <2>4, <2>5, <2>6, <2>7, <1>11, <1>12 DEF ChainInv
  <1>14. CASE ~PrevTopMet(t, f)
    <2>1. f # top /\ top \notin Chain[t]
      <3>1. f # top
        BY <1>2, <1>14 DEF PrevTopMet
      <3>2. ASSUME top \in Chain[t] PROVE FALSE
        <4>1. top \in Chain[f]
          BY <3>2, <1>9, <1>10
        <4>2. Height[f] < Height[top] /\ Height[top] < Height[f]
          BY <4>1, <3>1, <1>3, <1>9, ChainAssumption
        <4>3. Height[f] \in Nat /\ Height[top] \in Nat
          BY <1>3, BlockAssumption
        <4> QED
          BY <4>2, <4>3
      <3> QED
        BY <3>1, <3>2
    <2>2. Chain[top] \cap Chain[t] = Chain[f]
      BY <1>9, <1>10
    <2>3. phase' = "rebuild" /\ reorg'.prevTop = top /\ reorg'.branch = f /\ f # NoBlock
      BY <1>1, <1>3, <1>14, BlockAssumption DEF BranchPoint
    <2>4. t # top
      BY <2>1, <1>9
    <2>5. FirstHeaviest(top)'
      BY <2>4, <1>2, <1>5, <1>6 DEF FirstHeaviest
    <2> QED
      BY <2>1, <2>2, <2>3, <2>5, <1>2, <1>5, <1>6, <1>11, <1>12
         DEF ChainInv, MainBranchConsistent, Whole, TopIsHeaviest, Organized,
             BranchPointIsFork
  <1> QED
    BY <1>13, <1>14

(* A forced rebuild, whatever the previous top: the fields afterwards describe
   the chain of the new top, which is a heaviest block. *)
LEMMA RebuildLemma ==
    ASSUME Fields, NEW t \in known, NEW f \in known, PrevTop \in Block,
           known' = known, file' = file, dbHgt' = dbHgt,
           OrganizePass(ResetSum, ResetHgt, {Genesis}, {Genesis}, ResetNext, t, f),
           phase' \in {"load", "branching", "rebuild", "put"}
    PROVE  /\ Fields' /\ SumOK(sum, hgt)' /\ MainBranchConsistent' /\ top' = t
           /\ \A b \in Chain[t] : sum'[b] # NoSum
           /\ \A b \in known : Chain[b] \subseteq known => ChainWork[b] <= ChainWork[t]
           /\ Chain[t] \subseteq known
           /\ PrevTop # Genesis \/ t # Genesis => FirstHeaviest(t)
           /\ f = Genesis /\ Chain[f] \cup Above(f, t) = Chain[t]
  <1>1. /\ known \subseteq Block /\ Genesis \in known /\ t \in Block /\ f \in Block
        /\ byHeight \in [Heights -> Block \cup {NoBlock}]
        /\ hgt \in [Block -> Int]
    BY DEF Fields
  <1>2. Chain[Genesis] = {Genesis} /\ Height[Genesis] = 0 /\ ChainWork[Genesis] = 1
    BY StepAssumption
  <1>3. /\ ResetSum \in [Block -> Int] /\ ResetHgt \in [Block -> Int]
        /\ ResetNext \in [Block -> Block \cup {NoBlock}]
        /\ SumOK(ResetSum, ResetHgt)
        /\ ResetSum[Genesis] = ChainWork[Genesis]
    BY <1>1, <1>2 DEF ResetSum, ResetHgt, ResetNext, SumOK, NoSum
  <1>4. /\ IsHeaviest(t, PrevTop, ResetSum[PrevTop], TracedSum(ResetSum))
        /\ FirstMet(f, t, {Genesis})
        /\ sum' = TracedSum(ResetSum) /\ hgt' = TracedHgt(ResetSum, ResetHgt)
        /\ finished' = {Genesis} \cup Above(f, t)
        /\ main' = {Genesis} \cup Above(f, t) \cup {f}
        /\ next' = MarkedNext(t, f, ResetNext)
        /\ byHeight' = MarkedByHeight(t, f, TracedHgt(ResetSum, ResetHgt))
        /\ top' = t
    BY DEF OrganizePass
  <1>5. /\ \A b \in known : Chain[b] \subseteq known => ChainWork[b] <= ChainWork[t]
        /\ Chain[t] \subseteq known
        /\ t # PrevTop \/ ResetSum[PrevTop] = NoSum => FirstHeaviest(t)
    BY <1>1, <1>3, <1>4, HeaviestLemma
  <1>6. PrevTop # Genesis \/ t # Genesis => FirstHeaviest(t)
    <2>1. PrevTop # Genesis => ResetSum[PrevTop] = NoSum
      BY DEF ResetSum
    <2> QED
      BY <2>1, <1>5
  <1>7. /\ sum' \in [Block -> Int] /\ hgt' \in [Block -> Int]
        /\ SumOK(sum', hgt')
        /\ \A b \in known : Chain[b] \subseteq known => sum'[b] # NoSum
    BY <1>1, <1>3, <1>4, TraceLemma
  <1>8. \A b \in Chain[t] : sum'[b] # NoSum /\ hgt'[b] = Height[b]
    BY <1>1, <1>5, <1>7, ChainAssumption DEF SumOK
  <1>9. f = Genesis /\ f \in Chain[t]
    BY <1>4 DEF FirstMet
  <1>10. /\ next' \in [Block -> Block \cup {NoBlock}]
         /\ byHeight' \in [Heights -> Block \cup {NoBlock}]
         /\ next'[t] = NoBlock
         /\ \A b \in Chain[t] \ {Genesis} : next'[Parent[b]] = b
         /\ \A b \in Chain[t] : byHeight'[Height[b]] = b
         /\ Chain[f] \cup Above(f, t) = Chain[t]
    <2>1. /\ \A b \in Chain[f] \ {Genesis} : ResetNext[Parent[b]] = b
          /\ \A b \in Chain[f] \ {f} : byHeight[Height[b]] = b
      BY <1>2, <1>9
    <2> QED
      BY <2>1, <1>1, <1>3, <1>4, <1>7, <1>8, <1>9, MarkLemma
  <1>11. main' = Chain[t] /\ finished' = Chain[t] /\ Chain[t] \subseteq Block
    BY <1>1, <1>2, <1>4, <1>9, <1>10, BlockAssumption
  <1>12. Fields'
    BY <1>1, <1>4, <1>7, <1>10, <1>11 DEF Fields
  <1>13. SumOK(sum, hgt)'
    BY <1>7 DEF SumOK
  <1>14. MainBranchConsistent'
    BY <1>4, <1>8, <1>10, <1>11 DEF MainBranchConsistent
  <1> QED
    BY <1>4, <1>5, <1>6, <1>8, <1>9, <1>10, <1>12, <1>13, <1>14

(* The rebuild after a reorganisation ends on the top that the pass before it
   chose, so it meets it and the recursion stops. *)
LEMMA RebuildStep ==
    ASSUME ChainInv, TopIdIsTop, RebuildAfterReorg
    PROVE  ChainInv' /\ phase' = "put" /\ top' = top
  <1>1. PICK t \in known, f \in known :
          /\ OrganizePass(ResetSum, ResetHgt, {Genesis}, {Genesis}, ResetNext, t, f)
          /\ phase' = IF PrevTopMet(t, f) THEN "put" ELSE phase
    BY DEF RebuildAfterReorg, Rebuild
  <1>2. /\ phase = "rebuild" /\ known' = known /\ file' = file /\ dbHgt' = dbHgt
        /\ PrevTop = top
        /\ reorg' = [prevTop |-> reorg.prevTop, newTop |-> top', branch |-> reorg.branch,
                      hasNewTop |-> reorg.prevTop # top']
    BY DEF RebuildAfterReorg, TopIdIsTop
  <1>3. /\ Fields /\ top \in known /\ top \in Block /\ PrevTop \in Block
        /\ FirstHeaviest(top) /\ Chain[top] \subseteq known
        /\ reorg.branch # NoBlock
        /\ reorg.prevTop \notin Chain[top]
        /\ Chain[reorg.prevTop] \cap Chain[top] = Chain[reorg.branch]
    BY <1>2 DEF ChainInv, Fields
  <1>4. phase' \in {"load", "branching", "rebuild", "put"}
    BY <1>1, <1>2
  <1>5. /\ Fields' /\ SumOK(sum, hgt)' /\ MainBranchConsistent' /\ top' = t
        /\ \A b \in Chain[t] : sum'[b] # NoSum
        /\ \A b \in known : Chain[b] \subseteq known => ChainWork[b] <= ChainWork[t]
        /\ Chain[t] \subseteq known
        /\ PrevTop # Genesis \/ t # Genesis => FirstHeaviest(t)
        /\ f = Genesis /\ Chain[f] \cup Above(f, t) = Chain[t]
    BY <1>1, <1>2, <1>3, <1>4, RebuildLemma
  <1>6. t = top
    <2>1. CASE PrevTop = Genesis /\ t = Genesis
      BY <2>1, <1>2
    <2>2. CASE PrevTop # Genesis \/ t # Genesis
      <3>1. known \subseteq Block
        BY <1>3 DEF Fields
      <3> QED
        BY <3>1, <2>2, <1>3, <1>5, FirstHeaviestUnique
    <2> QED
      BY <2>1, <2>2
  <1>7. PrevTopMet(t, f)
    <2>1. Chain[Genesis] = {Genesis} /\ top \in Chain[top]
      BY <1>3, StepAssumption, ChainAssumption
    <2> QED
      BY <2>1, <1>2, <1>5, <1>6 DEF PrevTopMet
  <1>8. phase' = "put"
    BY <1>1, <1>7
  <1>9. TopIsHeaviest'
    BY <1>2, <1>5 DEF TopIsHeaviest
  <1>10. BranchPointIsFork' 
    <2>1. reorg'.branch = reorg.branch /\ reorg'.prevTop = reorg.prevTop /\ reorg'.newTop = top
      BY <1>2, <1>5, <1>6
    <2> QED
      BY <2>1, <1>3 DEF BranchPointIsFork
  <1> QED
    BY <1>5, <1>6, <1>8, <1>9, <1>10 DEF ChainInv, Whole

(* The rebuild at start-up. *)
LEMMA ForceStep ==
    ASSUME ChainInv, PrevTop \in Block, ForceOrganize
    PROVE  ChainInv'
  <1>1. PICK t \in known, f \in known :
          /\ OrganizePass(ResetSum, ResetHgt, {Genesis}, {Genesis}, ResetNext, t, f)
          /\ phase' = IF PrevTopMet(t, f) THEN "branching" ELSE phase
    BY DEF ForceOrganize, Rebuild
  <1>2. phase = "load" /\ known' = known /\ file' = file /\ dbHgt' = dbHgt
    BY DEF ForceOrganize
  <1>3. Fields
    BY DEF ChainInv
  <1>4. phase' \in {"load", "branching"}
    BY <1>1, <1>2
  <1>5. /\ Fields' /\ SumOK(sum, hgt)' /\ MainBranchConsistent' /\ top' = t
        /\ \A b \in Chain[t] : sum'[b] # NoSum
    BY <1>1, <1>2, <1>3, <1>4, RebuildLemma
  <1> QED
    BY <1>4, <1>5 DEF ChainInv, Whole, TopIsHeaviest, Organized, BranchPointIsFork

(* Parsing only adds headers, and no header field of the known ones changes. *)
LEMMA ParseStep ==
    ASSUME ChainInv, ParseBlocks
    PROVE  ChainInv'
  <1>1. /\ phase \in {"idle", "parse"} /\ phase' = "organize"
        /\ known \subseteq known'
        /\ known' \subseteq known \cup {file[i] : i \in DOMAIN file}
        /\ UNCHANGED <<file, sum, hgt, finished, main, next, byHeight, top, dbHgt, reorg>>
    BY DEF ParseBlocks
  <1>2. Fields /\ SumOK(sum, hgt) /\ MainBranchConsistent
        /\ (Whole => \A b \in Chain[top] : sum[b] # NoSum)
    BY DEF ChainInv
  <1>3. \A i \in DOMAIN file : file[i] \in Block
    BY <1>2 DEF Fields
  <1>4. Fields'
    BY <1>1, <1>2, <1>3 DEF Fields
  <1>5. SumOK(sum, hgt)'
    BY <1>1, <1>2 DEF SumOK
  <1>6. MainBranchConsistent'
    BY <1>1, <1>2 DEF MainBranchConsistent
  <1> QED
    BY <1>1, <1>2, <1>4, <1>5, <1>6
       DEF ChainInv, Whole, TopIsHeaviest, Organized, BranchPointIsFork

(* The steps that leave the header fields alone. *)
LEMMA QuietStep ==
    ASSUME ChainInv,
           \/ \E b \in Block \ {Genesis} : NodeWrites(b)
           \/ PutNewBareHeaders \/ UpdateBranchingMaps \/ Crash \/ RewindOffset
           \/ UNCHANGED vars
    PROVE  ChainInv'
  <1>1. UNCHANGED <<known, sum, hgt, finished, main, next, byHeight, top, reorg>>
    BY DEF NodeWrites, PutNewBareHeaders, UpdateBranchingMaps, Crash, RewindOffset, vars
  <1>2. file' \in Seq(Block)
    <2>1. file \in Seq(Block)
      BY DEF ChainInv, Fields
    <2>2. file' = file \/ \E b \in Block \ {Genesis} : file' = Append(file, b)
      BY DEF NodeWrites, PutNewBareHeaders, UpdateBranchingMaps, Crash, RewindOffset, vars
    <2> QED
      BY <2>1, <2>2
  <1>3. dbHgt' \in [Block -> Int]
    <2>1. dbHgt \in [Block -> Int] /\ hgt \in [Block -> Int]
      BY DEF ChainInv, Fields
    <2>2. dbHgt' = dbHgt \/ dbHgt' = [b \in Block |-> IF b \in Puttable THEN hgt[b] ELSE dbHgt[b]]
      BY DEF NodeWrites, PutNewBareHeaders, UpdateBranchingMaps, Crash, RewindOffset, vars
    <2> QED
      BY <2>1, <2>2
  <1>4. \/ phase' = phase
        \/ phase = "put" /\ phase' \in {"undo", "idle"}
        \/ phase = "undo" /\ phase' = "idle"
        \/ phase = "branching" /\ phase' = "parse"
        \/ phase' = "down"
    BY DEF NodeWrites, PutNewBareHeaders, UpdateBranchingMaps, Crash, RewindOffset, vars
  <1>5. Fields'
    BY <1>1, <1>2, <1>3, <1>4 DEF ChainInv, Fields
  <1>6. SumOK(sum, hgt)'
    BY <1>1 DEF ChainInv, SumOK
  <1>7. MainBranchConsistent'
    BY <1>1, <1>4 DEF ChainInv, MainBranchConsistent
  <1>8. TopIsHeaviest'
    BY <1>1, <1>4 DEF ChainInv, TopIsHeaviest, Organized
  <1>9. BranchPointIsFork'
    BY <1>1, <1>4 DEF ChainInv, BranchPointIsFork
  <1>10. (Whole => \A b \in Chain[top] : sum[b] # NoSum)'
    BY <1>1, <1>4 DEF ChainInv, Whole
  <1>11. (phase = "rebuild" =>
            /\ FirstHeaviest(top) /\ Chain[top] \subseteq known
            /\ reorg.branch # NoBlock
            /\ reorg.prevTop \notin Chain[top]
            /\ Chain[reorg.prevTop] \cap Chain[top] = Chain[reorg.branch])'
    BY <1>1, <1>4 DEF ChainInv, FirstHeaviest
  <1> QED
    BY <1>5, <1>6, <1>7, <1>8, <1>9, <1>10, <1>11 DEF ChainInv

LEMMA LoadStep ==
    ASSUME ChainInv, LoadHeaders
    PROVE  ChainInv'
  <1>1. Fields
    BY DEF ChainInv
  <1>2. Genesis \in Block /\ InDb \subseteq Block
    BY BlockAssumption DEF InDb
  <1>3. phase' = "load" /\ sum' = [b \in Block |-> NoSum]
    BY DEF LoadHeaders
  <1>4. Fields'
    BY <1>1, <1>2 DEF LoadHeaders, Fields, NoSum
  <1>5. SumOK(sum, hgt)'
    BY <1>3 DEF SumOK
  <1> QED
    BY <1>3, <1>4, <1>5
       DEF ChainInv, MainBranchConsistent, Whole, TopIsHeaviest, Organized, BranchPointIsFork

LEMMA ChainStep ==
    ASSUME ChainInv, TopIdIsTop, [Next]_vars
    PROVE  ChainInv'
  <1>1. CASE Organize
    BY <1>1, OrganizeStep
  <1>2. CASE RebuildAfterReorg
    BY <1>2, RebuildStep
  <1>3. CASE ForceOrganize
    <2>1. PrevTop \in Block
      BY <1>3 DEF ChainInv, Fields, TopIdIsTop, ForceOrganize
    <2> QED
      BY <2>1, <1>3, ForceStep
  <1>4. CASE ParseBlocks
    BY <1>4, ParseStep
  <1>5. CASE LoadHeaders
    BY <1>5, LoadStep
  <1>6. CASE \/ \E b \in Block \ {Genesis} : NodeWrites(b)
             \/ PutNewBareHeaders \/ UpdateBranchingMaps \/ Crash \/ RewindOffset
             \/ UNCHANGED vars
    BY <1>6, QuietStep
  <1> QED
    BY <1>1, <1>2, <1>3, <1>4, <1>5, <1>6 DEF Next

(* As long as headersById_ answers topBlockId_ with the top block, kills and
   restarts included, the header fields describe one chain that ends in a
   heaviest block, and reorganisations report the fork. *)
THEOREM MainBranchUnlessIdsReused ==
    Spec /\ []TopIdIsTop => [](MainBranchConsistent /\ TopIsHeaviest /\ BranchPointIsFork)
  <1>1. ChainInv => MainBranchConsistent /\ TopIsHeaviest /\ BranchPointIsFork
    BY DEF ChainInv
  <1> QED
    BY <1>1, ChainInit, ChainStep, PTL DEF Spec

-----------------------------------------------------------------------------
(* Within one run of the server no id is given twice: every id is below topID_
   and headersById_ answers it with its block. *)
IdInv ==
    /\ crashes = 0
    /\ phase \notin {"down", "load", "branching", "parse"}
    /\ topId \in Nat
    /\ file \in Seq(Block)
    /\ known \subseteq Block /\ top \in known
    /\ id \in [Block -> Int]
    /\ \A b \in known : id[b] \in Ids /\ id[b] < topId /\ byId[id[b]] = b
    /\ topBlockId = id[top]

LEMMA IdsName ==
    ASSUME IdInv
    PROVE  TopIdIsTop
  <1>1. top \in Block /\ topBlockId \in Ids /\ byId[topBlockId] = top
    BY DEF IdInv
  <1>2. top # NoBlock
    BY <1>1, BlockAssumption
  <1> QED
    BY <1>1, <1>2 DEF TopIdIsTop, PrevTop

LEMMA IdInit == Init => IdInv
  <1> SUFFICES ASSUME Init PROVE IdInv
    OBVIOUS
  <1>1. Genesis \in Block /\ MaxId \in Nat
    BY BlockAssumption, BlockchainBounds
  <1>2. 0 \in Ids
    BY <1>1 DEF Ids
  <1>3. file \in Seq(Block)
    BY <1>1 DEF Init
  <1> QED
    BY <1>1, <1>2, <1>3 DEF Init, IdInv, NoId

(* The ids a parse hands out are distinct and above the ones in use. *)
LEMMA IdParse ==
    ASSUME IdInv, ParseBlocks
    PROVE  IdInv'
  <1> DEFINE ps == {i \in DOMAIN file : i > offset}
             fresh == {i \in ps : file[i] \notin known}
  <1>1. PICK f \in IdAssignments(ps) :
          /\ id' = [b \in Block |->
                      IF \E i \in fresh : file[i] = b
                      THEN f[CHOOSE i \in ps : file[i] = b] ELSE id[b]]
          /\ byId' = [n \in Ids |->
                      IF {i \in fresh : f[i] = n} # {}
                      THEN file[CHOOSE i \in fresh : f[i] = n]
                      ELSE byId[n]]
    BY DEF ParseBlocks
  <1>2. /\ topId + Cardinality(ps) <= MaxId /\ topId' = topId + Cardinality(ps)
        /\ known' = known \cup {file[i] : i \in fresh}
        /\ UNCHANGED <<file, top, topBlockId, crashes>> /\ phase' = "organize"
    BY DEF ParseBlocks
  <1>3. /\ topId \in Nat /\ file \in Seq(Block) /\ known \subseteq Block /\ top \in known
        /\ id \in [Block -> Int] /\ topBlockId = id[top] /\ crashes = 0
        /\ \A b \in known : id[b] \in Ids /\ id[b] < topId /\ byId[id[b]] = b
    BY DEF IdInv
  <1>4. Cardinality(ps) \in Nat
    <2>1. DOMAIN file = 1..Len(file) /\ Len(file) \in Nat
      BY <1>3
    <2>2. IsFiniteSet(1..Len(file))
      BY <2>1, FS_Interval
    <2>3. ps \subseteq 1..Len(file)
      BY <2>1
    <2> QED
      BY <2>2, <2>3, FS_Subset, FS_CardinalityType
  <1>5. /\ f \in [ps -> topId..(topId + Cardinality(ps) - 1)]
        /\ \A i, j \in ps : i # j => f[i] # f[j]
    BY DEF IdAssignments
  <1>6. \A i \in ps : f[i] \in Ids /\ f[i] >= topId /\ f[i] < topId' /\ f[i] \in Int
    BY <1>2, <1>3, <1>4, <1>5, BlockchainBounds DEF Ids
  <1>7. \A i \in ps : file[i] \in Block
    BY <1>3
  <1>8. ASSUME NEW b \in known
        PROVE  id'[b] = id[b] /\ byId'[id[b]] = b /\ id[b] \in Ids /\ id[b] < topId'
    <2>1. b \in Block /\ id[b] \in Ids /\ id[b] < topId /\ id[b] \in Int
      BY <1>3
    <2>2. ~\E i \in fresh : file[i] = b
      OBVIOUS
    <2>3. {i \in fresh : f[i] = id[b]} = {}
      BY <2>1, <1>3, <1>6
    <2>4. id'[b] = id[b]
      BY <1>1, <2>1, <2>2
    <2>5. byId'[id[b]] = byId[id[b]]
      BY <1>1, <2>1, <2>3
    <2>6. id[b] < topId'
      BY <2>1, <1>2, <1>3, <1>4
    <2> QED
      BY <2>1, <2>4, <2>5, <2>6, <1>3
  <1>9. ASSUME NEW b \in known', b \notin known
        PROVE  id'[b] \in Ids /\ id'[b] < topId' /\ byId'[id'[b]] = b
    <2>1. \E i \in fresh : file[i] = b
      BY <1>2, <1>9
    <2>2. b \in Block
      BY <2>1, <1>7
    <2> DEFINE i0 == CHOOSE i \in ps : file[i] = b
    <2>3. i0 \in ps /\ file[i0] = b
      BY <2>1
    <2>4. i0 \in fresh
      BY <2>3, <1>9
    <2>5. id'[b] = f[i0]
      BY <1>1, <2>1, <2>2
    <2>6. f[i0] \in Ids /\ f[i0] < topId'
      BY <2>3, <1>6
    <2>7. \A i \in fresh : f[i] = f[i0] => i = i0
      BY <2>3, <1>5
    <2>8. (CHOOSE i \in fresh : f[i] = f[i0]) = i0
      BY <2>4, <2>7
    <2>9. {i \in fresh : f[i] = f[i0]} # {}
      BY <2>4
    <2>10. byId'[f[i0]] = file[CHOOSE i \in fresh : f[i] = f[i0]]
      BY <1>1, <2>6, <2>9
    <2> QED
      BY <2>3, <2>5, <2>6, <2>8, <2>10
  <1>10. id' \in [Block -> Int]
    <2>1. ASSUME NEW b \in Block, \E i \in fresh : file[i] = b
          PROVE  f[CHOOSE i \in ps : file[i] = b] \in Int
      <3>1. (CHOOSE i \in ps : file[i] = b) \in ps
        BY <2>1
      <3> QED
        BY <3>1, <1>6
    <2> QED
      BY <2>1, <1>1, <1>3
  <1>11. \A b \in known' : id'[b] \in Ids /\ id'[b] < topId' /\ byId'[id'[b]] = b
    BY <1>8, <1>9
  <1>12. topId' \in Nat /\ known' \subseteq Block
    BY <1>2, <1>3, <1>4, <1>7
  <1> QED
    BY <1>2, <1>3, <1>8, <1>10, <1>11, <1>12 DEF IdInv

LEMMA IdStep ==
    ASSUME MaxCrash = 0, IdInv, [Next]_vars
    PROVE  IdInv'
  <1>1. ~Crash
    BY DEF IdInv, Crash
  <1>2. ~LoadHeaders /\ ~ForceOrganize /\ ~RewindOffset
    BY DEF IdInv, LoadHeaders, ForceOrganize, RewindOffset
  <1>3. CASE ParseBlocks
    BY <1>3, IdParse
  <1>4. CASE Organize \/ RebuildAfterReorg
    <2>1. PICK t \in known : top' = t /\ topBlockId' = id[t]
      BY <1>4 DEF Organize, RebuildAfterReorg, Rebuild, OrganizePass
    <2>2. UNCHANGED <<file, known, id, byId, topId, crashes>>
      BY <1>4 DEF Organize, RebuildAfterReorg
    <2>3. phase' \in {"put", "rebuild"}
      <3>1. CASE Organize
        BY <3>1 DEF Organize
      <3>2. CASE RebuildAfterReorg
        BY <3>2 DEF RebuildAfterReorg, Rebuild
      <3> QED
        BY <3>1, <3>2, <1>4
    <2> QED
      BY <2>1, <2>2, <2>3 DEF IdInv
  <1>5. CASE \E b \in Block \ {Genesis} : NodeWrites(b)
    <2>1. PICK b \in Block \ {Genesis} : NodeWrites(b)
      BY <1>5
    <2>2. file' = Append(file, b)
          /\ UNCHANGED <<known, id, byId, topId, top, topBlockId, phase, crashes>>
      BY <2>1 DEF NodeWrites
    <2> QED
      BY <2>2 DEF IdInv
  <1>6. CASE PutNewBareHeaders \/ UpdateBranchingMaps \/ UNCHANGED vars
    <2>1. UNCHANGED <<file, known, id, byId, topId, top, topBlockId, crashes>>
      BY <1>6 DEF PutNewBareHeaders, UpdateBranchingMaps, vars
    <2>2. phase' \in {"undo", "idle", phase}
      BY <1>6 DEF PutNewBareHeaders, UpdateBranchingMaps, vars
    <2> QED
      BY <2>1, <2>2 DEF IdInv
  <1> QED
    BY <1>1, <1>2, <1>3, <1>4, <1>5, <1>6 DEF Next

(* One run of the server, blocks in any order: the header fields describe one
   chain, from the genesis block to the top. *)
THEOREM MainBranchCorrect ==
    ASSUME MaxCrash = 0
    PROVE  Spec => []MainBranchConsistent
  <1>1. Spec => []IdInv
    BY IdInit, IdStep, PTL DEF Spec
  <1>2. IdInv => TopIdIsTop
    BY IdsName
  <1> QED
    BY <1>1, <1>2, MainBranchUnlessIdsReused, PTL

(* One run of the server: the top carries the most work of all the headers that
   connect to the genesis block. *)
THEOREM TopCorrect ==
    ASSUME MaxCrash = 0
    PROVE  Spec => []TopIsHeaviest
  <1>1. Spec => []IdInv
    BY IdInit, IdStep, PTL DEF Spec
  <1>2. IdInv => TopIdIsTop
    BY IdsName
  <1> QED
    BY <1>1, <1>2, MainBranchUnlessIdsReused, PTL

(* One run of the server: organize() reports the fork of the two branches, and
   none exactly when the previous top was extended. *)
THEOREM BranchPointCorrect ==
    ASSUME MaxCrash = 0
    PROVE  Spec => []BranchPointIsFork
  <1>1. Spec => []IdInv
    BY IdInit, IdStep, PTL DEF Spec
  <1>2. IdInv => TopIdIsTop
    BY IdsName
  <1> QED
    BY <1>1, <1>2, MainBranchUnlessIdsReused, PTL

(* One run of the server: the rebuild after a reorganisation meets the top that
   the pass before it chose and does not call itself again. *)
THEOREM RebuildsSettle ==
    ASSUME MaxCrash = 0
    PROVE  Spec => RebuildSettles
  <1>1. Spec => []IdInv
    BY IdInit, IdStep, PTL DEF Spec
  <1>2. IdInv => TopIdIsTop
    BY IdsName
  <1>3. ChainInv /\ TopIdIsTop /\ [Next]_vars => ChainInv'
    BY ChainStep
  <1>4. ChainInv /\ TopIdIsTop => [RebuildAfterReorg => phase' = "put"]_vars
    BY RebuildStep
  <1> QED
    BY <1>1, <1>2, <1>3, <1>4, ChainInit, PTL DEF Spec, RebuildSettles

-----------------------------------------------------------------------------
(* Duplicate ids *)

(* S is what a reader of the block files has met up to some position. *)
FilePrefix(S) ==
    /\ S \subseteq Block
    /\ \A b \in S : \E i \in DOMAIN file : file[i] = b
    /\ \A i, j \in DOMAIN file : i <= j /\ file[j] \in S => file[i] \in S

(* No block comes before its parent. *)
ParentsFirst ==
    \A j \in DOMAIN file : file[j] # Genesis =>
        \E i \in DOMAIN file : i <= j /\ file[i] = Parent[file[j]]

(* Headers in memory and in the db are prefixes of the block files, and parsing
   resumes inside the one in memory. *)
FileInv ==
    /\ file \in Seq(Block) /\ offset \in Nat /\ offset <= Len(file)
    /\ ParentsFirst
    /\ FilePrefix(known) /\ FilePrefix(InDb) /\ Genesis \in InDb
    /\ phase \notin {"down", "load", "branching"} =>
          \A i \in DOMAIN file : i <= offset => file[i] \in known

(* What is in memory and not in the db waits in newlyParsedBlocks_. *)
MapInv ==
    /\ known = InDb \cup newly /\ newly \cap InDb = {}
    /\ byHeight \in [Heights -> known \cup {NoBlock}]

(* Sums are unset or right, and every header has its height when the new ones
   are written. *)
SumInv ==
    /\ sum \in [Block -> Int] /\ hgt \in [Block -> Int]
    /\ SumOK(sum, hgt)
    /\ phase \notin {"down", "load"} => sum[Genesis] = ChainWork[Genesis]
    /\ phase = "put" => \A b \in known : hgt[b] = Height[b]

(* The db lists a header under its height, with an id of its own there. *)
DbInv ==
    /\ dbHgt \in [Block -> Int] /\ dup \in [Block -> Int]
    /\ \A b \in InDb : dbHgt[b] = Height[b] /\ dup[b] \in 0..Cardinality(Block)
    /\ \A b \in Block \ InDb : dup[b] = NoDup
    /\ \A a, b \in InDb : a # b /\ Height[a] = Height[b] => dup[a] # dup[b]

DupInv == FileInv /\ MapInv /\ SumInv /\ DbInv

(* A prefix of files that have parents first is closed under prevHash. *)
LEMMA PrefixChain ==
    ASSUME file \in Seq(Block), ParentsFirst, NEW S, FilePrefix(S), NEW b \in S
    PROVE  Chain[b] \subseteq S
<1>1. \A c \in S \ {Genesis} : Parent[c] \in S
  <2> SUFFICES ASSUME NEW c \in S \ {Genesis} PROVE Parent[c] \in S
    OBVIOUS
  <2>1. PICK j \in DOMAIN file : file[j] = c
    BY DEF FilePrefix
  <2>2. PICK i \in DOMAIN file : i <= j /\ file[i] = Parent[c]
    BY <2>1 DEF ParentsFirst
  <2> QED
    BY <2>1, <2>2 DEF FilePrefix
<1>2. S \in SUBSET Block
  BY DEF FilePrefix
<1> QED
  BY <1>1, <1>2, ClosedChain

LEMMA DupInit ==
    ASSUME Init
    PROVE  DupInv
<1>1. Genesis \in Block /\ NoBlock \notin Block
  BY BlockAssumption
<1>2. InDb = {Genesis}
  <2>1. dbHgt = [b \in Block |-> IF b = Genesis THEN 0 ELSE -1]
    BY DEF Init, NoHeight
  <2>2. 0 # -1 /\ dbHgt[Genesis] = 0 /\ \A b \in Block : b # Genesis => dbHgt[b] = -1
    BY <2>1, <1>1
  <2>3. \A b \in Block : dbHgt[b] # -1 <=> b = Genesis
    BY <2>2, <1>1
  <2> QED
    BY <2>3, <1>1 DEF InDb, NoHeight
<1>3. file = <<Genesis>> /\ known = {Genesis} /\ newly = {} /\ offset = 1 /\ phase = "idle"
  BY DEF Init
<1>4. file \in Seq(Block) /\ Len(file) = 1 /\ DOMAIN file = {1} /\ file[1] = Genesis
  BY <1>1, <1>3
<1>5. FilePrefix({Genesis}) /\ ParentsFirst
  BY <1>1, <1>4 DEF FilePrefix, ParentsFirst
<1>6. FileInv
  BY <1>2, <1>3, <1>4, <1>5 DEF FileInv
<1>7. byHeight \in [Heights -> {Genesis} \cup {NoBlock}]
  BY DEF Init
<1>8. MapInv
  BY <1>2, <1>3, <1>7 DEF MapInv
<1>9. sum = [b \in Block |-> IF b = Genesis THEN 1 ELSE NoSum]
      /\ hgt = [b \in Block |-> IF b = Genesis THEN 0 ELSE NoHeight]
  BY DEF Init
<1>10. SumOK(sum, hgt)
  BY <1>1, <1>3, <1>9, StepAssumption DEF SumOK
<1>11. SumInv
  BY <1>1, <1>3, <1>9, <1>10, StepAssumption DEF SumInv, NoSum, NoHeight
<1>12. Cardinality(Block) \in Nat
  BY FiniteAssumption, FS_CardinalityType
<1>13. DbInv
  BY <1>1, <1>2, <1>12, StepAssumption DEF DbInv, Init, NoHeight, NoDup
<1> QED
  BY <1>6, <1>8, <1>11, <1>13 DEF DupInv

(* The node appends a block no one has read. *)
LEMMA DupWrites ==
    ASSUME InOrder, DupInv, NEW b \in Block \ {Genesis}, NodeWrites(b)
    PROVE  DupInv'
<1>1. /\ file' = Append(file, b)
      /\ \A i \in DOMAIN file : file[i] # b
      /\ \E i \in DOMAIN file : file[i] = Parent[b]
      /\ UNCHANGED <<offset, known, newly, sum, hgt, byHeight, dup, dbHgt, phase>>
  BY DEF NodeWrites
<1>2. FileInv /\ MapInv /\ SumInv /\ DbInv
  BY DEF DupInv
<1>3. InDb' = InDb
  BY <1>1 DEF InDb
<1>4. file \in Seq(Block)
  BY <1>2 DEF FileInv
<1>5. /\ file' \in Seq(Block) /\ Len(file') = Len(file) + 1 /\ Len(file) \in Nat
      /\ DOMAIN file = 1..Len(file) /\ DOMAIN file' = 1..(Len(file) + 1)
      /\ file'[Len(file) + 1] = b /\ \A i \in DOMAIN file : file'[i] = file[i]
  BY <1>1, <1>4
<1>6. ASSUME NEW S, FilePrefix(S), S' = S
      PROVE  FilePrefix(S)'
  <2>1. b \notin S
    BY <1>1, <1>6 DEF FilePrefix
  <2>2. S \subseteq Block /\ \A c \in S : \E i \in DOMAIN file' : file'[i] = c
    <3>1. \A c \in S : \E i \in DOMAIN file : file[i] = c
      BY <1>6 DEF FilePrefix
    <3>2. \A i \in DOMAIN file : i \in DOMAIN file' /\ file'[i] = file[i]
      BY <1>5
    <3> QED
      BY <1>6, <3>1, <3>2 DEF FilePrefix
  <2>3. ASSUME NEW i \in DOMAIN file', NEW j \in DOMAIN file', i <= j, file'[j] \in S
        PROVE  file'[i] \in S
    <3>1. j # Len(file) + 1
      BY <2>1, <2>3, <1>5
    <3>2. i \in DOMAIN file /\ j \in DOMAIN file
      BY <2>3, <3>1, <1>5
    <3> QED
      BY <2>3, <3>2, <1>5, <1>6 DEF FilePrefix
  <2> QED
    BY <2>2, <2>3, <1>6 DEF FilePrefix
<1>7. ParentsFirst'
  <2> SUFFICES ASSUME NEW j \in DOMAIN file', file'[j] # Genesis
               PROVE  \E i \in DOMAIN file' : i <= j /\ file'[i] = Parent[file'[j]]
    BY DEF ParentsFirst
  <2>1. CASE j = Len(file) + 1
    <3>1. PICK i \in DOMAIN file : file[i] = Parent[b]
      BY <1>1
    <3> QED
      BY <2>1, <3>1, <1>5
  <2>2. CASE j # Len(file) + 1
    <3>1. j \in DOMAIN file /\ file[j] # Genesis /\ file'[j] = file[j]
      BY <2>2, <1>5
    <3>2. PICK i \in DOMAIN file : i <= j /\ file[i] = Parent[file[j]]
      BY <3>1, <1>2 DEF FileInv, ParentsFirst
    <3> QED
      BY <3>1, <3>2, <1>5
  <2> QED
    BY <2>1, <2>2
<1>8. FilePrefix(known)' /\ FilePrefix(InDb)'
  <2>1. FilePrefix(known) /\ FilePrefix(InDb) /\ known' = known
    BY <1>1, <1>2 DEF FileInv
  <2>2. FilePrefix(known)'
    BY <2>1, <1>6
  <2>3. FilePrefix(InDb)'
    BY <2>1, <1>3, <1>6
  <2> QED
    BY <2>2, <2>3
<1>9. (offset \in Nat /\ offset <= Len(file))'
  BY <1>1, <1>2, <1>5 DEF FileInv
<1>10. (phase \notin {"down", "load", "branching"} =>
          \A i \in DOMAIN file : i <= offset => file[i] \in known)'
  <2> SUFFICES ASSUME phase \notin {"down", "load", "branching"},
                      NEW i \in DOMAIN file', i <= offset
               PROVE  file'[i] \in known
    BY <1>1
  <2>1. i \in DOMAIN file
    BY <1>2, <1>5 DEF FileInv
  <2> QED
    BY <2>1, <1>2, <1>5 DEF FileInv
<1>11. FileInv'
  <2>1. Genesis \in InDb'
    BY <1>2, <1>3 DEF FileInv
  <2> QED
    BY <2>1, <1>5, <1>7, <1>8, <1>9, <1>10 DEF FileInv
<1>12. MapInv'
  BY <1>1, <1>2, <1>3 DEF MapInv
<1>13. SumInv'
  BY <1>1, <1>2 DEF SumInv, SumOK
<1>14. DbInv'
  BY <1>1, <1>2, <1>3 DEF DbInv
<1> QED
  BY <1>11, <1>12, <1>13, <1>14 DEF DupInv

(* Parsing reads every block of the files from inside the prefix in memory. *)
LEMMA DupParse ==
    ASSUME DupInv, ParseBlocks
    PROVE  DupInv'
<1> DEFINE fresh == {i \in DOMAIN file : i > offset /\ file[i] \notin known}
           new == {file[i] : i \in fresh}
<1>1. /\ phase \in {"idle", "parse"} /\ phase' = "organize"
      /\ known' = known \cup new /\ newly' = newly \cup new
      /\ offset' = Len(file)
      /\ UNCHANGED <<file, sum, hgt, byHeight, dup, dbHgt>>
  <2>1. {i \in {j \in DOMAIN file : j > offset} : file[i] \notin known} = fresh
    OBVIOUS
  <2> QED
    BY <2>1 DEF ParseBlocks
<1>2. FileInv /\ MapInv /\ SumInv /\ DbInv
  BY DEF DupInv
<1>3. InDb' = InDb
  BY <1>1 DEF InDb
<1>4. /\ file \in Seq(Block) /\ offset \in Nat /\ Len(file) \in Nat
      /\ DOMAIN file = 1..Len(file) /\ \A i \in DOMAIN file : file[i] \in Block
      /\ \A i \in DOMAIN file : i <= offset => file[i] \in known
      /\ FilePrefix(known) /\ FilePrefix(InDb) /\ Genesis \in InDb /\ ParentsFirst
  BY <1>1, <1>2 DEF FileInv
<1>5. \A b : b \in new <=> \E i \in fresh : file[i] = b
  OBVIOUS
<1>6. \A i \in DOMAIN file : file[i] \in known'
  <2> SUFFICES ASSUME NEW i \in DOMAIN file, file[i] \notin known
               PROVE  i \in fresh
    BY <1>1, <1>5
  <2> QED
    BY <1>4
<1>7. \A b \in known' : b \in Block /\ \E i \in DOMAIN file : file[i] = b
  BY <1>1, <1>4, <1>5 DEF FilePrefix
<1>8. FilePrefix(known)'
  BY <1>1, <1>6, <1>7 DEF FilePrefix
<1>9. FileInv'
  <2>1. FilePrefix(InDb)' /\ ParentsFirst'
    BY <1>1, <1>3, <1>4 DEF FilePrefix, ParentsFirst
  <2> QED
    BY <2>1, <1>1, <1>3, <1>4, <1>6, <1>8 DEF FileInv
<1>10. MapInv'
  <2>1. new \cap known = {}
    BY <1>5
  <2>2. known' = InDb' \cup newly' /\ newly' \cap InDb' = {}
    BY <2>1, <1>1, <1>2, <1>3 DEF MapInv
  <2>3. byHeight' \in [Heights -> known' \cup {NoBlock}]
    BY <1>1, <1>2 DEF MapInv
  <2> QED
    BY <2>2, <2>3 DEF MapInv
<1>11. SumInv'
  <2>1. SumOK(sum, hgt)'
    BY <1>1, <1>2 DEF SumInv, SumOK
  <2> QED
    BY <2>1, <1>1, <1>2 DEF SumInv
<1>12. DbInv'
  BY <1>1, <1>2, <1>3 DEF DbInv
<1> QED
  BY <1>9, <1>10, <1>11, <1>12 DEF DupInv

(* A pass over the headers, on fields that are right where they are set, gives
   every known header its sum and its height. *)
LEMMA DupPass ==
    ASSUME DupInv, NEW s \in [Block -> Int], NEW h \in [Block -> Int],
           NEW fin, NEW m, NEW n, NEW t \in known, NEW f \in known,
           SumOK(s, h), s[Genesis] = ChainWork[Genesis],
           OrganizePass(s, h, fin, m, n, t, f),
           UNCHANGED <<file, offset, known, newly, dup, dbHgt>>,
           phase \notin {"down", "load", "branching"} \/ phase' \in {"load", "branching"}
    PROVE  DupInv'
<1>1. FileInv /\ MapInv /\ DbInv
  BY DEF DupInv
<1>2. sum' = TracedSum(s) /\ hgt' = TracedHgt(s, h)
      /\ byHeight' = MarkedByHeight(t, f, hgt') /\ FirstMet(f, t, fin)
  BY DEF OrganizePass
<1>3. InDb' = InDb
  BY DEF InDb
<1>4. /\ known \subseteq Block /\ Genesis \in known
      /\ \A b \in known : Chain[b] \subseteq known
  <2>1. \A b \in known : Chain[b] \subseteq known
    BY <1>1, PrefixChain DEF FileInv
  <2> QED
    BY <2>1, <1>1 DEF FileInv, MapInv, FilePrefix
<1>5. /\ sum' \in [Block -> Int] /\ hgt' \in [Block -> Int]
      /\ SumOK(sum', hgt')
      /\ \A b \in known : sum'[b] # NoSum
      /\ sum'[Genesis] = ChainWork[Genesis]
  <2>1. /\ TracedSum(s) \in [Block -> Int]
        /\ TracedHgt(s, h) \in [Block -> Int]
        /\ SumOK(TracedSum(s), TracedHgt(s, h))
        /\ \A b \in known : Chain[b] \subseteq known => TracedSum(s)[b] # NoSum
        /\ \A b \in Block : s[b] # NoSum => TracedSum(s)[b] = s[b]
    BY <1>4, TraceLemma
  <2>2. s[Genesis] # NoSum
    BY StepAssumption DEF NoSum
  <2> QED
    BY <2>1, <2>2, <1>2, <1>4, BlockAssumption
<1>6. \A b \in known : hgt'[b] = Height[b]
  BY <1>4, <1>5 DEF SumOK
<1>7. SumInv'
  <2>1. SumOK(sum, hgt)'
    BY <1>5 DEF SumOK
  <2> QED
    BY <2>1, <1>5, <1>6 DEF SumInv
<1>8. byHeight' \in [Heights -> known \cup {NoBlock}]
  <2>1. \A k \in Heights : (\E b \in Above(f, t) \cup {f} : hgt'[b] = k) =>
          (CHOOSE b \in Above(f, t) \cup {f} : hgt'[b] = k) \in known
    BY <1>4 DEF Above
  <2>2. byHeight \in [Heights -> known \cup {NoBlock}]
    BY <1>1 DEF MapInv
  <2> QED
    BY <2>1, <2>2, <1>2 DEF MarkedByHeight
<1>9. MapInv'
  BY <1>1, <1>3, <1>8 DEF MapInv
<1>10. FileInv'
  BY <1>1, <1>3 DEF FileInv, FilePrefix, ParentsFirst
<1>11. DbInv'
  BY <1>1, <1>3 DEF DbInv
<1> QED
  BY <1>7, <1>9, <1>10, <1>11 DEF DupInv

(* What forceRebuild resets is right where it is set. *)
LEMMA DupReset ==
    ASSUME DupInv
    PROVE  /\ ResetSum \in [Block -> Int] /\ ResetHgt \in [Block -> Int]
           /\ SumOK(ResetSum, ResetHgt) /\ ResetSum[Genesis] = ChainWork[Genesis]
<1>1. hgt \in [Block -> Int] /\ Genesis \in known /\ Genesis \in Block
  BY BlockAssumption DEF DupInv, SumInv, FileInv, MapInv
<1>2. ResetSum \in [Block -> Int] /\ ResetSum[Genesis] = 1
      /\ \A b \in Block : b # Genesis => ResetSum[b] = NoSum
  BY <1>1 DEF ResetSum, NoSum
<1>3. ResetHgt \in [Block -> Int] /\ ResetHgt[Genesis] = 0
  BY <1>1 DEF ResetHgt
<1>4. SumOK(ResetSum, ResetHgt)
  BY <1>1, <1>2, <1>3, StepAssumption DEF SumOK
<1> QED
  BY <1>2, <1>3, <1>4, StepAssumption

LEMMA DupOrganize ==
    ASSUME DupInv, Organize \/ RebuildAfterReorg \/ ForceOrganize
    PROVE  DupInv'
<1>1. CASE Organize
  <2>1. PICK t \in known, f \in known :
          /\ OrganizePass(sum, hgt, finished, main, next, t, f)
          /\ phase = "organize"
          /\ UNCHANGED <<file, offset, known, newly, dup, dbHgt>>
    BY <1>1 DEF Organize
  <2>2. /\ sum \in [Block -> Int] /\ hgt \in [Block -> Int] /\ SumOK(sum, hgt)
        /\ sum[Genesis] = ChainWork[Genesis]
    BY <2>1 DEF DupInv, SumInv
  <2> QED
    BY <2>1, <2>2, DupPass
<1>2. CASE RebuildAfterReorg \/ ForceOrganize
  <2>1. PICK t \in known, f \in known :
          OrganizePass(ResetSum, ResetHgt, {Genesis}, {Genesis}, ResetNext, t, f)
    BY <1>2 DEF RebuildAfterReorg, ForceOrganize, Rebuild
  <2>2. UNCHANGED <<file, offset, known, newly, dup, dbHgt>>
    BY <1>2 DEF RebuildAfterReorg, ForceOrganize
  <2>3. phase \notin {"down", "load", "branching"} \/ phase' \in {"load", "branching"}
    BY <1>2 DEF RebuildAfterReorg, ForceOrganize, Rebuild
  <2> QED
    BY <2>1, <2>2, <2>3, DupReset, DupPass
<1> QED
  BY <1>1, <1>2

(* The next duplicate id at a height is above the ones listed there. *)
LEMMA NextDupAbove ==
    ASSUME DbInv, NEW k \in Nat
    PROVE  NextDup(k) \in Nat /\ \A c \in StoredAt(k) : dup[c] < NextDup(k)
<1> DEFINE ds == {dup[c] : c \in StoredAt(k)}
           d0 == CHOOSE d \in ds : \A c \in StoredAt(k) : dup[c] <= d
<1>1. Cardinality(Block) \in Nat
  BY FiniteAssumption, FS_CardinalityType
<1>2. \A c \in StoredAt(k) : c \in InDb
  BY DEF StoredAt, InDb, NoHeight
<1>3. \A c \in StoredAt(k) : dup[c] \in 0..Cardinality(Block)
  BY <1>2 DEF DbInv
<1>4. CASE StoredAt(k) = {}
  BY <1>4 DEF NextDup
<1>5. CASE StoredAt(k) # {}
  <2>1. ds \in SUBSET (0..Cardinality(Block)) /\ ds # {}
    BY <1>3, <1>5
  <2>2. PICK x \in ds : \A y \in ds : y <= x
    BY <1>1, <2>1, GreatestBelow
  <2>3. \E d \in ds : \A c \in StoredAt(k) : dup[c] <= d
    BY <2>2
  <2>4. d0 \in ds /\ \A c \in StoredAt(k) : dup[c] <= d0
    BY <2>3
  <2>5. NextDup(k) = 1 + d0
    BY <1>5 DEF NextDup
  <2>6. d0 \in Nat /\ \A c \in StoredAt(k) : dup[c] \in Nat
    BY <2>1, <2>4, <1>1, <1>3
  <2> HIDE DEF d0, ds
  <2> QED
    BY <2>4, <2>5, <2>6
<1> QED
  BY <1>4, <1>5

(* putBareHeader: every new header is written, under its height and an id that
   no other header of that height has. *)
LEMMA DupPut ==
    ASSUME DupInv, PutNewBareHeaders
    PROVE  DupInv' /\ newly' = {} /\ InDb' = known
<1>1. FileInv /\ MapInv /\ SumInv /\ DbInv
  BY DEF DupInv
<1>2. PICK d \in NewDups : dup' = [b \in Block |-> IF b \in Puttable THEN d[b] ELSE dup[b]]
  BY DEF PutNewBareHeaders
<1>3. /\ phase = "put" /\ phase' \in {"undo", "idle"}
      /\ dbHgt' = [b \in Block |-> IF b \in Puttable THEN hgt[b] ELSE dbHgt[b]]
      /\ newly' = newly \ Puttable
      /\ UNCHANGED <<file, offset, known, sum, hgt, byHeight>>
  BY DEF PutNewBareHeaders
<1>4. \A b \in known : b \in Block /\ hgt[b] = Height[b] /\ Height[b] \in Nat
  BY <1>1, <1>3, BlockAssumption DEF SumInv, FileInv, FilePrefix
<1>5. Puttable = newly /\ newly \subseteq Block
  BY <1>1, <1>4 DEF Puttable, MapInv, NoHeight
<1>6. /\ \A b \in newly : dbHgt'[b] = Height[b] /\ dup'[b] = d[b]
      /\ \A b \in Block : b \notin newly => dbHgt'[b] = dbHgt[b] /\ dup'[b] = dup[b]
  BY <1>1, <1>2, <1>3, <1>4, <1>5 DEF MapInv
<1>7. InDb' = known /\ newly' = {}
  <2>1. ASSUME NEW b \in Block
        PROVE  dbHgt'[b] # NoHeight <=> b \in known
    <3>1. CASE b \in newly
      BY <3>1, <1>1, <1>4, <1>6 DEF MapInv, NoHeight
    <3>2. CASE b \notin newly
      BY <3>2, <1>1, <1>6 DEF MapInv, InDb
    <3> QED
      BY <3>1, <3>2
  <2>2. known \subseteq Block
    BY <1>4
  <2> QED
    BY <2>1, <2>2, <1>3, <1>5 DEF InDb
<1>8. FileInv'
  <2>1. Genesis \in known /\ FilePrefix(known)
    BY <1>1 DEF FileInv, MapInv
  <2>2. FilePrefix(known)' /\ ParentsFirst'
    BY <2>1, <1>1, <1>3 DEF FileInv, FilePrefix, ParentsFirst
  <2>3. FilePrefix(InDb)'
    BY <2>1, <1>3, <1>7 DEF FilePrefix
  <2> QED
    BY <2>1, <2>2, <2>3, <1>1, <1>3, <1>7 DEF FileInv
<1>9. MapInv'
  BY <1>1, <1>3, <1>7 DEF MapInv
<1>10. SumInv'
  <2>1. SumOK(sum, hgt)'
    BY <1>1, <1>3 DEF SumInv, SumOK
  <2> QED
    BY <2>1, <1>1, <1>3 DEF SumInv
<1>11. \A b \in newly : d[b] \in 0..Cardinality(Block) /\ d[b] \in Int
  BY <1>5, FS_CardinalityType, FiniteAssumption DEF NewDups
<1>12. ASSUME NEW b \in newly, NEW a \in InDb, Height[a] = Height[b]
       PROVE  dup[a] # d[b]
  <2>1. b \in Block /\ hgt[b] = Height[b] /\ Height[b] \in Nat
    BY <1>1, <1>4 DEF MapInv
  <2>2. a \in StoredAt(Height[b])
    BY <1>1, <1>12 DEF DbInv, StoredAt, InDb
  <2>3. NextDup(Height[b]) \in Nat /\ dup[a] < NextDup(Height[b])
    BY <1>1, <2>1, <2>2, NextDupAbove
  <2>4. d[b] >= NextDup(Height[b]) /\ d[b] \in Int
    <3> DEFINE lo == NextDup(hgt[b])
               hi == NextDup(hgt[b]) + Cardinality({c \in Puttable : hgt[c] = hgt[b]}) - 1
    <3>1. d[b] \in lo..hi
      BY <1>5 DEF NewDups
    <3>2. lo = NextDup(Height[b])
      BY <2>1
    <3> HIDE DEF lo, hi
    <3> QED
      BY <3>1, <3>2, <1>11, <2>3
  <2>5. dup[a] \in Int
    BY <1>1 DEF DbInv, InDb
  <2> QED
    BY <2>3, <2>4, <2>5
<1>13. ASSUME NEW b \in newly, NEW c \in newly, b # c, Height[b] = Height[c]
       PROVE  d[b] # d[c]
  <2>1. hgt[b] = hgt[c]
    BY <1>13, <1>1, <1>4 DEF MapInv
  <2> QED
    BY <2>1, <1>13, <1>5 DEF NewDups
<1>14. \A a, b \in known : a # b /\ Height[a] = Height[b] => dup'[a] # dup'[b]
  <2> SUFFICES ASSUME NEW a \in known, NEW b \in known, a # b, Height[a] = Height[b]
               PROVE  dup'[a] # dup'[b]
    OBVIOUS
  <2>1. a \in Block /\ b \in Block
    BY <1>4
  <2>2. CASE a \in newly /\ b \in newly
    BY <2>2, <1>6, <1>13
  <2>3. CASE a \in newly /\ b \notin newly
    <3>1. b \in InDb
      BY <2>3, <1>1 DEF MapInv
    <3>2. dup[b] # d[a]
      BY <3>1, <2>3, <1>12
    <3> QED
      BY <3>2, <2>1, <2>3, <1>6
  <2>4. CASE a \notin newly /\ b \in newly
    <3>1. a \in InDb
      BY <2>4, <1>1 DEF MapInv
    <3>2. dup[a] # d[b]
      BY <3>1, <2>4, <1>12
    <3> QED
      BY <3>2, <2>1, <2>4, <1>6
  <2>5. CASE a \notin newly /\ b \notin newly
    <3>1. a \in InDb /\ b \in InDb
      BY <2>5, <1>1 DEF MapInv
    <3> QED
      BY <3>1, <2>1, <2>5, <1>1, <1>6 DEF DbInv
  <2> QED
    BY <2>2, <2>3, <2>4, <2>5
<1>15. \A b \in known : dbHgt'[b] = Height[b] /\ dup'[b] \in 0..Cardinality(Block)
  <2> SUFFICES ASSUME NEW b \in known
               PROVE  dbHgt'[b] = Height[b] /\ dup'[b] \in 0..Cardinality(Block)
    OBVIOUS
  <2>1. CASE b \in newly
    BY <2>1, <1>6, <1>11
  <2>2. CASE b \notin newly
    <3>1. b \in InDb /\ b \in Block
      BY <2>2, <1>1, <1>4 DEF MapInv
    <3> QED
      BY <3>1, <2>2, <1>1, <1>6 DEF DbInv
  <2> QED
    BY <2>1, <2>2
<1>16. \A b \in Block \ known : dup'[b] = NoDup
  BY <1>1, <1>6 DEF MapInv, DbInv
<1>17. dbHgt' \in [Block -> Int] /\ dup' \in [Block -> Int]
  <2>1. dbHgt' \in [Block -> Int]
    BY <1>1, <1>3 DEF DbInv, SumInv
  <2>2. dup' \in [Block -> Int]
    BY <1>1, <1>2, <1>5, <1>11 DEF DbInv
  <2> QED
    BY <2>1, <2>2
<1>18. DbInv'
  BY <1>7, <1>14, <1>15, <1>16, <1>17 DEF DbInv
<1> QED
  BY <1>7, <1>8, <1>9, <1>10, <1>18 DEF DupInv

(* A restart forgets what was not written. *)
LEMMA DupLoad ==
    ASSUME DupInv, LoadHeaders
    PROVE  DupInv'
<1>1. FileInv /\ DbInv
  BY DEF DupInv
<1>2. /\ known' = InDb \cup {Genesis} /\ newly' = {} /\ phase' = "load"
      /\ sum' = [b \in Block |-> NoSum] /\ hgt' = [b \in Block |-> dbHgt[b]]
      /\ byHeight' = [k \in Heights |-> NoBlock]
      /\ dup' = [b \in Block |-> IF b \in InDb THEN dup[b] ELSE NoDup]
      /\ UNCHANGED <<file, offset, dbHgt>>
  BY DEF LoadHeaders
<1>3. InDb' = InDb /\ Genesis \in InDb /\ InDb \subseteq Block /\ known' = InDb
  BY <1>1, <1>2 DEF InDb, FileInv
<1>4. dup' = dup
  BY <1>1, <1>2 DEF DbInv
<1>5. FileInv'
  <2>1. FilePrefix(InDb)' /\ ParentsFirst'
    BY <1>1, <1>2, <1>3 DEF FileInv, FilePrefix, ParentsFirst
  <2>2. FilePrefix(known)'
    BY <1>1, <1>2, <1>3 DEF FileInv, FilePrefix
  <2> QED
    BY <2>1, <2>2, <1>1, <1>2, <1>3 DEF FileInv
<1>6. MapInv'
  BY <1>2, <1>3 DEF MapInv
<1>7. SumInv'
  <2>1. SumOK(sum, hgt)'
    BY <1>2 DEF SumOK
  <2>2. (sum \in [Block -> Int] /\ hgt \in [Block -> Int])'
    BY <1>1, <1>2 DEF DbInv, NoSum
  <2> QED
    BY <2>1, <2>2, <1>2 DEF SumInv
<1>8. DbInv'
  BY <1>1, <1>2, <1>3, <1>4 DEF DbInv
<1> QED
  BY <1>5, <1>6, <1>7, <1>8 DEF DupInv

(* Parsing resumes after a block that is in the db. *)
LEMMA DupRewind ==
    ASSUME DupInv, RewindOffset
    PROVE  DupInv'
<1> DEFINE h == IF hgt[top] > Rewind THEN hgt[top] - Rewind ELSE 1
           Last(i) == file[i] \in InDb /\ \A j \in DOMAIN file : file[j] \in InDb => j <= i
           last == CHOOSE i \in DOMAIN file : Last(i)
<1>1. FileInv /\ MapInv /\ SumInv /\ DbInv
  BY DEF DupInv
<1>2. /\ phase = "branching" /\ phase' = "parse"
      /\ UNCHANGED <<file, known, newly, sum, hgt, byHeight, dup, dbHgt>>
  BY DEF RewindOffset
<1>3. offset' = IF h \in Heights /\ byHeight[h] # NoBlock
                THEN PosInFile(byHeight[h]) ELSE last
  BY DEF RewindOffset
<1>4. InDb' = InDb
  BY <1>2 DEF InDb
<1>5. /\ file \in Seq(Block) /\ Len(file) \in Nat /\ DOMAIN file = 1..Len(file)
      /\ FilePrefix(known) /\ FilePrefix(InDb) /\ Genesis \in InDb /\ InDb \subseteq known
      /\ byHeight \in [Heights -> known \cup {NoBlock}]
  BY <1>1 DEF FileInv, MapInv
<1> HIDE DEF h
<1>6. offset' \in DOMAIN file /\ file[offset'] \in known
  <2>1. CASE h \in Heights /\ byHeight[h] # NoBlock
    <3>1. byHeight[h] \in known
      BY <2>1, <1>5
    <3>2. \E i \in DOMAIN file : file[i] = byHeight[h]
      BY <3>1, <1>5 DEF FilePrefix
    <3>3. offset' = CHOOSE i \in DOMAIN file : file[i] = byHeight[h]
      BY <2>1, <1>3 DEF PosInFile
    <3>4. offset' \in DOMAIN file /\ file[offset'] = byHeight[h]
      BY <3>2, <3>3
    <3> QED
      BY <3>1, <3>4
  <2>2. CASE ~(h \in Heights /\ byHeight[h] # NoBlock)
    <3> DEFINE T == {i \in DOMAIN file : file[i] \in InDb}
    <3>1. T \in SUBSET (0..Len(file)) /\ T # {}
      BY <1>5 DEF FilePrefix
    <3>2. PICK x \in T : \A y \in T : y <= x
      BY <3>1, <1>5, GreatestBelow
    <3>3. x \in DOMAIN file /\ Last(x)
      BY <3>2
    <3>4. last \in DOMAIN file /\ Last(last)
      <4> HIDE DEF Last
      <4> QED
        BY <3>3
    <3>5. offset' = last
      BY <2>2, <1>3
    <3> HIDE DEF last
    <3> QED
      BY <3>4, <3>5, <1>5
  <2> QED
    BY <2>1, <2>2
<1>7. \A i \in DOMAIN file : i <= offset' => file[i] \in known
  BY <1>5, <1>6 DEF FilePrefix
<1>8. offset' \in Nat /\ offset' <= Len(file)
  BY <1>5, <1>6
<1>9. FileInv'
  <2>1. FilePrefix(InDb)' /\ ParentsFirst' /\ FilePrefix(known)'
    BY <1>1, <1>2, <1>4 DEF FileInv, FilePrefix, ParentsFirst
  <2> QED
    BY <2>1, <1>2, <1>4, <1>5, <1>7, <1>8 DEF FileInv
<1>10. MapInv'
  BY <1>1, <1>2, <1>4 DEF MapInv
<1>11. SumInv'
  BY <1>1, <1>2 DEF SumInv, SumOK
<1>12. DbInv'
  BY <1>1, <1>2, <1>4 DEF DbInv
<1> QED
  BY <1>9, <1>10, <1>11, <1>12 DEF DupInv

LEMMA DupQuiet ==
    ASSUME DupInv, UpdateBranchingMaps \/ Crash \/ UNCHANGED vars
    PROVE  DupInv'
<1>1. UNCHANGED <<file, offset, known, newly, sum, hgt, byHeight, dup, dbHgt>>
  BY DEF UpdateBranchingMaps, Crash, vars
<1>2. phase' = phase \/ phase' = "down" \/ (phase = "undo" /\ phase' = "idle")
  BY DEF UpdateBranchingMaps, Crash, vars
<1>3. InDb' = InDb
  BY <1>1 DEF InDb
<1>4. FileInv /\ MapInv /\ SumInv /\ DbInv
  BY DEF DupInv
<1>5. FileInv'
  <2>1. FilePrefix(InDb)' /\ ParentsFirst' /\ FilePrefix(known)'
    BY <1>1, <1>3, <1>4 DEF FileInv, FilePrefix, ParentsFirst
  <2> QED
    BY <2>1, <1>1, <1>2, <1>3, <1>4 DEF FileInv
<1>6. MapInv' /\ DbInv'
  BY <1>1, <1>3, <1>4 DEF MapInv, DbInv
<1>7. SumInv'
  BY <1>1, <1>2, <1>4 DEF SumInv, SumOK
<1> QED
  BY <1>5, <1>6, <1>7 DEF DupInv

LEMMA DupStep ==
    ASSUME InOrder, DupInv, [Next]_vars
    PROVE  DupInv'
<1>1. CASE \E b \in Block \ {Genesis} : NodeWrites(b)
  BY <1>1, DupWrites
<1>2. CASE ParseBlocks
  BY <1>2, DupParse
<1>3. CASE Organize \/ RebuildAfterReorg \/ ForceOrganize
  BY <1>3, DupOrganize
<1>4. CASE PutNewBareHeaders
  BY <1>4, DupPut
<1>5. CASE LoadHeaders
  BY <1>5, DupLoad
<1>6. CASE RewindOffset
  BY <1>6, DupRewind
<1>7. CASE UpdateBranchingMaps \/ Crash \/ UNCHANGED vars
  BY <1>7, DupQuiet
<1> QED
  BY <1>1, <1>2, <1>3, <1>4, <1>5, <1>6, <1>7 DEF Next

(* Blocks that reach the files parents first, any number of kills and restarts,
   ids reused or not: height and duplicate id name one header. *)
THEOREM DuplicatesUnique ==
    ASSUME InOrder
    PROVE  Spec => []DupIsUnique
<1>1. Init => DupInv
  BY DupInit
<1>2. DupInv /\ [Next]_vars => DupInv'
  BY DupStep
<1>3. DupInv => DupIsUnique
  <2> SUFFICES ASSUME DupInv, NEW a \in known, NEW b \in known,
                      a # b, Height[a] = Height[b], dup[a] # NoDup
               PROVE  dup[a] # dup[b]
    BY DEF DupIsUnique
  <2>1. a \in Block /\ b \in Block /\ DbInv
    BY DEF DupInv, FileInv, FilePrefix
  <2>2. a \in InDb
    BY <2>1 DEF DbInv
  <2>3. CASE b \in InDb
    BY <2>1, <2>2, <2>3 DEF DbInv
  <2>4. CASE b \notin InDb
    BY <2>1, <2>4 DEF DbInv
  <2> QED
    BY <2>3, <2>4
<1> QED
  BY <1>1, <1>2, <1>3, PTL DEF Spec
-----------------------------------------------------------------------------
(* The duplicate ids history reads *)

(* validDupByHeight_ names the blocks of S. *)
Named(S) == \A b \in S : validDup[Height[b]] = dup[b]

(* No header of the db outweighs t. *)
DbBelow(t) == \A b \in InDb : ChainWork[b] <= ChainWork[t]

(* validDupByHeight_ follows the branch the last update left until the headers
   of the new one are written, and the part they share until undoHistory ends. *)
ValidInv ==
    /\ phase \in {"idle", "parse", "organize"} => Named(Chain[top])
    /\ phase \in {"rebuild", "put"} => Named(Chain[reorg.prevTop]) /\ DbBelow(reorg.prevTop)
    /\ phase = "undo" => Named(Chain[reorg.branch]) /\ reorg.branch # NoBlock
    /\ phase \in {"idle", "undo"} => newly = {}
    /\ phase \in {"branching", "parse", "organize"} => DbBelow(top)
    /\ phase \in {"rebuild", "put", "undo"} =>
          /\ reorg.prevTop \in Block /\ reorg.branch \in Block \cup {NoBlock}
          /\ reorg.newTop = top
          /\ reorg.prevTop # reorg.newTop => reorg.hasNewTop

LEMMA ValidInit ==
    ASSUME Init
    PROVE  ValidInv
<1>1. phase = "idle" /\ top = Genesis /\ newly = {}
  BY DEF Init
<1>2. Chain[Genesis] = {Genesis} /\ Height[Genesis] = 0 /\ Genesis \in Block /\ 0 \in Heights
  BY StepAssumption, BlockAssumption DEF Heights
<1>3. validDup[0] = 0 /\ dup[Genesis] = 0
  BY <1>2 DEF Init
<1> QED
  BY <1>1, <1>2, <1>3 DEF ValidInv, Named

LEMMA ValidOrganize ==
    ASSUME ChainInv, TopIdIsTop, DupInv, ValidInv, Organize
    PROVE  ValidInv'
<1>1. PICK t \in known, f \in known :
        /\ OrganizePass(sum, hgt, finished, main, next, t, f)
        /\ reorg' = [prevTop |-> top, newTop |-> t, branch |-> BranchPoint(t, f),
                     hasNewTop |-> top # t]
        /\ phase' = IF PrevTopMet(t, f) THEN "put" ELSE "rebuild"
  BY DEF Organize
<1>2. /\ phase = "organize" /\ UNCHANGED <<known, dup, validDup, dbHgt>>
      /\ known \subseteq Block /\ top \in Block
  BY DEF Organize, ChainInv, Fields
<1>3. /\ reorg'.prevTop = top /\ reorg'.newTop = t /\ top' = t
      /\ reorg'.branch \in Block \cup {NoBlock}
      /\ top # t => reorg'.hasNewTop
      /\ phase' \in {"put", "rebuild"}
  BY <1>1, <1>2 DEF OrganizePass, BranchPoint
<1>4. Named(Chain[top]) /\ DbBelow(top)
  BY <1>2 DEF ValidInv
<1>5. (Named(Chain[reorg.prevTop]) /\ DbBelow(reorg.prevTop))'
  BY <1>2, <1>3, <1>4 DEF Named, DbBelow, InDb
<1> QED
  BY <1>2, <1>3, <1>5 DEF ValidInv

LEMMA ValidRebuild ==
    ASSUME ChainInv, TopIdIsTop, ValidInv, RebuildAfterReorg
    PROVE  ValidInv'
<1>1. phase = "rebuild" /\ UNCHANGED <<dup, validDup, dbHgt>>
      /\ reorg' = [prevTop |-> reorg.prevTop, newTop |-> top', branch |-> reorg.branch,
                   hasNewTop |-> reorg.prevTop # top']
  BY DEF RebuildAfterReorg
<1>2. phase' = "put"
  BY RebuildStep
<1>3. /\ reorg'.prevTop = reorg.prevTop /\ reorg'.newTop = top' /\ reorg'.branch = reorg.branch
      /\ reorg.prevTop # top' => reorg'.hasNewTop
  BY <1>1
<1>4. (Named(Chain[reorg.prevTop]) /\ DbBelow(reorg.prevTop))'
  BY <1>1, <1>3 DEF ValidInv, Named, DbBelow, InDb
<1> QED
  BY <1>1, <1>2, <1>3, <1>4 DEF ValidInv

(* Writing the new headers names the ones on the main branch, and the others of
   the main branch were on the branch before it. *)
LEMMA ValidPut ==
    ASSUME ChainInv, DupInv, ValidInv, PutNewBareHeaders,
           boot = FALSE \/ Tracking = "same"
    PROVE  ValidInv'
<1> DEFINE p == reorg.prevTop
<1>1. PICK d \in NewDups :
        /\ dup' = [b \in Block |-> IF b \in Puttable THEN d[b] ELSE dup[b]]
        /\ validDup' = [k \in Heights |->
              IF \E b \in Puttable \cap main : hgt[b] = k
              THEN d[CHOOSE b \in Puttable \cap main : hgt[b] = k]
              ELSE validDup[k]]
  BY DEF PutNewBareHeaders
<1>2. /\ phase = "put" /\ phase' = IF Undoes THEN "undo" ELSE "idle"
      /\ UNCHANGED <<top, reorg>>
  BY DEF PutNewBareHeaders
<1>3. newly' = {} /\ MapInv /\ SumInv /\ FileInv
  BY DupPut DEF DupInv
<1>4. \A b \in known : b \in Block /\ hgt[b] = Height[b] /\ Height[b] \in Nat
  BY <1>2, <1>3, BlockAssumption DEF SumInv, FileInv, FilePrefix
<1>5. Puttable = newly /\ newly \subseteq known
  BY <1>3, <1>4 DEF Puttable, MapInv, NoHeight
<1>6. /\ top \in known /\ top \in Block /\ main = Chain[top] /\ BranchPointIsFork
      /\ Chain[top] \subseteq known
  <2>1. top \in known /\ main = Chain[top] /\ BranchPointIsFork
    BY <1>2 DEF ChainInv, Fields, MainBranchConsistent
  <2> QED
    BY <2>1, <1>3, <1>4, PrefixChain DEF FileInv
<1>7. /\ p \in Block /\ reorg.branch \in Block \cup {NoBlock} /\ reorg.newTop = top
      /\ p # top => reorg.hasNewTop
      /\ Named(Chain[p]) /\ DbBelow(p)
  BY <1>2 DEF ValidInv
<1>8. ASSUME NEW b \in Chain[top], b \in newly \/ b \in Chain[p]
      PROVE  validDup'[Height[b]] = dup'[b]
  <2>1. b \in Block /\ b \in known /\ Height[b] \in Heights /\ hgt[b] = Height[b]
    BY <1>4, <1>6 DEF Heights
  <2>2. \A c \in Puttable \cap main : hgt[c] = Height[b] => c = b
    BY <1>4, <1>5, <1>6, OnePerHeight
  <2>3. validDup'[Height[b]] =
          IF \E c \in Puttable \cap main : hgt[c] = Height[b]
          THEN d[CHOOSE c \in Puttable \cap main : hgt[c] = Height[b]]
          ELSE validDup[Height[b]]
    BY <1>1, <2>1
  <2>4. CASE b \in newly
    <3>1. b \in Puttable \cap main
      BY <2>4, <1>5, <1>6
    <3>2. (CHOOSE c \in Puttable \cap main : hgt[c] = Height[b]) = b
      BY <3>1, <2>1, <2>2
    <3>3. validDup'[Height[b]] = d[b]
      BY <3>1, <3>2, <2>1, <2>3
    <3>4. dup'[b] = d[b]
      BY <3>1, <1>1, <2>1
    <3> QED
      BY <3>3, <3>4
  <2>5. CASE b \notin newly
    <3>1. ~\E c \in Puttable \cap main : hgt[c] = Height[b]
      BY <2>2, <2>5, <1>5
    <3>2. dup'[b] = dup[b]
      BY <1>1, <1>5, <2>1, <2>5
    <3>3. validDup[Height[b]] = dup[b]
      BY <1>7, <1>8, <2>5 DEF Named
    <3> QED
      BY <3>1, <3>2, <3>3, <2>3
  <2> QED
    BY <2>4, <2>5
<1>9. CASE reorg.branch = NoBlock
  <2>1. p \in Chain[top]
    BY <1>2, <1>6, <1>7, <1>9 DEF BranchPointIsFork
  <2>2. ASSUME NEW b \in Chain[top], b \notin newly
        PROVE  b \in Chain[p]
    <3>1. b \in Block /\ b \in InDb
      BY <2>2, <1>3, <1>4, <1>6 DEF MapInv
    <3>2. ChainWork[b] <= ChainWork[p]
      BY <3>1, <1>7 DEF DbBelow
    <3>3. b \in Chain[p] \/ p \in Chain[b]
      BY <2>1, <1>6, ChainAssumption
    <3>4. p \in Chain[b] => p = b \/ ChainWork[p] < ChainWork[b]
      BY <3>1, <1>7, ChainAssumption
    <3>5. ChainWork[b] \in Nat /\ ChainWork[p] \in Nat /\ p \in Chain[p]
      BY <3>1, <1>7, BlockAssumption, ChainAssumption
    <3> QED
      BY <3>2, <3>3, <3>4, <3>5
  <2>3. Named(Chain[top])'
    BY <2>2, <1>2, <1>8 DEF Named
  <2>4. phase' = "idle"
    BY <1>2, <1>9 DEF Undoes
  <2> QED
    BY <2>3, <2>4, <1>3 DEF ValidInv
<1>10. CASE reorg.branch # NoBlock
  <2>1. p \notin Chain[top] /\ Chain[p] \cap Chain[top] = Chain[reorg.branch]
    BY <1>2, <1>6, <1>7, <1>10 DEF BranchPointIsFork
  <2>2. p # top
    BY <2>1, <1>6, ChainAssumption
  <2>3. Undoes
    <3>1. reorg.hasNewTop
      BY <2>2, <1>7
    <3> QED
      BY <3>1, <1>10 DEF Undoes
  <2>4. phase' = "undo"
    BY <2>3, <1>2
  <2>5. Named(Chain[reorg.branch])'
    BY <2>1, <1>2, <1>8 DEF Named
  <2> QED
    BY <2>4, <2>5, <1>2, <1>3, <1>7, <1>10 DEF ValidInv
<1> QED
  BY <1>9, <1>10

(* updateBranchingMaps names the blocks it walks over. *)
LEMMA BranchedNames ==
    ASSUME NEW t \in Block, NEW f \in Chain[t], \A b \in Chain[t] : hgt[b] = Height[b],
           NEW b \in Chain[t]
    PROVE  BranchedDup(f, t)[Height[b]] =
             IF b \in Above(f, t) \cup {f} THEN dup[b] ELSE validDup[Height[b]]
<1> DEFINE walk == Above(f, t) \cup {f}
<1>1. /\ f \in Block /\ walk \subseteq Chain[t] /\ Chain[t] \subseteq Block
      /\ Height[b] \in Heights
  BY BlockAssumption DEF Above, Heights
<1>2. BranchedDup(f, t)[Height[b]] =
        IF \E c \in walk : hgt[c] = Height[b]
        THEN dup[CHOOSE c \in walk : hgt[c] = Height[b]]
        ELSE validDup[Height[b]]
  BY <1>1 DEF BranchedDup
<1>3. \A c \in walk : hgt[c] = Height[b] => c = b
  BY <1>1, OnePerHeight
<1>4. CASE b \in walk
  <2>1. hgt[b] = Height[b]
    OBVIOUS
  <2> QED
    BY <2>1, <1>2, <1>3, <1>4
<1>5. CASE b \notin walk
  BY <1>2, <1>3, <1>5
<1> QED
  BY <1>4, <1>5

LEMMA ValidUndo ==
    ASSUME ChainInv, ValidInv, UpdateBranchingMaps
    PROVE  ValidInv'
<1> DEFINE f == reorg.branch
<1>1. /\ phase = "undo" /\ phase' = "idle" /\ UNCHANGED <<top, dup, newly>>
      /\ validDup' = BranchedDup(f, reorg.newTop)
  BY DEF UpdateBranchingMaps
<1>2. /\ f \in Block /\ reorg.newTop = top /\ reorg.prevTop \in Block /\ newly = {}
      /\ Named(Chain[f]) /\ f # NoBlock
  BY <1>1 DEF ValidInv
<1>3. /\ top \in Block /\ BranchPointIsFork /\ \A b \in Chain[top] : hgt[b] = Height[b]
  BY <1>1 DEF ChainInv, Fields, MainBranchConsistent
<1>4. Chain[reorg.prevTop] \cap Chain[top] = Chain[f] /\ f \in Chain[f]
  BY <1>1, <1>2, <1>3, ChainAssumption DEF BranchPointIsFork
<1>5. f \in Chain[top]
  BY <1>4
<1>6. ASSUME NEW b \in Chain[top]
      PROVE  validDup'[Height[b]] = dup[b]
  <2>1. validDup'[Height[b]] =
          IF b \in Above(f, top) \cup {f} THEN dup[b] ELSE validDup[Height[b]]
    BY <1>1, <1>2, <1>3, <1>5, BranchedNames
  <2>2. b \notin Above(f, top) => validDup[Height[b]] = dup[b]
    BY <1>2 DEF Above, Named
  <2> QED
    BY <2>1, <2>2
<1>7. Named(Chain[top])'
  BY <1>1, <1>6 DEF Named
<1> QED
  BY <1>1, <1>2, <1>7 DEF ValidInv

LEMMA ValidRewind ==
    ASSUME ChainInv, DupInv, ValidInv, RewindOffset
    PROVE  ValidInv'
<1>1. /\ phase = "branching" /\ phase' = "parse" /\ UNCHANGED <<top, dup, dbHgt>>
      /\ validDup' = BranchedDup(Genesis, top)
  BY DEF RewindOffset
<1>2. top \in Block /\ \A b \in Chain[top] : hgt[b] = Height[b]
  BY <1>1 DEF ChainInv, Fields, MainBranchConsistent
<1>3. Genesis \in Chain[top] /\ Chain[Genesis] = {Genesis}
  BY <1>2, ChainAssumption, StepAssumption
<1>4. ASSUME NEW b \in Chain[top]
      PROVE  validDup'[Height[b]] = dup[b]
  <2>1. validDup'[Height[b]] =
          IF b \in Above(Genesis, top) \cup {Genesis} THEN dup[b] ELSE validDup[Height[b]]
    BY <1>1, <1>2, <1>3, BranchedNames
  <2> QED
    BY <2>1, <1>3 DEF Above
<1>5. Named(Chain[top])'
  BY <1>1, <1>4 DEF Named
<1>6. DbBelow(top)'
  BY <1>1 DEF ValidInv, DbBelow, InDb
<1> QED
  BY <1>1, <1>5, <1>6 DEF ValidInv

(* The rebuild at start-up ends on a block no header of the db outweighs. *)
LEMMA ValidForce ==
    ASSUME ChainInv, TopIdIsTop, DupInv, ValidInv, ForceOrganize
    PROVE  ValidInv'
<1>1. PICK t \in known, f \in known :
        /\ OrganizePass(ResetSum, ResetHgt, {Genesis}, {Genesis}, ResetNext, t, f)
        /\ phase' = IF PrevTopMet(t, f) THEN "branching" ELSE phase
  BY DEF ForceOrganize, Rebuild
<1>2. phase = "load" /\ UNCHANGED <<file, known, dbHgt>>
  BY DEF ForceOrganize
<1>3. Fields /\ PrevTop \in Block
  BY <1>2 DEF ChainInv, Fields, TopIdIsTop
<1>4. phase' \in {"load", "branching"}
  BY <1>1, <1>2
<1>5. top' = t /\ \A b \in known : Chain[b] \subseteq known => ChainWork[b] <= ChainWork[t]
  BY <1>1, <1>2, <1>3, <1>4, RebuildLemma
<1>6. \A b \in InDb : b \in known /\ Chain[b] \subseteq known
  BY PrefixChain DEF DupInv, FileInv, MapInv
<1>7. DbBelow(top)'
  BY <1>2, <1>5, <1>6 DEF DbBelow, InDb
<1> QED
  BY <1>4, <1>7 DEF ValidInv

LEMMA ValidParse ==
    ASSUME ChainInv, DupInv, ValidInv, ParseBlocks
    PROVE  ValidInv'
<1>1. /\ phase \in {"idle", "parse"} /\ phase' = "organize"
      /\ UNCHANGED <<top, dup, validDup, dbHgt>>
  BY DEF ParseBlocks
<1>2. Named(Chain[top])'
  BY <1>1 DEF ValidInv, Named
<1>3. DbBelow(top)
  <2>1. CASE phase = "parse"
    BY <2>1 DEF ValidInv
  <2>2. CASE phase = "idle"
    <3>1. \A b \in InDb : b \in known /\ Chain[b] \subseteq known
      BY PrefixChain DEF DupInv, FileInv, MapInv
    <3> QED
      BY <3>1, <2>2 DEF ChainInv, TopIsHeaviest, Organized, DbBelow
  <2> QED
    BY <2>1, <2>2, <1>1
<1>4. DbBelow(top)'
  BY <1>1, <1>3 DEF DbBelow, InDb
<1> QED
  BY <1>1, <1>2, <1>4 DEF ValidInv

LEMMA ValidQuiet ==
    ASSUME ValidInv, \/ \E b \in Block \ {Genesis} : NodeWrites(b)
                     \/ Crash \/ LoadHeaders \/ UNCHANGED vars
    PROVE  ValidInv'
<1>1. CASE Crash \/ LoadHeaders
  <2>1. phase' \in {"down", "load"}
    BY <1>1 DEF Crash, LoadHeaders
  <2> QED
    BY <2>1 DEF ValidInv
<1>2. CASE \/ \E b \in Block \ {Genesis} : NodeWrites(b)
           \/ UNCHANGED vars
  <2>1. UNCHANGED <<top, newly, dup, validDup, dbHgt, phase, reorg>>
    BY <1>2 DEF NodeWrites, vars
  <2> QED
    BY <2>1 DEF ValidInv, Named, DbBelow, InDb
<1> QED
  BY <1>1, <1>2

LEMMA ValidStep ==
    ASSUME boot = FALSE \/ Tracking = "same", ChainInv, TopIdIsTop, DupInv, ValidInv,
           [Next]_vars
    PROVE  ValidInv'
<1>1. CASE Organize
  BY <1>1, ValidOrganize
<1>2. CASE RebuildAfterReorg
  BY <1>2, ValidRebuild
<1>3. CASE PutNewBareHeaders
  BY <1>3, ValidPut
<1>4. CASE UpdateBranchingMaps
  BY <1>4, ValidUndo
<1>5. CASE RewindOffset
  BY <1>5, ValidRewind
<1>6. CASE ForceOrganize
  BY <1>6, ValidForce
<1>7. CASE ParseBlocks
  BY <1>7, ValidParse
<1>8. CASE \/ \E b \in Block \ {Genesis} : NodeWrites(b)
           \/ Crash \/ LoadHeaders \/ UNCHANGED vars
  BY <1>8, ValidQuiet
<1> QED
  BY <1>1, <1>2, <1>3, <1>4, <1>5, <1>6, <1>7, <1>8 DEF Next

LEMMA ValidSafe ==
    ASSUME ChainInv, DupInv, ValidInv
    PROVE  ValidDupIsMain
<1> SUFFICES ASSUME phase = "idle", NEW b \in Chain[top]
             PROVE  dup[b] # NoDup /\ validDup[Height[b]] = dup[b]
  BY DEF ValidDupIsMain
<1>1. top \in known /\ Chain[top] \subseteq known
  BY PrefixChain DEF ChainInv, Fields, DupInv, FileInv
<1>2. b \in InDb
  BY <1>1 DEF ValidInv, DupInv, MapInv
<1>3. dup[b] \in 0..Cardinality(Block) /\ Cardinality(Block) \in Nat
  BY <1>2, FiniteAssumption, FS_CardinalityType DEF DupInv, DbInv
<1>4. dup[b] # NoDup
  BY <1>3 DEF NoDup
<1>5. validDup[Height[b]] = dup[b]
  BY DEF ValidInv, Named
<1> QED
  BY <1>4, <1>5

(* Blocks parents first, the addresses of the last run tracked, any number of
   kills and restarts: as long as headersById_ answers topBlockId_ with the top
   block, the duplicate id read at a height is the main branch block's whenever
   an update has ended. *)
THEOREM ValidDupUnlessIdsReused ==
    ASSUME InOrder, Tracking = "same"
    PROVE  Spec /\ []TopIdIsTop => []ValidDupIsMain
<1> DEFINE I == ChainInv /\ DupInv /\ ValidInv
<1>1. Init => I
  BY ChainInit, DupInit, ValidInit
<1>2. I /\ TopIdIsTop /\ [Next]_vars => I'
  BY ChainStep, DupStep, ValidStep
<1>3. I => ValidDupIsMain
  BY ValidSafe
<1> QED
  BY <1>1, <1>2, <1>3, PTL DEF Spec

LEMMA NoBoot ==
    ASSUME MaxCrash = 0, IdInv, boot = FALSE, [Next]_vars
    PROVE  boot' = FALSE
<1>1. ~Crash /\ ~LoadHeaders /\ ~ForceOrganize /\ ~RewindOffset
  BY DEF IdInv, Crash, LoadHeaders, ForceOrganize, RewindOffset
<1>2. CASE PutNewBareHeaders
  BY <1>2 DEF PutNewBareHeaders
<1>3. CASE UpdateBranchingMaps
  BY <1>3 DEF UpdateBranchingMaps
<1>4. CASE \/ \E b \in Block \ {Genesis} : NodeWrites(b)
           \/ ParseBlocks \/ Organize \/ RebuildAfterReorg \/ UNCHANGED vars
  BY <1>4 DEF NodeWrites, ParseBlocks, Organize, RebuildAfterReorg, vars
<1> QED
  BY <1>1, <1>2, <1>3, <1>4 DEF Next

(* One run of the server, blocks parents first, whatever is tracked. *)
THEOREM ValidDupCorrect ==
    ASSUME InOrder, MaxCrash = 0
    PROVE  Spec => []ValidDupIsMain
<1> DEFINE I == IdInv /\ boot = FALSE /\ ChainInv /\ DupInv /\ ValidInv
<1>1. Init => I
  <2>1. Init => boot = FALSE
    BY DEF Init
  <2> QED
    BY <2>1, IdInit, ChainInit, DupInit, ValidInit
<1>2. I /\ [Next]_vars => I'
  <2> SUFFICES ASSUME I, [Next]_vars PROVE I'
    OBVIOUS
  <2>1. TopIdIsTop
    BY IdsName
  <2> QED
    BY <2>1, NoBoot, IdStep, ChainStep, DupStep, ValidStep
<1>3. I => ValidDupIsMain
  BY ValidSafe
<1> QED
  BY <1>1, <1>2, <1>3, PTL DEF Spec

(* A pass replaces the top by a strictly heavier block only. *)
LEMMA TieStep ==
    ASSUME ChainInv, TopIdIsTop, [Next]_vars, phase = "organize", top' # top
    PROVE  ChainWork[top'] > ChainWork[top]
<1>1. Organize
  BY DEF Next, NodeWrites, ParseBlocks, Organize, RebuildAfterReorg, PutNewBareHeaders,
         UpdateBranchingMaps, Crash, LoadHeaders, ForceOrganize, RewindOffset, vars
<1>2. PICK t \in known, f \in known : OrganizePass(sum, hgt, finished, main, next, t, f)
  BY <1>1 DEF Organize
<1>3. /\ IsHeaviest(t, top, sum[top], TracedSum(sum)) /\ top' = t
  BY <1>2 DEF OrganizePass, TopIdIsTop
<1>4. /\ sum \in [Block -> Int] /\ hgt \in [Block -> Int] /\ SumOK(sum, hgt)
      /\ known \subseteq Block /\ Genesis \in known /\ top \in Block
      /\ \A b \in Chain[top] : sum[b] # NoSum
  BY DEF ChainInv, Fields, Whole
<1>5. sum[Genesis] = ChainWork[Genesis] /\ sum[top] = ChainWork[top]
  BY <1>4, ChainAssumption, BlockAssumption DEF SumOK
<1>6. sum[top] < ChainWork[t]
  BY <1>3, <1>4, <1>5, HeaviestLemma
<1>7. ChainWork[t] \in Nat /\ ChainWork[top] \in Nat
  BY <1>4, BlockAssumption
<1> QED
  BY <1>3, <1>5, <1>6, <1>7

(* One run of the server, blocks in any order: organize() never replaces the top
   by a block with the same difficulty sum. *)
THEOREM TiesKeepTop ==
    ASSUME MaxCrash = 0
    PROVE  Spec => TieKeepsTop
<1>1. Spec => []IdInv
  BY IdInit, IdStep, PTL DEF Spec
<1>2. IdInv => TopIdIsTop
  BY IdsName
<1>3. ChainInv /\ TopIdIsTop /\ [Next]_vars => ChainInv'
  BY ChainStep
<1>4. ChainInv /\ TopIdIsTop /\ [Next]_vars =>
        [phase = "organize" /\ top' # top => ChainWork[top'] > ChainWork[top]]_vars
  BY TieStep
<1> QED
  BY <1>1, <1>2, <1>3, <1>4, ChainInit, PTL DEF Spec, TieKeepsTop

-----------------------------------------------------------------------------
(* Blockchain implements MainBranch *)

(* The HEADERS db holds known headers.  Those that connect within it have been
   organised, and so has every connected header but the ones just parsed. *)
HeldInv ==
    /\ InDb \subseteq known /\ newly \subseteq known /\ Genesis \in InDb
    /\ phase \notin {"down", "load"} =>
          \A b \in InDb : Chain[b] \subseteq InDb => sum[b] # NoSum
    /\ phase \notin {"down", "load", "organize"} =>
          \A b \in known : Chain[b] \subseteq known => sum[b] # NoSum

LEMMA HeldInit ==
    ASSUME Init
    PROVE  HeldInv
<1>1. Genesis \in Block /\ InDb = {Genesis}
  BY BlockAssumption DEF Init, InDb, NoHeight
<1> QED
  BY <1>1 DEF Init, HeldInv, NoSum

(* A pass, incremental or not, leaves every connected header with its sum. *)
LEMMA HeldPass ==
    ASSUME Fields, HeldInv,
           NEW s \in [Block -> Int], NEW h \in [Block -> Int],
           NEW fin, NEW m, NEW n, NEW t \in known, NEW f \in known,
           SumOK(s, h), s[Genesis] = ChainWork[Genesis],
           OrganizePass(s, h, fin, m, n, t, f),
           UNCHANGED <<known, newly, dbHgt>>
    PROVE  /\ HeldInv'
           /\ \A b \in known : Chain[b] \subseteq known => sum'[b] # NoSum
<1>1. sum' = TracedSum(s)
  BY DEF OrganizePass
<1>2. known \subseteq Block /\ Genesis \in known
  BY DEF Fields
<1>3. \A b \in known : Chain[b] \subseteq known => sum'[b] # NoSum
  BY <1>1, <1>2, TraceLemma
<1>4. InDb' = InDb
  BY DEF InDb
<1> QED
  BY <1>3, <1>4 DEF HeldInv

LEMMA ResetOK ==
    ASSUME Fields
    PROVE  /\ ResetSum \in [Block -> Int] /\ ResetHgt \in [Block -> Int]
           /\ SumOK(ResetSum, ResetHgt)
           /\ ResetSum[Genesis] = ChainWork[Genesis]
<1>1. /\ known \subseteq Block /\ Genesis \in known /\ Genesis \in Block
      /\ hgt \in [Block -> Int]
  BY BlockAssumption DEF Fields
<1>2. Chain[Genesis] = {Genesis} /\ Height[Genesis] = 0 /\ ChainWork[Genesis] = 1
  BY StepAssumption
<1> QED
  BY <1>1, <1>2 DEF ResetSum, ResetHgt, SumOK, NoSum

LEMMA HeldRebuild ==
    ASSUME Fields, HeldInv, RebuildAfterReorg \/ ForceOrganize
    PROVE  /\ HeldInv'
           /\ \A b \in known : Chain[b] \subseteq known => sum'[b] # NoSum
<1>1. PICK t \in known, f \in known :
        OrganizePass(ResetSum, ResetHgt, {Genesis}, {Genesis}, ResetNext, t, f)
  BY DEF RebuildAfterReorg, ForceOrganize, Rebuild
<1>2. UNCHANGED <<known, newly, dbHgt>>
  BY DEF RebuildAfterReorg, ForceOrganize
<1> QED
  BY <1>1, <1>2, ResetOK, HeldPass

LEMMA HeldOrganize ==
    ASSUME ChainInv, HeldInv, Organize
    PROVE  /\ HeldInv'
           /\ \A b \in known : Chain[b] \subseteq known => sum'[b] # NoSum
<1>1. PICK t \in known, f \in known : OrganizePass(sum, hgt, finished, main, next, t, f)
  BY DEF Organize
<1>2. UNCHANGED <<known, newly, dbHgt>> /\ phase = "organize"
  BY DEF Organize
<1>3. Fields /\ SumOK(sum, hgt) /\ top \in Block
      /\ sum \in [Block -> Int] /\ hgt \in [Block -> Int]
  BY DEF ChainInv, Fields
<1>4. Genesis \in Chain[top] /\ Genesis \in Block
  BY <1>3, BlockAssumption, ChainAssumption
<1>5. sum[Genesis] # NoSum
  BY <1>2, <1>4 DEF ChainInv, Whole
<1>6. sum[Genesis] = ChainWork[Genesis]
  BY <1>3, <1>4, <1>5 DEF SumOK
<1> QED
  BY <1>1, <1>2, <1>3, <1>6, HeldPass

LEMMA HeldPut ==
    ASSUME ChainInv, HeldInv, PutNewBareHeaders
    PROVE  HeldInv'
<1>1. /\ phase = "put" /\ phase' \in {"undo", "idle"}
      /\ dbHgt' = [b \in Block |-> IF b \in Puttable THEN hgt[b] ELSE dbHgt[b]]
      /\ newly' = newly \ Puttable /\ UNCHANGED <<known, sum>>
  BY DEF PutNewBareHeaders
<1>2. \A b \in Puttable : b \in newly /\ hgt[b] # NoHeight
  BY DEF Puttable
<1>3. InDb \subseteq InDb' /\ InDb' \subseteq known
  BY <1>1, <1>2 DEF InDb, HeldInv
<1>4. \A b \in InDb' : Chain[b] \subseteq InDb' => sum'[b] # NoSum
  BY <1>1, <1>3 DEF HeldInv
<1> QED
  BY <1>1, <1>3, <1>4 DEF HeldInv

LEMMA HeldStep ==
    ASSUME ChainInv, HeldInv, [Next]_vars
    PROVE  HeldInv'
<1>1. CASE Organize
  BY <1>1, HeldOrganize
<1>2. CASE RebuildAfterReorg \/ ForceOrganize
  BY <1>2, HeldRebuild DEF ChainInv
<1>3. CASE PutNewBareHeaders
  BY <1>3, HeldPut
<1>4. CASE ParseBlocks
  <2>1. /\ phase \in {"idle", "parse"} /\ phase' = "organize" /\ known \subseteq known'
        /\ newly' = newly \cup (known' \ known)
        /\ UNCHANGED <<sum, dbHgt>>
    BY <1>4 DEF ParseBlocks
  <2>2. InDb' = InDb
    BY <2>1 DEF InDb
  <2> QED
    BY <2>1, <2>2 DEF HeldInv
<1>5. CASE LoadHeaders
  <2>1. phase' = "load" /\ known' = InDb \cup {Genesis} /\ newly' = {} /\ dbHgt' = dbHgt
    BY <1>5 DEF LoadHeaders
  <2>2. InDb' = InDb
    BY <2>1 DEF InDb
  <2> QED
    BY <2>1, <2>2 DEF HeldInv
<1>6. CASE \/ \E b \in Block \ {Genesis} : NodeWrites(b)
           \/ UpdateBranchingMaps \/ Crash \/ RewindOffset \/ UNCHANGED vars
  <2>1. UNCHANGED <<known, newly, sum, dbHgt>>
    BY <1>6 DEF NodeWrites, UpdateBranchingMaps, Crash, RewindOffset, vars
  <2>2. \/ phase' = phase \/ phase' = "down"
        \/ phase = "undo" /\ phase' = "idle"
        \/ phase = "branching" /\ phase' = "parse"
    BY <1>6 DEF NodeWrites, UpdateBranchingMaps, Crash, RewindOffset, vars
  <2>3. InDb' = InDb
    BY <2>1 DEF InDb
  <2> QED
    BY <2>1, <2>2, <2>3 DEF HeldInv
<1> QED
  BY <1>1, <1>2, <1>3, <1>4, <1>5, <1>6 DEF Next
(* Where every connected header has its sum, those are the ones organised. *)
LEMMA SolvedAttached ==
    ASSUME known \subseteq Block, NEW s, NEW h, SumOK(s, h),
           \A b \in known : Chain[b] \subseteq known => s[b] # NoSum
    PROVE  Solved(s) = Attached(known)
BY DEF Solved, Attached, SumOK

(* A heaviest header is where the search ends that starts at the genesis
   block, or at a previous top it outweighs. *)
LEMMA HeaviestIsBest ==
    ASSUME known \subseteq Block, NEW t \in known, Chain[t] \subseteq known,
           \A b \in known : Chain[b] \subseteq known => ChainWork[b] <= ChainWork[t],
           NEW p \in Block,
           t # p => FirstHeaviest(t) /\ ChainWork[p] < ChainWork[t]
    PROVE  IsBest(t, Attached(known), p)
<1>1. t \in Attached(known)
  BY DEF Attached
<1>2. \A b \in Attached(known) : b \in known /\ Chain[b] \subseteq known
  BY DEF Attached
<1>3. \A b \in known : b \in Block /\ ChainWork[b] \in Nat
  BY BlockAssumption
<1>4. ASSUME t # p, NEW b \in Attached(known), ChainWork[b] = ChainWork[t]
      PROVE  Rank[t] <= Rank[b]
  BY <1>2, <1>3, <1>4 DEF FirstHeaviest
<1> QED
  BY <1>1, <1>2, <1>4 DEF IsBest

(* MainBranch is about the same tree. *)
LEMMA SameChoice ==
    /\ \A S : Promise!Attached(S) = Attached(S)
    /\ \A t, S, cur : Promise!IsBest(t, S, cur) = IsBest(t, S, cur)
BY DEF Promise!Attached, Attached, Promise!IsBest, IsBest

(* organize() is an update to the headers that connect now. *)
LEMMA PromiseOrganize ==
    ASSUME ChainInv, TopIdIsTop, HeldInv, Organize
    PROVE  Promise!Update(Attached(known))
<1>1. PICK t \in known, f \in known :
        /\ OrganizePass(sum, hgt, finished, main, next, t, f)
        /\ reorg' = [prevTop |-> top, newTop |-> t, branch |-> BranchPoint(t, f),
                     hasNewTop |-> top # t]
        /\ phase' = IF PrevTopMet(t, f) THEN "put" ELSE "rebuild"
  BY DEF Organize
<1>2. /\ phase = "organize" /\ phase' \in {"put", "rebuild"} /\ PrevTop = top
      /\ top' = t /\ known' = known
      /\ IsHeaviest(t, top, sum[top], TracedSum(sum))
  BY <1>1 DEF Organize, OrganizePass, TopIdIsTop
<1>3. /\ Fields /\ SumOK(sum, hgt) /\ known \subseteq Block /\ Genesis \in known
      /\ top \in Block /\ t \in Block /\ f \in Block
      /\ sum \in [Block -> Int] /\ hgt \in [Block -> Int]
      /\ \A b \in Chain[top] : sum[b] # NoSum
  BY <1>2 DEF ChainInv, Fields, Whole
<1>4. Genesis \in Chain[top] /\ top \in Chain[top] /\ Genesis \in Block
  BY <1>3, BlockAssumption, ChainAssumption
<1>5. sum[Genesis] = ChainWork[Genesis] /\ sum[top] = ChainWork[top] /\ sum[top] # NoSum
  BY <1>3, <1>4 DEF SumOK
<1>6. /\ \A b \in known : Chain[b] \subseteq known => ChainWork[b] <= ChainWork[t]
      /\ Chain[t] \subseteq known
      /\ t # top => FirstHeaviest(t) /\ ChainWork[top] < ChainWork[t]
  BY <1>2, <1>3, <1>5, HeaviestLemma
<1>7. ChainInv'
  BY OrganizeStep
<1>8. Organised = Solved(sum) /\ Organised' = Attached(known)
  <2>1. Organised = Solved(sum)
    BY <1>2 DEF Organised
  <2>2. Organised' = Solved(sum)'
    BY <1>2 DEF Organised
  <2>3. Solved(sum)' = {b \in known : sum'[b] # NoSum}
    BY <1>2 DEF Solved
  <2>4. \A b \in known : Chain[b] \subseteq known => sum'[b] # NoSum
    BY HeldOrganize
  <2>5. \A b \in known : sum'[b] # NoSum => Chain[b] \subseteq known
    BY <1>2, <1>3, <1>7 DEF ChainInv, SumOK
  <2>6. Solved(sum)' = Attached(known)
    BY <2>3, <2>4, <2>5 DEF Attached
  <2> QED
    BY <2>1, <2>2, <2>6
<1>9. Solved(sum) \subseteq Attached(known)
  BY <1>3 DEF Solved, Attached, SumOK
<1>10. Attached(Attached(known)) = Attached(known)
  BY <1>3, AttachedClosed
<1>11. CurrentTop = top /\ CurrentTop' = t
  BY <1>2 DEF CurrentTop
<1>12. IsBest(t, Attached(known), top)
  BY <1>3, <1>6, HeaviestIsBest
<1>13. LastReorg' = reorg' /\ reorg'.prevTop = top /\ reorg'.newTop = t
       /\ reorg'.branch = BranchPoint(t, f)
  BY <1>1, <1>2 DEF LastReorg
<1>14. IF top \in Chain[t] THEN reorg'.branch = NoBlock
       ELSE reorg'.branch \in Block /\ Chain[top] \cap Chain[t] = Chain[reorg'.branch]
  <2>1. reorg'.branch # NoBlock => reorg'.branch \in Block
    BY <1>3, <1>13 DEF BranchPoint
  <2>2. CASE phase' = "put"
    BY <2>1, <2>2, <1>7, <1>13 DEF ChainInv, BranchPointIsFork
  <2>3. CASE phase' = "rebuild"
    BY <2>1, <2>3, <1>2, <1>7, <1>13 DEF ChainInv
  <2> QED
    BY <2>2, <2>3, <1>2
<1> QED
  BY <1>8, <1>9, <1>10, <1>11, <1>12, <1>13, <1>14, SameChoice DEF Promise!Update

(* A kill is a restart with the headers of the db that connect. *)
LEMMA PromiseCrash ==
    ASSUME ChainInv, HeldInv, Crash
    PROVE  Promise!Restart(Attached(InDb))
<1>1. phase' = "down" /\ UNCHANGED <<known, sum, dbHgt>>
  BY DEF Crash
<1>2. /\ InDb \subseteq known /\ known \subseteq Block /\ Genesis \in InDb
      /\ InDb \cup {Genesis} = InDb /\ InDb' = InDb
  BY <1>1 DEF HeldInv, ChainInv, Fields, InDb
<1>3. Attached(InDb) \subseteq Organised
  <2>1. CASE phase = "down"
    BY <2>1, <1>2 DEF Organised
  <2>2. CASE phase = "load"
    BY <2>2, <1>2 DEF Organised, Attached
  <2>3. CASE phase \notin {"down", "load"}
    <3>1. Organised = Solved(sum)
      BY <2>3 DEF Organised
    <3> QED
      BY <2>3, <3>1, <1>2 DEF HeldInv, Attached, Solved
  <2> QED
    BY <2>1, <2>2, <2>3
<1>4. Organised' = Attached(InDb)
  BY <1>1, <1>2 DEF Organised
<1>5. Genesis \in Attached(InDb) /\ Attached(InDb) \in SUBSET Block
  BY <1>2, StepAssumption DEF Attached
<1>6. Attached(Attached(InDb)) = Attached(InDb)
  BY <1>2, AttachedClosed
<1>7. CurrentTop' = CHOOSE t \in Attached(InDb) : IsBest(t, Attached(InDb), Genesis)
  BY <1>1, <1>4 DEF CurrentTop
<1>8. IsBest(CurrentTop', Attached(InDb), Genesis)
  BY <1>5, <1>7, BestExists
<1>9. LastReorg'.prevTop = Genesis /\ LastReorg'.branch = NoBlock
  BY <1>1 DEF LastReorg, NoReorg
<1> QED
  BY <1>3, <1>4, <1>5, <1>6, <1>8, <1>9, SameChoice DEF Promise!Restart

(* The load, and the pass over what it found, change nothing of this. *)
LEMMA PromiseLoad ==
    ASSUME LoadHeaders
    PROVE  UNCHANGED Promise!mainBranch
<1>1. /\ phase = "down" /\ phase' = "load" /\ known' = InDb \cup {Genesis}
      /\ reorg' = NoReorg
  BY DEF LoadHeaders
<1>2. Organised' = Organised
  BY <1>1 DEF Organised
<1>3. CurrentTop' = CurrentTop
  BY <1>1, <1>2 DEF CurrentTop
<1>4. LastReorg' = LastReorg
  BY <1>1 DEF LastReorg
<1> QED
  BY <1>2, <1>3, <1>4 DEF Promise!mainBranch

LEMMA PromiseForce ==
    ASSUME ChainInv, TopIdIsTop, HeldInv, ForceOrganize
    PROVE  UNCHANGED Promise!mainBranch
<1>1. PICK t \in known, f \in known :
        /\ OrganizePass(ResetSum, ResetHgt, {Genesis}, {Genesis}, ResetNext, t, f)
        /\ phase' = IF PrevTopMet(t, f) THEN "branching" ELSE phase
  BY DEF ForceOrganize, Rebuild
<1>2. /\ phase = "load" /\ phase' \in {"load", "branching"}
      /\ UNCHANGED <<file, known, dbHgt, reorg>>
  BY <1>1 DEF ForceOrganize
<1>3. /\ Fields /\ known \subseteq Block /\ Genesis \in known /\ PrevTop \in Block
  BY <1>2 DEF ChainInv, Fields, TopIdIsTop
<1>4. /\ SumOK(sum, hgt)' /\ top' = t
      /\ \A b \in known : Chain[b] \subseteq known => ChainWork[b] <= ChainWork[t]
      /\ Chain[t] \subseteq known
      /\ PrevTop # Genesis \/ t # Genesis => FirstHeaviest(t)
  BY <1>1, <1>2, <1>3, RebuildLemma
<1>5. Organised = Attached(known)
  BY <1>2 DEF Organised
<1>6. Organised' = Attached(known)
  <2>1. CASE phase' = "load"
    BY <2>1, <1>2 DEF Organised
  <2>2. CASE phase' = "branching"
    <3>1. Organised' = Solved(sum)'
      BY <2>2 DEF Organised
    <3>2. Solved(sum)' = {b \in known : sum'[b] # NoSum}
      BY <1>2 DEF Solved
    <3>3. \A b \in known : Chain[b] \subseteq known => sum'[b] # NoSum
      BY <1>3, HeldRebuild
    <3>4. \A b \in known : sum'[b] # NoSum => Chain[b] \subseteq known
      BY <1>2, <1>3, <1>4 DEF SumOK
    <3> QED
      BY <3>1, <3>2, <3>3, <3>4 DEF Attached
  <2> QED
    BY <2>1, <2>2, <1>2
<1>7. IsBest(t, Attached(known), Genesis)
  <2>1. Genesis \in Block /\ Genesis \in Chain[t] /\ t \in Block
    BY <1>3, BlockAssumption, ChainAssumption
  <2>2. t # Genesis => ChainWork[Genesis] < ChainWork[t]
    BY <2>1, ChainAssumption
  <2> QED
    BY <2>1, <2>2, <1>3, <1>4, HeaviestIsBest
<1>8. CurrentTop = CHOOSE u \in Attached(known) : IsBest(u, Attached(known), Genesis)
  BY <1>2, <1>5 DEF CurrentTop
<1>9. CurrentTop = t
  <2>1. Genesis \in Attached(known) /\ Attached(known) \in SUBSET Block
    BY <1>3, StepAssumption DEF Attached
  <2>2. t \in Attached(known)
    BY <1>7 DEF IsBest
  <2>3. IsBest(CurrentTop, Attached(known), Genesis)
    BY <2>2, <1>7, <1>8
  <2> QED
    BY <2>1, <2>3, <1>7, BestUnique
<1>10. CurrentTop' = t
  <2>1. CASE phase' = "load"
    <3>1. CurrentTop' = CHOOSE u \in Attached(known) : IsBest(u, Attached(known), Genesis)
      BY <2>1, <1>6 DEF CurrentTop
    <3> QED
      BY <3>1, <1>8, <1>9
  <2>2. CASE phase' = "branching"
    BY <2>2, <1>4 DEF CurrentTop
  <2> QED
    BY <2>1, <2>2, <1>2
<1>11. LastReorg' = LastReorg
  BY <1>2 DEF LastReorg
<1> QED
  BY <1>5, <1>6, <1>9, <1>10, <1>11 DEF Promise!mainBranch

(* The rebuild after a reorganisation ends where the pass before it did. *)
LEMMA PromiseRebuild ==
    ASSUME ChainInv, TopIdIsTop, HeldInv, RebuildAfterReorg
    PROVE  UNCHANGED Promise!mainBranch
<1>1. /\ phase = "rebuild" /\ phase' = "put" /\ top' = top /\ ChainInv'
      /\ known' = known
      /\ reorg' = [prevTop |-> reorg.prevTop, newTop |-> top', branch |-> reorg.branch,
                   hasNewTop |-> reorg.prevTop # top']
  BY RebuildStep DEF RebuildAfterReorg
<1>2. Fields /\ known \subseteq Block /\ SumOK(sum, hgt) /\ SumOK(sum, hgt)'
  BY <1>1 DEF ChainInv, Fields
<1>3. Organised = Attached(known)
  <2>1. Organised = Solved(sum)
    BY <1>1 DEF Organised
  <2>2. \A b \in known : Chain[b] \subseteq known => sum[b] # NoSum
    BY <1>1 DEF HeldInv
  <2> QED
    BY <2>1, <2>2, <1>2, SolvedAttached
<1>4. Organised' = Attached(known)
  <2>1. Organised' = {b \in known : sum'[b] # NoSum}
    BY <1>1 DEF Organised, Solved
  <2>2. \A b \in known : Chain[b] \subseteq known => sum'[b] # NoSum
    BY <1>2, HeldRebuild
  <2>3. \A b \in known : sum'[b] # NoSum => Chain[b] \subseteq known
    BY <1>1, <1>2 DEF SumOK
  <2> QED
    BY <2>1, <2>2, <2>3 DEF Attached
<1>5. CurrentTop = top /\ CurrentTop' = top
  BY <1>1 DEF CurrentTop
<1>6. LastReorg'.prevTop = LastReorg.prevTop /\ LastReorg'.branch = LastReorg.branch
  BY <1>1 DEF LastReorg
<1> QED
  BY <1>3, <1>4, <1>5, <1>6 DEF Promise!mainBranch

(* Parsing adds headers that have no sum yet; nothing else touches the choice. *)
LEMMA PromiseQuiet ==
    ASSUME ChainInv,
           \/ \E b \in Block \ {Genesis} : NodeWrites(b)
           \/ ParseBlocks \/ PutNewBareHeaders \/ UpdateBranchingMaps \/ RewindOffset
           \/ UNCHANGED vars
    PROVE  UNCHANGED Promise!mainBranch
<1>1. CASE \/ ParseBlocks \/ PutNewBareHeaders \/ UpdateBranchingMaps \/ RewindOffset
  <2>1. /\ phase \notin {"down", "load"} /\ phase' \notin {"down", "load"}
        /\ known \subseteq known' /\ UNCHANGED <<sum, top, reorg>>
    <3>1. CASE ParseBlocks
      BY <3>1 DEF ParseBlocks
    <3>2. CASE PutNewBareHeaders
      BY <3>2 DEF PutNewBareHeaders
    <3>3. CASE UpdateBranchingMaps \/ RewindOffset
      BY <3>3 DEF UpdateBranchingMaps, RewindOffset
    <3> QED
      BY <3>1, <3>2, <3>3, <1>1
  <2>2. known' \subseteq Block /\ known \subseteq Block
    <3>1. CASE ParseBlocks
      BY <3>1, ParseStep DEF ChainInv, Fields
    <3>2. CASE PutNewBareHeaders \/ UpdateBranchingMaps \/ RewindOffset
      BY <3>2, QuietStep DEF ChainInv, Fields
    <3> QED
      BY <3>1, <3>2, <1>1
  <2>3. \A b \in Block : sum[b] # NoSum => b \in known
    BY ChainAssumption DEF ChainInv, SumOK
  <2>4. Organised = Solved(sum) /\ Organised' = {b \in known' : sum[b] # NoSum}
    BY <2>1 DEF Organised, Solved
  <2>5. Organised' = Organised
    BY <2>1, <2>2, <2>3, <2>4 DEF Solved
  <2>6. CurrentTop' = CurrentTop
    BY <2>1 DEF CurrentTop
  <2>7. LastReorg' = LastReorg
    BY <2>1 DEF LastReorg
  <2> QED
    BY <2>5, <2>6, <2>7 DEF Promise!mainBranch
<1>2. CASE (\E b \in Block \ {Genesis} : NodeWrites(b)) \/ UNCHANGED vars
  <2>1. UNCHANGED <<phase, known, sum, top, reorg, dbHgt>>
    BY <1>2 DEF NodeWrites, vars
  <2>2. Organised' = Organised
    BY <2>1 DEF Organised, Solved, InDb
  <2>3. CurrentTop' = CurrentTop
    BY <2>1, <2>2 DEF CurrentTop
  <2>4. LastReorg' = LastReorg
    BY <2>1 DEF LastReorg
  <2> QED
    BY <2>2, <2>3, <2>4 DEF Promise!mainBranch
<1> QED
  BY <1>1, <1>2

LEMMA PromiseInit ==
    ASSUME Init
    PROVE  Promise!Init
<1>1. phase = "idle" /\ top = Genesis /\ reorg = NoReorg /\ known = {Genesis}
      /\ sum[Genesis] # NoSum
  BY BlockAssumption DEF Init, NoSum
<1>2. Organised = {Genesis}
  BY <1>1 DEF Organised, Solved
<1>3. CurrentTop = Genesis /\ LastReorg = NoReorg
  BY <1>1 DEF CurrentTop, LastReorg
<1> QED
  BY <1>2, <1>3 DEF Promise!Init, NoReorg

LEMMA PromiseStep ==
    ASSUME ChainInv, TopIdIsTop, HeldInv, [Next]_vars
    PROVE  [Promise!Next]_(Promise!mainBranch)
<1>1. CASE Organize
  <2>1. Attached(known) \in SUBSET Block
    BY DEF ChainInv, Fields, Attached
  <2> QED
    BY <2>1, <1>1, PromiseOrganize DEF Promise!Next
<1>2. CASE Crash
  <2>1. Attached(InDb) \in SUBSET Block
    BY DEF InDb, Attached
  <2> QED
    BY <2>1, <1>2, PromiseCrash DEF Promise!Next
<1>3. CASE LoadHeaders
  BY <1>3, PromiseLoad
<1>4. CASE ForceOrganize
  BY <1>4, PromiseForce
<1>5. CASE RebuildAfterReorg
  BY <1>5, PromiseRebuild
<1>6. CASE \/ \E b \in Block \ {Genesis} : NodeWrites(b)
           \/ ParseBlocks \/ PutNewBareHeaders \/ UpdateBranchingMaps \/ RewindOffset
           \/ UNCHANGED vars
  BY <1>6, PromiseQuiet
<1> QED
  BY <1>1, <1>2, <1>3, <1>4, <1>5, <1>6 DEF Next

(* As long as headersById_ answers topBlockId_ with the top block, blocks in any
   order, kills and restarts included, Blockchain does what MainBranch says: the
   top moves to a heavier chain only, the branch point is where the two chains
   part, and a restart comes back on the heaviest chain the db holds. *)
THEOREM RefinementUnlessIdsReused ==
    Spec /\ []TopIdIsTop => ImplementsMainBranch
<1>1. Init => ChainInv /\ HeldInv /\ Promise!Init
  BY ChainInit, HeldInit, PromiseInit
<1>2. ChainInv /\ HeldInv /\ TopIdIsTop /\ [Next]_vars => ChainInv' /\ HeldInv'
  BY ChainStep, HeldStep
<1>3. ChainInv /\ HeldInv /\ TopIdIsTop /\ [Next]_vars => [Promise!Next]_(Promise!mainBranch)
  BY PromiseStep
<1> QED
  BY <1>1, <1>2, <1>3, PTL DEF Spec, ImplementsMainBranch, Promise!Spec

(* One run of the server, blocks in any order: Blockchain implements MainBranch. *)
THEOREM BlockchainRefinement ==
    ASSUME MaxCrash = 0
    PROVE  Spec => ImplementsMainBranch
<1>1. Spec => []IdInv
  BY IdInit, IdStep, PTL DEF Spec
<1>2. IdInv => TopIdIsTop
  BY IdsName
<1> QED
  BY <1>1, <1>2, RefinementUnlessIdsReused, PTL

-----------------------------------------------------------------------------
(* Types, with kills, blocks in any order, and ids that may be reused *)

(* What the types rest on: headers in memory are in the block files and have an
   id, those in the db are in memory, and sums are unset or right. *)
KeptInv ==
    /\ InDb \subseteq known /\ Genesis \in InDb
    /\ \A b \in known : id[b] \in Ids /\ \E i \in DOMAIN file : file[i] = b
    /\ SumOK(sum, hgt)
    /\ phase \notin {"down", "load"} => sum[Genesis] = ChainWork[Genesis]
    /\ byHeight \in [Heights -> known \cup {NoBlock}]
    /\ phase = "undo" => reorg.branch # NoBlock

LEMMA KeptInit ==
    ASSUME Init
    PROVE  TypeOK /\ KeptInv
<1>1. /\ Genesis \in Block /\ MaxId \in Nat /\ Chain[Genesis] = {Genesis}
      /\ Height[Genesis] = 0 /\ ChainWork[Genesis] = 1
  BY BlockAssumption, StepAssumption, BlockchainBounds
<1>2. InDb = {Genesis} /\ 0 \in Ids
  BY <1>1 DEF Init, InDb, NoHeight, Ids
<1>3. file \in Seq(Block) /\ 1 \in DOMAIN file /\ file[1] = Genesis
  BY <1>1 DEF Init
<1>4. reorg \in [prevTop : Block, newTop : Block, branch : Block \cup {NoBlock},
                 hasNewTop : BOOLEAN]
  BY <1>1 DEF Init, NoReorg
<1>5. TypeOK
  <2>1. offset \in Nat /\ topId \in Nat /\ crashes \in Nat /\ boot \in BOOLEAN
    BY DEF Init
  <2>2. /\ known \subseteq Block /\ newly \subseteq known
        /\ finished \subseteq known /\ main \subseteq known
        /\ top \in Block /\ topBlockId \in Ids
    BY <1>1, <1>2 DEF Init
  <2>3. /\ id \in [Block -> Ids \cup {NoId}] /\ byId \in [Ids -> Block \cup {NoBlock}]
        /\ next \in [Block -> Block \cup {NoBlock}]
        /\ byHeight \in [Heights -> Block \cup {NoBlock}]
    BY <1>1, <1>2 DEF Init
  <2>4. /\ sum \in [Block -> Int] /\ hgt \in [Block -> Int] /\ dup \in [Block -> Int]
        /\ validDup \in [Heights -> Int] /\ dbHgt \in [Block -> Int]
    BY DEF Init, NoSum, NoHeight, NoDup
  <2>5. phase \in {"idle", "organize", "rebuild", "put", "undo", "down", "load",
                   "branching", "parse"}
    BY DEF Init
  <2> QED
    BY <2>1, <2>2, <2>3, <2>4, <2>5, <1>3, <1>4 DEF TypeOK
<1>6. SumOK(sum, hgt)
  BY <1>1 DEF Init, SumOK
<1>7. \A b \in known : id[b] \in Ids /\ \E i \in DOMAIN file : file[i] = b
  BY <1>1, <1>2, <1>3 DEF Init
<1> QED
  BY <1>1, <1>2, <1>5, <1>6, <1>7 DEF Init, KeptInv

(* A pass of organizeChain ends on a header that connects, so all it marks is
   known, whatever headersById_ answered for the previous top. *)
LEMMA KeptPass ==
    ASSUME TypeOK, KeptInv,
           NEW s \in [Block -> Int], NEW h \in [Block -> Int],
           NEW fin \in SUBSET known, NEW m \in SUBSET known,
           NEW n \in [Block -> Block \cup {NoBlock}],
           NEW t \in known, NEW f \in known,
           SumOK(s, h), s[Genesis] = ChainWork[Genesis],
           OrganizePass(s, h, fin, m, n, t, f)
    PROVE  /\ sum' \in [Block -> Int] /\ hgt' \in [Block -> Int]
           /\ finished' \subseteq known /\ main' \subseteq known
           /\ next' \in [Block -> Block \cup {NoBlock}]
           /\ byHeight' \in [Heights -> known \cup {NoBlock}]
           /\ top' = t /\ topBlockId' \in Ids
           /\ SumOK(sum', hgt') /\ sum'[Genesis] = ChainWork[Genesis]
<1>1. /\ known \subseteq Block /\ Genesis \in known /\ Genesis \in Block
      /\ byId \in [Ids -> Block \cup {NoBlock}]
      /\ byHeight \in [Heights -> known \cup {NoBlock}]
      /\ \A b \in known : id[b] \in Ids
  BY BlockAssumption DEF TypeOK, KeptInv
<1>2. PrevTop \in Block
  BY <1>1 DEF PrevTop
<1>3. /\ IsHeaviest(t, PrevTop, s[PrevTop], TracedSum(s))
      /\ FirstMet(f, t, fin)
      /\ sum' = TracedSum(s) /\ hgt' = TracedHgt(s, h)
      /\ finished' = fin \cup Above(f, t)
      /\ main' = m \cup Above(f, t) \cup {f}
      /\ next' = MarkedNext(t, f, n)
      /\ byHeight' = MarkedByHeight(t, f, TracedHgt(s, h))
      /\ top' = t /\ topBlockId' = id[t]
  BY DEF OrganizePass
<1>4. Chain[t] \subseteq known
  BY <1>1, <1>2, <1>3, HeaviestLemma
<1>5. /\ sum' \in [Block -> Int] /\ hgt' \in [Block -> Int]
      /\ SumOK(sum', hgt')
      /\ \A b \in Block : s[b] # NoSum => sum'[b] = s[b]
  BY <1>1, <1>3, TraceLemma
<1>6. sum'[Genesis] = ChainWork[Genesis]
  BY <1>1, <1>5, StepAssumption DEF NoSum
<1>7. Above(f, t) \subseteq known
  BY <1>4 DEF Above
<1>8. next' \in [Block -> Block \cup {NoBlock}]
  <2>1. \A b \in Block : (\E c \in Above(f, t) : Parent[c] = b) =>
          (CHOOSE c \in Above(f, t) : Parent[c] = b) \in Block
    BY <1>1, <1>7
  <2> QED
    BY <2>1, <1>3 DEF MarkedNext
<1>9. byHeight' \in [Heights -> known \cup {NoBlock}]
  <2> DEFINE h1 == TracedHgt(s, h)
  <2>1. \A k \in Heights : (\E c \in Above(f, t) \cup {f} : h1[c] = k) =>
          (CHOOSE c \in Above(f, t) \cup {f} : h1[c] = k) \in known
    BY <1>7
  <2> HIDE DEF h1
  <2> QED
    BY <2>1, <1>1, <1>3 DEF MarkedByHeight, h1
<1> QED
  BY <1>1, <1>3, <1>5, <1>6, <1>7, <1>8, <1>9

LEMMA KeptOrganize ==
    ASSUME TypeOK, KeptInv, Organize
    PROVE  TypeOK' /\ KeptInv'
<1>1. PICK t \in known, f \in known :
        /\ OrganizePass(sum, hgt, finished, main, next, t, f)
        /\ reorg' = [prevTop |-> top, newTop |-> t, branch |-> BranchPoint(t, f),
                     hasNewTop |-> top # t]
        /\ phase' = IF PrevTopMet(t, f) THEN "put" ELSE "rebuild"
  BY DEF Organize
<1>2. /\ phase = "organize" /\ phase' \in {"put", "rebuild"}
      /\ UNCHANGED <<file, offset, known, id, byId, topId, newly, dup, validDup,
                     dbHgt, boot, crashes>>
  BY <1>1 DEF Organize
<1>3. /\ known \subseteq Block /\ top \in Block /\ t \in Block /\ f \in Block
  BY DEF TypeOK
<1>4. /\ sum' \in [Block -> Int] /\ hgt' \in [Block -> Int]
      /\ finished' \subseteq known /\ main' \subseteq known
      /\ next' \in [Block -> Block \cup {NoBlock}]
      /\ byHeight' \in [Heights -> known \cup {NoBlock}]
      /\ top' = t /\ topBlockId' \in Ids
      /\ SumOK(sum', hgt') /\ sum'[Genesis] = ChainWork[Genesis]
  <2>1. /\ sum \in [Block -> Int] /\ hgt \in [Block -> Int]
        /\ finished \in SUBSET known /\ main \in SUBSET known
        /\ next \in [Block -> Block \cup {NoBlock}]
        /\ SumOK(sum, hgt) /\ sum[Genesis] = ChainWork[Genesis]
    BY <1>2 DEF TypeOK, KeptInv
  <2> QED
    BY <2>1, <1>1, KeptPass
<1>5. reorg' \in [prevTop : Block, newTop : Block, branch : Block \cup {NoBlock},
                  hasNewTop : BOOLEAN]
  BY <1>1, <1>3 DEF BranchPoint
<1>6. TypeOK'
  BY <1>2, <1>3, <1>4, <1>5 DEF TypeOK
<1>7. InDb' = InDb
  BY <1>2 DEF InDb
<1>8. SumOK(sum, hgt)'
  BY <1>2, <1>4 DEF SumOK
<1> QED
  BY <1>2, <1>4, <1>6, <1>7, <1>8 DEF KeptInv

LEMMA KeptRebuild ==
    ASSUME TypeOK, KeptInv, RebuildAfterReorg \/ ForceOrganize
    PROVE  TypeOK' /\ KeptInv'
<1>1. PICK t \in known, f \in known :
        OrganizePass(ResetSum, ResetHgt, {Genesis}, {Genesis}, ResetNext, t, f)
  BY DEF RebuildAfterReorg, ForceOrganize, Rebuild
<1>2. /\ phase' \in {"put", "rebuild", "load", "branching"}
      /\ UNCHANGED <<file, offset, known, id, byId, topId, newly, dup, validDup,
                     dbHgt, boot, crashes>>
  BY DEF RebuildAfterReorg, ForceOrganize, Rebuild
<1>3. /\ known \subseteq Block /\ Genesis \in known /\ t \in Block /\ Genesis \in Block
      /\ hgt \in [Block -> Int] /\ top \in Block
  BY BlockAssumption DEF TypeOK, KeptInv
<1>4. /\ ResetSum \in [Block -> Int] /\ ResetHgt \in [Block -> Int]
      /\ SumOK(ResetSum, ResetHgt)
      /\ ResetSum[Genesis] = ChainWork[Genesis]
      /\ ResetNext \in [Block -> Block \cup {NoBlock}]
  <2>1. Chain[Genesis] = {Genesis} /\ Height[Genesis] = 0 /\ ChainWork[Genesis] = 1
    BY StepAssumption
  <2> QED
    BY <2>1, <1>3 DEF ResetSum, ResetHgt, ResetNext, SumOK, NoSum
<1>5. /\ sum' \in [Block -> Int] /\ hgt' \in [Block -> Int]
      /\ finished' \subseteq known /\ main' \subseteq known
      /\ next' \in [Block -> Block \cup {NoBlock}]
      /\ byHeight' \in [Heights -> known \cup {NoBlock}]
      /\ top' = t /\ topBlockId' \in Ids
      /\ SumOK(sum', hgt') /\ sum'[Genesis] = ChainWork[Genesis]
  <2>1. {Genesis} \in SUBSET known
    BY <1>3
  <2> QED
    BY <2>1, <1>1, <1>4, KeptPass
<1>6. reorg' \in [prevTop : Block, newTop : Block, branch : Block \cup {NoBlock},
                  hasNewTop : BOOLEAN]
  <2>1. reorg' = reorg \/ reorg' = [prevTop |-> reorg.prevTop, newTop |-> top',
          branch |-> reorg.branch, hasNewTop |-> reorg.prevTop # top']
    BY DEF RebuildAfterReorg, ForceOrganize
  <2>2. reorg.prevTop \in Block /\ reorg.branch \in Block \cup {NoBlock}
    BY DEF TypeOK
  <2>3. CASE reorg' = reorg
    BY <2>3 DEF TypeOK
  <2>4. CASE reorg' # reorg
    <3>1. top' \in Block
      BY <1>3, <1>5
    <3> DEFINE moved == reorg.prevTop # top'
               r == [prevTop |-> reorg.prevTop, newTop |-> top',
                     branch |-> reorg.branch, hasNewTop |-> moved]
    <3>2. moved \in BOOLEAN
      OBVIOUS
    <3>3. reorg' = r
      BY <2>1, <2>4
    <3> HIDE DEF moved
    <3>4. r \in [prevTop : Block, newTop : Block, branch : Block \cup {NoBlock},
                 hasNewTop : BOOLEAN]
      BY <2>2, <3>1, <3>2
    <3> QED
      BY <3>3, <3>4
  <2> QED
    BY <2>3, <2>4
<1>7. TypeOK'
  BY <1>2, <1>3, <1>5, <1>6 DEF TypeOK
<1>8. InDb' = InDb
  BY <1>2 DEF InDb
<1>9. SumOK(sum, hgt)'
  BY <1>2, <1>5 DEF SumOK
<1> QED
  BY <1>2, <1>5, <1>7, <1>8, <1>9 DEF KeptInv
(* The ids a parse hands out are ids, and its headers come from the files. *)
LEMMA KeptParse ==
    ASSUME TypeOK, KeptInv, ParseBlocks
    PROVE  TypeOK' /\ KeptInv'
<1> DEFINE ps == {i \in DOMAIN file : i > offset}
           fresh == {i \in ps : file[i] \notin known}
<1>1. PICK f \in IdAssignments(ps) :
        /\ id' = [b \in Block |->
                    IF \E i \in fresh : file[i] = b
                    THEN f[CHOOSE i \in ps : file[i] = b] ELSE id[b]]
        /\ byId' = [n \in Ids |->
                    IF {i \in fresh : f[i] = n} # {}
                    THEN file[CHOOSE i \in fresh : f[i] = n]
                    ELSE byId[n]]
  BY DEF ParseBlocks
<1>2. /\ topId + Cardinality(ps) <= MaxId /\ topId' = topId + Cardinality(ps)
      /\ known' = known \cup {file[i] : i \in fresh}
      /\ newly' = newly \cup {file[i] : i \in fresh}
      /\ offset' = Len(file)
      /\ phase \in {"idle", "parse"} /\ phase' = "organize"
      /\ UNCHANGED <<file, sum, hgt, finished, main, next, byHeight, top,
                     topBlockId, dup, validDup, dbHgt, boot, reorg, crashes>>
  BY DEF ParseBlocks
<1>3. /\ file \in Seq(Block) /\ topId \in Nat /\ known \subseteq Block
      /\ id \in [Block -> Ids \cup {NoId}] /\ byId \in [Ids -> Block \cup {NoBlock}]
  BY DEF TypeOK
<1>4. DOMAIN file = 1..Len(file) /\ Len(file) \in Nat /\ \A i \in DOMAIN file : file[i] \in Block
  BY <1>3
<1>5. Cardinality(ps) \in Nat
  <2>1. IsFiniteSet(1..Len(file))
    BY <1>4, FS_Interval
  <2>2. ps \subseteq 1..Len(file)
    BY <1>4
  <2> QED
    BY <2>1, <2>2, FS_Subset, FS_CardinalityType
<1>6. \A i \in ps : f[i] \in Ids
  <2>1. f \in [ps -> topId..(topId + Cardinality(ps) - 1)]
    BY DEF IdAssignments
  <2>2. \A k \in topId..(topId + Cardinality(ps) - 1) : k \in Ids
    BY <1>2, <1>3, <1>5, BlockchainBounds DEF Ids
  <2> QED
    BY <2>1, <2>2
<1>7. ASSUME NEW b \in Block, \E i \in fresh : file[i] = b
      PROVE  f[CHOOSE i \in ps : file[i] = b] \in Ids
  <2>1. (CHOOSE i \in ps : file[i] = b) \in ps
    BY <1>7
  <2> QED
    BY <2>1, <1>6
<1>8. id' \in [Block -> Ids \cup {NoId}]
  BY <1>1, <1>3, <1>7
<1>9. ASSUME NEW b \in known'
      PROVE  id'[b] \in Ids /\ \E i \in DOMAIN file : file[i] = b
  <2>1. CASE \E i \in fresh : file[i] = b
    <3>1. b \in Block
      BY <2>1, <1>4
    <3> QED
      BY <2>1, <3>1, <1>1, <1>7
  <2>2. CASE ~\E i \in fresh : file[i] = b
    <3>1. b \in known /\ b \in Block
      BY <2>2, <1>2, <1>3
    <3> QED
      BY <2>2, <3>1, <1>1 DEF KeptInv
  <2> QED
    BY <2>1, <2>2
<1>10. byId' \in [Ids -> Block \cup {NoBlock}]
  <2>1. ASSUME NEW n \in Ids, {i \in fresh : f[i] = n} # {}
        PROVE  file[CHOOSE i \in fresh : f[i] = n] \in Block
    <3>1. (CHOOSE i \in fresh : f[i] = n) \in fresh
      BY <2>1
    <3> QED
      BY <3>1, <1>4
  <2> QED
    BY <2>1, <1>1, <1>3
<1>11. known' \subseteq Block /\ newly' \subseteq known' /\ known \subseteq known'
  <2>1. newly \subseteq known
    BY DEF TypeOK
  <2>2. \A i \in fresh : file[i] \in Block
    BY <1>4
  <2> HIDE DEF fresh
  <2> QED
    BY <2>1, <2>2, <1>2, <1>3
<1>12. topId' \in Nat /\ offset' \in Nat
  BY <1>2, <1>3, <1>4, <1>5
<1> HIDE DEF ps, fresh
<1>13. TypeOK'
  <2>1. /\ finished' \subseteq known' /\ main' \subseteq known'
    BY <1>2, <1>11 DEF TypeOK
  <2> QED
    BY <2>1, <1>2, <1>8, <1>10, <1>11, <1>12 DEF TypeOK
<1>14. InDb' = InDb
  BY <1>2 DEF InDb
<1>15. SumOK(sum, hgt)'
  BY <1>2, <1>11 DEF KeptInv, SumOK
<1>16. byHeight' \in [Heights -> known' \cup {NoBlock}]
  BY <1>2, <1>11 DEF KeptInv
<1> QED
  BY <1>2, <1>9, <1>11, <1>13, <1>14, <1>15, <1>16 DEF KeptInv

LEMMA KeptPut ==
    ASSUME TypeOK, KeptInv, PutNewBareHeaders
    PROVE  TypeOK' /\ KeptInv'
<1>1. PICK d \in NewDups :
        /\ dup' = [b \in Block |-> IF b \in Puttable THEN d[b] ELSE dup[b]]
        /\ validDup' = [k \in Heights |->
              IF \E b \in Puttable \cap main : hgt[b] = k
              THEN d[CHOOSE b \in Puttable \cap main : hgt[b] = k]
              ELSE validDup[k]]
  BY DEF PutNewBareHeaders
<1>2. /\ phase = "put" /\ phase' = IF Undoes THEN "undo" ELSE "idle"
      /\ boot' = (boot /\ Undoes)
      /\ dbHgt' = [b \in Block |-> IF b \in Puttable THEN hgt[b] ELSE dbHgt[b]]
      /\ newly' = newly \ Puttable
      /\ UNCHANGED <<file, offset, known, id, byId, topId, sum, hgt, finished,
                     main, next, byHeight, top, topBlockId, reorg, crashes>>
  BY DEF PutNewBareHeaders
<1>3. /\ known \subseteq Block /\ newly \subseteq known /\ hgt \in [Block -> Int]
      /\ dbHgt \in [Block -> Int] /\ dup \in [Block -> Int]
      /\ validDup \in [Heights -> Int]
  BY DEF TypeOK
<1>4. \A b \in Puttable : b \in newly /\ hgt[b] # NoHeight /\ d[b] \in Int
  BY DEF Puttable, NewDups
<1>5. dup' \in [Block -> Int]
  BY <1>1, <1>3, <1>4
<1>6. validDup' \in [Heights -> Int]
  <2>1. ASSUME NEW k \in Heights, \E b \in Puttable \cap main : hgt[b] = k
        PROVE  d[CHOOSE b \in Puttable \cap main : hgt[b] = k] \in Int
    <3>1. (CHOOSE b \in Puttable \cap main : hgt[b] = k) \in Puttable
      BY <2>1
    <3> QED
      BY <3>1, <1>4
  <2> QED
    BY <2>1, <1>1, <1>3
<1>7. dbHgt' \in [Block -> Int]
  BY <1>2, <1>3
<1>8. boot' \in BOOLEAN
  BY <1>2
<1>9. phase' \in {"undo", "idle"}
  BY <1>2
<1>10. TypeOK'
  <2>1. newly' \subseteq known
    BY <1>2, <1>3
  <2> QED
    BY <2>1, <1>2, <1>5, <1>6, <1>7, <1>8, <1>9 DEF TypeOK
<1>11. InDb \subseteq InDb' /\ InDb' \subseteq known
  BY <1>2, <1>3, <1>4 DEF InDb, KeptInv
<1>12. phase' = "undo" => reorg.branch # NoBlock
  BY <1>2 DEF Undoes
<1>13. SumOK(sum, hgt)'
  BY <1>2 DEF KeptInv, SumOK
<1> QED
  BY <1>2, <1>9, <1>10, <1>11, <1>12, <1>13 DEF KeptInv

(* updateBranchingMaps, for either of its callers. *)
LEMMA BranchedTyped ==
    ASSUME TypeOK, NEW from \in Block, NEW to \in Block
    PROVE  BranchedDup(from, to) \in [Heights -> Int]
<1> DEFINE walk == Above(from, to) \cup {from}
<1>1. walk \subseteq Block
  BY BlockAssumption DEF Above
<1>2. \A k \in Heights : (\E b \in walk : hgt[b] = k) =>
        (CHOOSE b \in walk : hgt[b] = k) \in Block
  BY <1>1
<1>3. dup \in [Block -> Int] /\ validDup \in [Heights -> Int]
  BY DEF TypeOK
<1> HIDE DEF walk
<1> QED
  BY <1>2, <1>3 DEF BranchedDup, walk

LEMMA KeptUndo ==
    ASSUME TypeOK, KeptInv, UpdateBranchingMaps
    PROVE  TypeOK' /\ KeptInv'
<1>1. /\ phase = "undo" /\ phase' = "idle" /\ boot' = FALSE
      /\ validDup' = BranchedDup(reorg.branch, reorg.newTop)
      /\ UNCHANGED <<file, offset, known, id, byId, topId, newly, sum, hgt,
                     finished, main, next, byHeight, top, topBlockId, dup, dbHgt,
                     reorg, crashes>>
  BY DEF UpdateBranchingMaps
<1>2. reorg.branch \in Block /\ reorg.newTop \in Block
  BY <1>1 DEF TypeOK, KeptInv
<1>3. validDup' \in [Heights -> Int]
  BY <1>1, <1>2, BranchedTyped
<1>4. TypeOK'
  BY <1>1, <1>3 DEF TypeOK
<1>5. InDb' = InDb
  BY <1>1 DEF InDb
<1>6. SumOK(sum, hgt)'
  BY <1>1 DEF KeptInv, SumOK
<1> QED
  BY <1>1, <1>4, <1>5, <1>6 DEF KeptInv
(* Of a set of blocks one has the last hash. *)
LEMMA LastHash ==
    ASSUME NEW S \in SUBSET Block, S # {}
    PROVE  \E b \in S : \A c \in S : Rank[c] <= Rank[b]
<1> DEFINE over(b) == {c \in S : Rank[c] > Rank[b]}
           sizes == {n \in Nat : \E b \in S : Cardinality(over(b)) = n}
<1>1. \A b \in S : Rank[b] \in Nat
  BY BlockAssumption
<1>2. \A T \in SUBSET S : IsFiniteSet(T) /\ Cardinality(T) \in Nat
  BY FiniteAssumption, FS_Subset, FS_CardinalityType
<1>3. sizes \in SUBSET Nat /\ sizes # {}
  BY <1>2
<1>4. PICK n \in sizes : \A k \in sizes : n <= k
  BY <1>3, LeastNatural
<1>5. PICK b \in S : Cardinality(over(b)) = n
  BY <1>4
<1>6. ASSUME NEW c \in S, Rank[c] > Rank[b]
      PROVE  FALSE
  <2>1. over(c) \subseteq over(b) /\ c \in over(b) /\ c \notin over(c)
    BY <1>1, <1>6
  <2>2. /\ Cardinality(over(c)) \in Nat /\ Cardinality(over(b)) \in Nat
        /\ IsFiniteSet(over(b))
    BY <1>2
  <2>3. n <= Cardinality(over(c))
    BY <2>2, <1>4
  <2> HIDE DEF over
  <2>4. /\ Cardinality(over(c)) <= Cardinality(over(b))
        /\ Cardinality(over(b)) = Cardinality(over(c)) => over(b) = over(c)
    BY <2>1, <2>2, FS_Subset
  <2>5. Cardinality(over(b)) = Cardinality(over(c))
    BY <2>2, <2>3, <2>4, <1>5
  <2> QED
    BY <2>1, <2>4, <2>5
<1> QED
  BY <1>1, <1>6

LEMMA KeptLoad ==
    ASSUME TypeOK, KeptInv, LoadHeaders
    PROVE  TypeOK' /\ KeptInv'
<1> DEFINE At(n, b) == id[b] = n /\ \A c \in InDb : id[c] = n => Rank[c] <= Rank[b]
           Highest(n) == (\E b \in InDb : id[b] = n) /\ \A b \in InDb : id[b] <= n
<1>1. /\ known' = InDb \cup {Genesis} /\ newly' = {}
      /\ id' = [b \in Block |-> IF b \in InDb THEN id[b] ELSE NoId]
      /\ sum' = [b \in Block |-> NoSum]
      /\ hgt' = [b \in Block |-> dbHgt[b]]
      /\ finished' = {} /\ main' = {}
      /\ next' = [b \in Block |-> NoBlock]
      /\ byHeight' = [k \in Heights |-> NoBlock]
      /\ top' = Genesis /\ topBlockId' = 0
      /\ dup' = [b \in Block |-> IF b \in InDb THEN dup[b] ELSE NoDup]
      /\ validDup' = [k \in Heights |-> NoDup]
      /\ reorg' = NoReorg /\ boot' = TRUE /\ phase' = "load"
      /\ UNCHANGED <<file, offset, dbHgt, crashes>>
  BY DEF LoadHeaders
<1>2. byId' = [n \in Ids |-> IF \E b \in InDb : id[b] = n
                             THEN CHOOSE b \in InDb : At(n, b) ELSE NoBlock]
  BY DEF LoadHeaders
<1>3. topId' = CHOOSE n \in Ids : Highest(n)
  BY DEF LoadHeaders
<1>4. /\ InDb \subseteq known /\ Genesis \in InDb /\ known \subseteq Block
      /\ Genesis \in Block /\ InDb \subseteq Block
      /\ \A b \in InDb : id[b] \in Ids /\ \E i \in DOMAIN file : file[i] = b
  BY BlockAssumption DEF KeptInv, TypeOK
<1>5. byId' \in [Ids -> Block \cup {NoBlock}]
  <2>1. ASSUME NEW n \in Ids, \E b \in InDb : id[b] = n
        PROVE  (CHOOSE b \in InDb : At(n, b)) \in Block
    <3> DEFINE S == {b \in InDb : id[b] = n}
    <3>1. S \in SUBSET Block /\ S # {}
      BY <2>1, <1>4
    <3>2. PICK b \in S : \A c \in S : Rank[c] <= Rank[b]
      BY <3>1, LastHash
    <3>3. b \in InDb /\ At(n, b)
      BY <3>2
    <3> HIDE DEF At
    <3>4. (CHOOSE x \in InDb : At(n, x)) \in InDb
      BY <3>3
    <3> QED
      BY <3>4, <1>4
  <2> HIDE DEF At
  <2> QED
    BY <2>1, <1>2
<1>6. topId' \in Nat
  <2> DEFINE T == {id[b] : b \in InDb}
  <2>1. MaxId \in Nat /\ T \in SUBSET (0..MaxId) /\ T # {}
    BY <1>4, BlockchainBounds DEF Ids
  <2>2. PICK n \in T : \A k \in T : k <= n
    BY <2>1, GreatestBelow
  <2>3. n \in Ids /\ Highest(n)
    BY <2>1, <2>2 DEF Ids
  <2> HIDE DEF Highest
  <2>4. topId' \in Ids
    BY <2>3, <1>3
  <2> QED
    BY <2>1, <2>4 DEF Ids
<1> HIDE DEF At, Highest
<1>7. InDb' = InDb
  BY <1>1 DEF InDb
<1>8. \A b \in known' : id'[b] \in Ids /\ \E i \in DOMAIN file' : file'[i] = b
  BY <1>1, <1>4
<1>9. SumOK(sum, hgt)'
  BY <1>1 DEF SumOK
<1>10. TypeOK'
  <2>1. reorg' \in [prevTop : Block, newTop : Block, branch : Block \cup {NoBlock},
                    hasNewTop : BOOLEAN]
    BY <1>1, <1>4 DEF NoReorg
  <2>2. 0 \in Ids
    BY BlockchainBounds DEF Ids
  <2>3. /\ id' \in [Block -> Ids \cup {NoId}] /\ dup' \in [Block -> Int]
        /\ hgt' \in [Block -> Int] /\ sum' \in [Block -> Int]
        /\ validDup' \in [Heights -> Int]
    <3>1. dup \in [Block -> Int] /\ dbHgt \in [Block -> Int]
      BY DEF TypeOK
    <3>2. NoDup \in Int /\ NoSum \in Int
      BY DEF NoDup, NoSum
    <3>3. id' \in [Block -> Ids \cup {NoId}]
      BY <1>1, <1>4
    <3> QED
      BY <3>1, <3>2, <3>3, <1>1
  <2>4. /\ known' \subseteq Block /\ newly' \subseteq known'
        /\ finished' \subseteq known' /\ main' \subseteq known'
        /\ next' \in [Block -> Block \cup {NoBlock}]
        /\ byHeight' \in [Heights -> Block \cup {NoBlock}]
        /\ top' \in Block /\ topBlockId' \in Ids
    BY <2>2, <1>1, <1>4
  <2>5. boot' \in BOOLEAN
    BY <1>1
  <2>6. UNCHANGED <<file, offset, dbHgt, crashes>> /\ phase' = "load"
    BY <1>1
  <2> QED
    BY <2>1, <2>3, <2>4, <2>5, <2>6, <1>5, <1>6 DEF TypeOK
<1>11. byHeight' \in [Heights -> known' \cup {NoBlock}]
  BY <1>1
<1> QED
  BY <1>1, <1>4, <1>7, <1>8, <1>9, <1>10, <1>11 DEF KeptInv

LEMMA KeptRewind ==
    ASSUME TypeOK, KeptInv, RewindOffset
    PROVE  TypeOK' /\ KeptInv'
<1> DEFINE h == IF hgt[top] > Rewind THEN hgt[top] - Rewind ELSE 1
           Last(i) == file[i] \in InDb /\ \A j \in DOMAIN file : file[j] \in InDb => j <= i
           last == CHOOSE i \in DOMAIN file : Last(i)
<1>1. /\ phase = "branching" /\ phase' = "parse" /\ validDup' = BranchedDup(Genesis, top)
      /\ UNCHANGED <<file, known, id, byId, topId, newly, sum, hgt, finished, main,
                     next, byHeight, top, topBlockId, dup, dbHgt, boot, reorg, crashes>>
  BY DEF RewindOffset
<1>2. offset' = IF h \in Heights /\ byHeight[h] # NoBlock
                THEN PosInFile(byHeight[h]) ELSE last
  BY DEF RewindOffset
<1>3. /\ file \in Seq(Block) /\ Len(file) \in Nat /\ DOMAIN file = 1..Len(file)
      /\ Genesis \in InDb /\ InDb \subseteq known
      /\ byHeight \in [Heights -> known \cup {NoBlock}]
      /\ \A b \in known : \E i \in DOMAIN file : file[i] = b
  <2>1. file \in Seq(Block)
    BY DEF TypeOK
  <2>2. Len(file) \in Nat /\ DOMAIN file = 1..Len(file)
    BY <2>1
  <2> QED
    BY <2>1, <2>2 DEF KeptInv
<1> HIDE DEF h
<1>4. offset' \in DOMAIN file
  <2>1. CASE h \in Heights /\ byHeight[h] # NoBlock
    <3>1. byHeight[h] \in known
      BY <2>1, <1>3
    <3>2. \E i \in DOMAIN file : file[i] = byHeight[h]
      BY <3>1, <1>3
    <3>3. offset' = CHOOSE i \in DOMAIN file : file[i] = byHeight[h]
      BY <2>1, <1>2 DEF PosInFile
    <3> QED
      BY <3>2, <3>3
  <2>2. CASE ~(h \in Heights /\ byHeight[h] # NoBlock)
    <3> DEFINE T == {i \in DOMAIN file : file[i] \in InDb}
    <3>1. T \in SUBSET (0..Len(file)) /\ T # {}
      BY <1>3
    <3>2. PICK x \in T : \A y \in T : y <= x
      BY <3>1, <1>3, GreatestBelow
    <3>3. x \in DOMAIN file /\ Last(x)
      BY <3>2
    <3> HIDE DEF Last
    <3>4. last \in DOMAIN file
      BY <3>3
    <3> QED
      BY <2>2, <3>4, <1>2
  <2> QED
    BY <2>1, <2>2
<1> HIDE DEF last, Last
<1>5. offset' \in Nat
  BY <1>3, <1>4
<1>6. validDup' \in [Heights -> Int]
  BY <1>1, BranchedTyped, BlockAssumption DEF TypeOK
<1>7. TypeOK'
  BY <1>1, <1>5, <1>6 DEF TypeOK
<1>8. InDb' = InDb
  BY <1>1 DEF InDb
<1>9. SumOK(sum, hgt)'
  BY <1>1 DEF KeptInv, SumOK
<1> QED
  BY <1>1, <1>7, <1>8, <1>9 DEF KeptInv

LEMMA KeptQuiet ==
    ASSUME TypeOK, KeptInv,
           (\E b \in Block \ {Genesis} : NodeWrites(b)) \/ Crash \/ UNCHANGED vars
    PROVE  TypeOK' /\ KeptInv'
<1>1. UNCHANGED <<offset, known, id, byId, topId, newly, sum, hgt, finished,
                  main, next, byHeight, top, topBlockId, dup, validDup, dbHgt,
                  boot, reorg>>
  BY DEF NodeWrites, Crash, vars
<1>2. /\ phase' = phase \/ phase' = "down"
      /\ crashes' = crashes \/ crashes' = crashes + 1
      /\ file' = file \/ \E b \in Block \ {Genesis} : file' = Append(file, b)
  BY DEF NodeWrites, Crash, vars
<1>3. file \in Seq(Block) /\ crashes \in Nat
  BY DEF TypeOK
<1>4. /\ file' \in Seq(Block) /\ crashes' \in Nat
      /\ \A i \in DOMAIN file : i \in DOMAIN file' /\ file'[i] = file[i]
  BY <1>2, <1>3
<1>5. TypeOK'
  BY <1>1, <1>2, <1>4 DEF TypeOK
<1>6. InDb' = InDb
  BY <1>1 DEF InDb
<1>7. SumOK(sum, hgt)'
  BY <1>1 DEF KeptInv, SumOK
<1>8. \A b \in known' : id'[b] \in Ids /\ \E i \in DOMAIN file' : file'[i] = b
  <2> SUFFICES ASSUME NEW b \in known PROVE id[b] \in Ids /\ \E i \in DOMAIN file' : file'[i] = b
    BY <1>1
  <2>1. id[b] \in Ids /\ \E i \in DOMAIN file : file[i] = b
    BY DEF KeptInv
  <2> QED
    BY <2>1, <1>4
<1> QED
  BY <1>1, <1>2, <1>5, <1>6, <1>7, <1>8 DEF KeptInv

LEMMA KeptStep ==
    ASSUME TypeOK, KeptInv, [Next]_vars
    PROVE  TypeOK' /\ KeptInv'
<1>1. CASE ParseBlocks
  BY <1>1, KeptParse
<1>2. CASE Organize
  BY <1>2, KeptOrganize
<1>3. CASE RebuildAfterReorg \/ ForceOrganize
  BY <1>3, KeptRebuild
<1>4. CASE PutNewBareHeaders
  BY <1>4, KeptPut
<1>5. CASE UpdateBranchingMaps
  BY <1>5, KeptUndo
<1>6. CASE LoadHeaders
  BY <1>6, KeptLoad
<1>7. CASE RewindOffset
  BY <1>7, KeptRewind
<1>8. CASE (\E b \in Block \ {Genesis} : NodeWrites(b)) \/ Crash \/ UNCHANGED vars
  BY <1>8, KeptQuiet
<1> QED
  BY <1>1, <1>2, <1>3, <1>4, <1>5, <1>6, <1>7, <1>8 DEF Next

(* Blocks in any order, any number of kills, ids reused or not: what the main
   branch, the height index and the new headers name is a known header, the
   search for the top of the ids and the rewind find what they look for, and no
   field leaves its type. *)
THEOREM HeadersTyped == Spec => []TypeOK
<1>1. Init => TypeOK /\ KeptInv
  BY KeptInit
<1>2. TypeOK /\ KeptInv /\ [Next]_vars => TypeOK' /\ KeptInv'
  BY KeptStep
<1> QED
  BY <1>1, <1>2, PTL DEF Spec

==============================================================================
