-------------------------- MODULE ChainTree_proofs --------------------------
(***************************************************************************)
(* What the proofs about Blockchain and BlockHistory need of block trees.  *)
(***************************************************************************)
EXTENDS ChainTree, FiniteSetTheorems, WellFoundedInduction, TLAPS

(* A set of natural numbers has a least one: how induction is done here. *)
LEMMA LeastNatural ==
    ASSUME NEW T \in SUBSET Nat, T # {}
    PROVE  \E x \in T : \A y \in T : x <= y
<1> DEFINE R == OpToRel(<, Nat)
<1>1. IsWellFoundedOn(R, Nat)
  BY NatLessThanWellFounded
<1>2. \A x, y \in Nat : <<y, x>> \in R <=> y < x
  BY DEF OpToRel
<1> HIDE DEF R
<1>3. PICK x \in T : \A y \in T : ~(<<y, x>> \in R)
  BY <1>1, WFMin
<1>4. \A y \in T : ~(y < x)
  BY <1>2, <1>3
<1> QED
  BY <1>4

(* A bounded set of natural numbers has a greatest one. *)
LEMMA GreatestBelow ==
    ASSUME NEW N \in Nat, NEW T \in SUBSET (0..N), T # {}
    PROVE  \E x \in T : \A y \in T : y <= x
<1> DEFINE B == {m \in Nat : \A y \in T : y <= m}
<1>1. B \in SUBSET Nat /\ N \in B
  OBVIOUS
<1>2. PICK x \in B : \A m \in B : x <= m
  BY <1>1, LeastNatural
<1>3. x \in Nat /\ \A y \in T : y <= x /\ y \in Nat
  BY <1>2
<1>4. ASSUME x \notin T
      PROVE  FALSE
  <2>1. \A y \in T : y <= x - 1 /\ y \in Nat
    BY <1>3, <1>4
  <2>2. x - 1 \in Nat
    <3>1. PICK y \in T : TRUE
      OBVIOUS
    <3> QED
      BY <1>3, <2>1, <3>1
  <2>3. x - 1 \in B
    BY <2>1, <2>2
  <2>4. x <= x - 1
    BY <1>2, <2>3
  <2> QED
    BY <1>3, <2>4
<1> QED
  BY <1>3, <1>4
-----------------------------------------------------------------------------
(* A chain has one block at each height. *)
LEMMA OnePerHeight ==
    \A t \in Block : \A a, b \in Chain[t] : Height[a] = Height[b] => a = b
  <1> SUFFICES ASSUME NEW t \in Block, NEW a \in Chain[t], NEW b \in Chain[t],
                      Height[a] = Height[b]
               PROVE  a = b
    OBVIOUS
  <1>1. a \in Block /\ b \in Block
    BY BlockAssumption
  <1>2. a \in Chain[b] \/ b \in Chain[a]
    BY ChainAssumption
  <1>3. Height[a] \in Nat /\ Height[b] \in Nat
    BY <1>1, BlockAssumption
  <1> QED
    BY <1>1, <1>2, <1>3, ChainAssumption

(* The parent of a block above f on the chain of t lies on that chain. *)
LEMMA ParentOnChain ==
    \A t \in Block : \A b \in Chain[t] \ {Genesis} :
        Parent[b] \in Chain[t] /\ Height[b] = Height[Parent[b]] + 1
  <1> SUFFICES ASSUME NEW t \in Block, NEW b \in Chain[t] \ {Genesis}
               PROVE  Parent[b] \in Chain[t] /\ Height[b] = Height[Parent[b]] + 1
    OBVIOUS
  <1>1. b \in Block \ {Genesis} /\ Parent[b] \in Block
    BY BlockAssumption
  <1>2. Parent[b] \in Chain[b]
    BY <1>1, StepAssumption, ChainAssumption
  <1> QED
    BY <1>1, <1>2, StepAssumption, ChainAssumption

(* Above a block of a chain there is one that has it as its parent. *)
LEMMA ChildOnChain ==
    ASSUME NEW b \in Block, NEW a \in Chain[b], a # b
    PROVE  \E c \in Chain[b] \ Chain[a] : c # Genesis /\ Parent[c] = a
<1> DEFINE above == {c \in Chain[b] : a \in Chain[c] /\ c # a}
           hs == {n \in Nat : \E c \in above : Height[c] = n}
<1>1. a \in Block /\ \A c \in Chain[b] : c \in Block /\ Height[c] \in Nat
  BY BlockAssumption
<1>2. b \in above
  BY ChainAssumption
<1>3. hs \in SUBSET Nat /\ hs # {}
  BY <1>1, <1>2
<1> HIDE DEF hs
<1>4. PICK n \in hs : \A m \in hs : n <= m
  BY <1>3, LeastNatural
<1>5. PICK c \in above : Height[c] = n /\ \A d \in above : Height[d] \in hs
  BY <1>1, <1>4 DEF hs
<1>6. c \in Chain[b] /\ c \in Block /\ a \in Chain[c] /\ c # a
  BY <1>1
<1>7. Height[a] < Height[c]
  BY <1>6, ChainAssumption
<1>8. c # Genesis
  BY <1>1, <1>6, <1>7, StepAssumption, BlockAssumption
<1>9. c \notin Chain[a]
  <2> SUFFICES ASSUME c \in Chain[a] PROVE FALSE
    OBVIOUS
  <2>1. Height[c] < Height[a]
    BY <1>1, <1>6, ChainAssumption
  <2> QED
    BY <1>1, <1>6, <1>7, <2>1, BlockAssumption
<1>10. Parent[c] \in Block /\ Parent[c] \in Chain[b] /\ Height[c] = Height[Parent[c]] + 1
  BY <1>6, <1>8, ParentOnChain, BlockAssumption
<1>11. a \in Chain[Parent[c]]
  BY <1>6, <1>8, StepAssumption
<1>12. Parent[c] = a
  <2> SUFFICES ASSUME Parent[c] # a PROVE FALSE
    OBVIOUS
  <2>1. Parent[c] \in above
    BY <1>10, <1>11
  <2>2. Height[c] <= Height[Parent[c]]
    BY <1>4, <1>5, <2>1
  <2>3. Height[Parent[c]] \in Nat
    BY <1>10, BlockAssumption
  <2> QED
    BY <1>10, <2>2, <2>3
<1> QED
  BY <1>6, <1>8, <1>9, <1>12

(* A set of headers closed under prevHash holds whole chains. *)
LEMMA ClosedChain ==
    ASSUME NEW S \in SUBSET Block, \A c \in S \ {Genesis} : Parent[c] \in S,
           NEW b \in S
    PROVE  Chain[b] \subseteq S
<1> SUFFICES ASSUME (Block \ S) \cap Chain[b] # {} PROVE FALSE
  BY BlockAssumption
<1>1. PICK a \in (Block \ S) \cap Chain[b] : (Chain[b] \ Chain[a]) \cap (Block \ S) = {}
  BY WalkAssumption
<1>2. PICK c \in Chain[b] \ Chain[a] : c # Genesis /\ Parent[c] = a
  BY <1>1, ChildOnChain
<1>3. c \in S
  BY <1>1, <1>2, BlockAssumption
<1> QED
  BY <1>1, <1>2, <1>3

(* A chain has a block at every height up to its top. *)
LEMMA HeightOnChain ==
    ASSUME NEW t \in Block, NEW n \in Nat, n <= Height[t]
    PROVE  \E b \in Chain[t] : Height[b] = n
<1> DEFINE hs == {k \in Nat : k >= n /\ \E b \in Chain[t] : Height[b] = k}
<1>1. \A b \in Chain[t] : b \in Block /\ Height[b] \in Nat
  BY BlockAssumption
<1>2. t \in Chain[t]
  BY ChainAssumption
<1>3. hs \in SUBSET Nat /\ Height[t] \in hs
  BY <1>1, <1>2
<1> HIDE DEF hs
<1>4. PICK k \in hs : \A m \in hs : k <= m
  BY <1>3, LeastNatural
<1>5. PICK b \in Chain[t] : k \in Nat /\ k >= n /\ Height[b] = k
  BY <1>4 DEF hs
<1>6. CASE k = n
  BY <1>5, <1>6
<1>7. CASE k > n
  <2>1. b # Genesis
    BY <1>5, <1>7, StepAssumption
  <2>2. Parent[b] \in Chain[t] /\ k = Height[Parent[b]] + 1
    BY <2>1, <1>5, ParentOnChain
  <2>3. Height[Parent[b]] \in Nat
    BY <2>2, <1>1
  <2>4. Height[Parent[b]] \in hs
    BY <2>2, <2>3, <1>7 DEF hs
  <2>5. k <= Height[Parent[b]]
    BY <2>4, <1>4
  <2> QED
    BY <2>2, <2>3, <2>5, <1>5
<1> QED
  BY <1>5, <1>6, <1>7

(* On one chain, below a block in height is below it on the chain. *)
LEMMA LowerOnChain ==
    ASSUME NEW t \in Block, NEW a \in Chain[t], NEW b \in Chain[t], Height[a] <= Height[b]
    PROVE  a \in Chain[b]
<1>1. a \in Block /\ b \in Block /\ Height[a] \in Nat /\ Height[b] \in Nat /\ b \in Chain[b]
  BY BlockAssumption, ChainAssumption
<1>2. a \in Chain[b] \/ b \in Chain[a]
  BY ChainAssumption
<1>3. b \in Chain[a] /\ b # a => Height[b] < Height[a]
  BY <1>1, ChainAssumption
<1> QED
  BY <1>1, <1>2, <1>3

(* Two chains part at a block. *)
LEMMA ForkExists ==
    ASSUME NEW a \in Block, NEW b \in Block
    PROVE  \E c \in Chain[a] \cap Chain[b] : Chain[a] \cap Chain[b] = Chain[c]
<1>1. Chain[a] \in SUBSET Block /\ Genesis \in Chain[a] /\ Genesis \in Chain[b]
  BY BlockAssumption, ChainAssumption
<1>2. Chain[a] \cap Chain[b] # {}
  BY <1>1
<1>3. PICK c \in Chain[a] \cap Chain[b] : (Chain[b] \ Chain[c]) \cap Chain[a] = {}
  <2>1. \A S \in SUBSET Block : S \cap Chain[b] # {} =>
          \E c \in S \cap Chain[b] : (Chain[b] \ Chain[c]) \cap S = {}
    BY WalkAssumption
  <2> DEFINE S == Chain[a]
  <2>2. S \in SUBSET Block /\ S \cap Chain[b] # {}
    BY <1>1, <1>2
  <2> HIDE DEF S
  <2>3. \E c \in S \cap Chain[b] : (Chain[b] \ Chain[c]) \cap S = {}
    BY <2>1, <2>2
  <2> QED
    BY <2>3 DEF S
<1>4. Chain[c] \subseteq Chain[a] /\ Chain[c] \subseteq Chain[b]
  BY ChainAssumption
<1> DEFINE both == Chain[a] \cap Chain[b]
<1>5. both = Chain[c] /\ c \in both
  BY <1>3, <1>4
<1>6. \E d \in both : both = Chain[d]
  <2> HIDE DEF both
  <2> QED
    BY <1>5
<1> QED
  BY <1>6

(* Of a set of blocks one is heaviest, and the first such in hash order. *)
FirstOf(b, S) ==
    b \in S /\ \A c \in S : \/ ChainWork[c] < ChainWork[b]
                            \/ ChainWork[c] = ChainWork[b] /\ Rank[b] <= Rank[c]

LEMMA HeaviestExists ==
    ASSUME NEW S \in SUBSET Block, S # {}
    PROVE  \E b \in S : FirstOf(b, S)
<1> DEFINE Bad(T) == T \in SUBSET Block /\ T # {} /\ ~\E b \in T : FirstOf(b, T)
           sizes == {n \in Nat : \E T \in SUBSET Block : Bad(T) /\ Cardinality(T) = n}
<1> SUFFICES ASSUME Bad(S) PROVE FALSE
  OBVIOUS
<1>1. \A T \in SUBSET Block : IsFiniteSet(T) /\ Cardinality(T) \in Nat
  BY FiniteAssumption, FS_Subset, FS_CardinalityType
<1>2. sizes \in SUBSET Nat /\ sizes # {}
  BY <1>1
<1>3. PICK n \in sizes : \A m \in sizes : n <= m
  BY <1>2, LeastNatural
<1>4. PICK T \in SUBSET Block : Bad(T) /\ Cardinality(T) = n /\ n \in Nat
  BY <1>3
<1>5. PICK x \in T : TRUE
  BY <1>4
<1>6. Cardinality(T \ {x}) = n - 1 /\ Cardinality(T \ {x}) \in Nat
  BY <1>1, <1>4, <1>5, FS_RemoveElement
<1>7. ~Bad(T \ {x})
  <2> SUFFICES ASSUME Bad(T \ {x}) PROVE FALSE
    OBVIOUS
  <2>1. n - 1 \in sizes
    BY <1>4, <1>6
  <2>2. n <= n - 1
    BY <1>3, <2>1
  <2> QED
    BY <1>4, <2>2
<1>8. \A b \in T : b \in Block /\ ChainWork[b] \in Nat /\ Rank[b] \in Nat
  BY BlockAssumption
<1>9. CASE T \ {x} = {}
  <2>1. FirstOf(x, T)
    BY <1>5, <1>8, <1>9 DEF FirstOf
  <2> QED
    BY <2>1, <1>4
<1>10. CASE T \ {x} # {}
  <2>1. PICK b \in T \ {x} : FirstOf(b, T \ {x})
    BY <1>7, <1>10
  <2>2. \A c \in T : c # x =>
          ChainWork[c] < ChainWork[b] \/ (ChainWork[c] = ChainWork[b] /\ Rank[b] <= Rank[c])
    <3>1. \A c \in T \ {x} :
            ChainWork[c] < ChainWork[b] \/ (ChainWork[c] = ChainWork[b] /\ Rank[b] <= Rank[c])
      BY <2>1 DEF FirstOf
    <3> QED
      BY <3>1
  <2>3. CASE \/ ChainWork[x] < ChainWork[b]
             \/ ChainWork[x] = ChainWork[b] /\ Rank[b] <= Rank[x]
    <3>1. FirstOf(b, T)
      BY <2>1, <2>2, <2>3 DEF FirstOf
    <3> QED
      BY <3>1, <2>1, <1>4
  <2>4. CASE ~(\/ ChainWork[x] < ChainWork[b]
               \/ ChainWork[x] = ChainWork[b] /\ Rank[b] <= Rank[x])
    <3>1. ChainWork[b] < ChainWork[x] \/ (ChainWork[b] = ChainWork[x] /\ Rank[x] <= Rank[b])
      BY <2>1, <2>4, <1>5, <1>8
    <3>2. FirstOf(x, T)
      BY <3>1, <2>1, <2>2, <1>5, <1>8 DEF FirstOf
    <3> QED
      BY <3>2, <1>4, <1>5
  <2> QED
    BY <2>3, <2>4
<1> QED
  BY <1>9, <1>10
(* What connects within a set connects within the connected part of it. *)
LEMMA AttachedClosed ==
    ASSUME NEW S \in SUBSET Block
    PROVE  Attached(Attached(S)) = Attached(S)
<1>1. ASSUME NEW b \in Attached(S), NEW c \in Chain[b]
      PROVE  c \in Attached(S)
  <2>1. b \in Block /\ Chain[b] \subseteq S
    BY DEF Attached
  <2>2. Chain[c] \subseteq Chain[b]
    BY <2>1, ChainAssumption
  <2> QED
    BY <2>1, <2>2 DEF Attached
<1> QED
  BY <1>1 DEF Attached

(* A search that starts from the genesis block ends somewhere. *)
LEMMA BestExists ==
    ASSUME NEW S \in SUBSET Block, Genesis \in S
    PROVE  \E t \in S : IsBest(t, S, Genesis)
<1>1. PICK t \in S : FirstOf(t, S)
  BY HeaviestExists
<1>2. \A b \in S : b \in Block /\ ChainWork[b] \in Nat /\ Rank[b] \in Nat
  BY BlockAssumption
<1>3. \A b \in S : ChainWork[b] <= ChainWork[t]
  BY <1>1, <1>2 DEF FirstOf
<1>4. \A b \in S : ChainWork[b] = ChainWork[t] => Rank[t] <= Rank[b]
  BY <1>1, <1>2 DEF FirstOf
<1>5. t # Genesis => ChainWork[Genesis] < ChainWork[t]
  BY <1>2, ChainAssumption
<1> QED
  BY <1>3, <1>4, <1>5 DEF IsBest

(* And it ends at one block: hashes are distinct. *)
LEMMA BestUnique ==
    ASSUME NEW S \in SUBSET Block, Genesis \in S, NEW t, NEW u,
           IsBest(t, S, Genesis), IsBest(u, S, Genesis)
    PROVE  t = u
<1>1. t \in S /\ u \in S /\ t \in Block /\ u \in Block
  BY DEF IsBest
<1>2. /\ ChainWork[t] \in Nat /\ ChainWork[u] \in Nat /\ ChainWork[Genesis] \in Nat
      /\ Rank[t] \in Nat /\ Rank[u] \in Nat
  BY <1>1, BlockAssumption
<1>3. ChainWork[t] <= ChainWork[u] /\ ChainWork[u] <= ChainWork[t]
  BY <1>1 DEF IsBest
<1>4. ChainWork[t] = ChainWork[u]
  BY <1>2, <1>3
<1>5. CASE t = Genesis \/ u = Genesis
  BY <1>2, <1>4, <1>5 DEF IsBest
<1>6. CASE t # Genesis /\ u # Genesis
  <2>1. Rank[t] <= Rank[u] /\ Rank[u] <= Rank[t]
    BY <1>1, <1>4, <1>6 DEF IsBest
  <2>2. Rank[t] = Rank[u]
    BY <2>1, <1>2
  <2> QED
    BY <2>2, <1>1, RankAssumption
<1> QED
  BY <1>5, <1>6
=============================================================================
