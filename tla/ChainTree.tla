----------------------------- MODULE ChainTree -----------------------------
(***************************************************************************)
(* The blocks that can ever reach the server and how they hang together.   *)
(* A block stands for a header: its prevHash is Parent, its difficulty the *)
(* difference of ChainWork along Parent, its hash its place in the order   *)
(* of std::map<BinaryData, ...>, Rank.                                     *)
(*                                                                         *)
(* Chain, Height and ChainWork are what walking prevHash down to the       *)
(* genesis block yields.                                                   *)
(***************************************************************************)
EXTENDS Integers, FiniteSets

CONSTANTS Block, Genesis, NoBlock,
          Parent,      \* prevHash of every block but the genesis block
          Chain,       \* a block and everything below it
          Height,      \* blocks below a block
          ChainWork,   \* difficulties summed along a chain
          Rank         \* position in the order of block hashes

ASSUME BlockAssumption ==
    /\ Genesis \in Block
    /\ NoBlock \notin Block
    /\ Parent \in [Block \ {Genesis} -> Block]
    /\ Chain \in [Block -> SUBSET Block]
    /\ Height \in [Block -> Nat]
    /\ ChainWork \in [Block -> Nat]
    /\ Rank \in [Block -> Nat]

(* However long the server runs, it has read finitely many of them. *)
ASSUME FiniteAssumption == IsFiniteSet(Block)

(* One step down: what the walk over prevHash adds at each block. *)
ASSUME StepAssumption ==
    /\ Chain[Genesis] = {Genesis}
    /\ Height[Genesis] = 0
    /\ ChainWork[Genesis] = 1
    /\ \A b \in Block \ {Genesis} :
          /\ Chain[b] = Chain[Parent[b]] \cup {b}
          /\ b \notin Chain[Parent[b]]
          /\ Height[b] = Height[Parent[b]] + 1
          /\ ChainWork[b] > ChainWork[Parent[b]]

(* What those steps add up to along a whole chain. *)
ASSUME ChainAssumption ==
    /\ \A b \in Block : b \in Chain[b] /\ Genesis \in Chain[b]
    /\ \A b \in Block : \A a \in Chain[b] : Chain[a] \subseteq Chain[b]
    /\ \A b \in Block : \A a, c \in Chain[b] : a \in Chain[c] \/ c \in Chain[a]
    /\ \A b \in Block : \A a \in Chain[b] :
          a # b => Height[a] < Height[b] /\ ChainWork[a] < ChainWork[b]

(* A walk down a chain that starts above a block of S stops at the first one. *)
ASSUME WalkAssumption ==
    \A S \in SUBSET Block : \A b \in Block :
        S \cap Chain[b] # {} =>
            \E a \in S \cap Chain[b] : (Chain[b] \ Chain[a]) \cap S = {}

(* Hashes are distinct. *)
ASSUME RankAssumption == \A a, b \in Block : Rank[a] = Rank[b] => a = b

Heights == {Height[b] : b \in Block}

(* The blocks a walk from b visits before it stops at the block a below it. *)
Above(a, b) == Chain[b] \ Chain[a]

(* a is where a walk from b first meets the set S. *)
FirstMet(a, b, S) == a \in S /\ a \in Chain[b] /\ Above(a, b) \cap S = {}

(* The blocks of S that connect to the genesis block within S. *)
Attached(S) == {b \in S : Chain[b] \subseteq S}

(* t is where a search for the heaviest block of S ends that starts from cur:
   cur itself unless something is heavier, else the first in hash order. *)
IsBest(t, S, cur) ==
    /\ t \in S
    /\ \A b \in S : ChainWork[b] <= ChainWork[t]
    /\ t # cur => /\ ChainWork[cur] < ChainWork[t]
                  /\ \A b \in S : ChainWork[b] = ChainWork[t] => Rank[t] <= Rank[b]
=============================================================================
