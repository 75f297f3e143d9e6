---------------------------- MODULE MCBlockchain ----------------------------
(* Small block trees for Blockchain.  A tree is given by the path of each
   block, from the genesis block up. *)
EXTENDS Blockchain, TLC

CONSTANTS G, a1, a2, b1, b2, b3

(* Two branches of equal difficulty: ties and reorganisations both ways. *)
ForkPaths ==
    (G :> <<>>) @@ (a1 :> <<a1>>) @@ (a2 :> <<a1, a2>>)
      @@ (b1 :> <<b1>>) @@ (b2 :> <<b1, b2>>) @@ (b3 :> <<b1, b2, b3>>)

PathParent(paths) ==
    [b \in DOMAIN paths \ {G} |->
        LET n == Len(paths[b]) IN IF n = 1 THEN G ELSE paths[b][n - 1]]
PathChain(paths) ==
    [b \in DOMAIN paths |-> {G} \cup {paths[b][i] : i \in DOMAIN paths[b]}]
PathHeight(paths) == [b \in DOMAIN paths |-> Len(paths[b])]

ForkBlock == DOMAIN ForkPaths
ForkParent == PathParent(ForkPaths)
ForkChain == PathChain(ForkPaths)
ForkHeight == PathHeight(ForkPaths)
ForkWork == [b \in ForkBlock |-> 1 + ForkHeight[b]]
(* Hash order: the b branch sorts first at height 1 and last above. *)
ForkRank ==
    (G :> 3) @@ (a1 :> 2) @@ (a2 :> 4) @@ (b1 :> 1) @@ (b2 :> 5) @@ (b3 :> 6)

(* A branch of one difficult block against a longer branch of easy ones, as
   test networks have: the heavier branch can be the shorter one. *)
HeavyPaths ==
    (G :> <<>>) @@ (a1 :> <<a1>>) @@ (a2 :> <<a1, a2>>)
      @@ (b1 :> <<b1>>) @@ (b2 :> <<b1, b2>>)
HeavyBlock == DOMAIN HeavyPaths
HeavyParent == PathParent(HeavyPaths)
HeavyChain == PathChain(HeavyPaths)
HeavyHeight == PathHeight(HeavyPaths)
HeavyWork == (G :> 1) @@ (a1 :> 2) @@ (a2 :> 3) @@ (b1 :> 4) @@ (b2 :> 5)
HeavyRank == (G :> 3) @@ (a1 :> 2) @@ (a2 :> 4) @@ (b1 :> 1) @@ (b2 :> 5)
=============================================================================
