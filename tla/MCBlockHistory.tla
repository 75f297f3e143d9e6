--------------------------- MODULE MCBlockHistory ---------------------------
(* Small block trees for BlockHistory: two branches of two and three blocks
   that both spend the genesis block's output, one at once and one at its end. *)
EXTENDS BlockHistory, Sequences, TLC

CONSTANTS G, a1, a2, b1, b2, b3

Paths ==
    (G :> <<>>) @@ (a1 :> <<a1>>) @@ (a2 :> <<a1, a2>>)
      @@ (b1 :> <<b1>>) @@ (b2 :> <<b1, b2>>) @@ (b3 :> <<b1, b2, b3>>)

TreeBlock == DOMAIN Paths
TreeParent ==
    [b \in DOMAIN Paths \ {G} |->
        LET n == Len(Paths[b]) IN IF n = 1 THEN G ELSE Paths[b][n - 1]]
TreeChain ==
    [b \in DOMAIN Paths |-> {G} \cup {Paths[b][i] : i \in DOMAIN Paths[b]}]
TreeHeight == [b \in DOMAIN Paths |-> Len(Paths[b])]
TreeSpends ==
    (G :> NoBlock) @@ (a1 :> G) @@ (a2 :> a1)
      @@ (b1 :> NoBlock) @@ (b2 :> b1) @@ (b3 :> G)
TreeRank ==
    (G :> 3) @@ (a1 :> 2) @@ (a2 :> 4) @@ (b1 :> 1) @@ (b2 :> 5) @@ (b3 :> 6)

(* No two branches are ever equally heavy, and the lead changes three times. *)
RaceWork ==
    (G :> 1) @@ (a1 :> 20) @@ (b1 :> 25) @@ (a2 :> 30) @@ (b2 :> 35) @@ (b3 :> 45)
(* Every height is a tie. *)
TieWork == [b \in TreeBlock |-> 1 + TreeHeight[b]]
(* The b branch is heavier with one block than the a branch with two. *)
HeavyWork ==
    (G :> 1) @@ (a1 :> 2) @@ (a2 :> 3) @@ (b1 :> 4) @@ (b2 :> 5) @@ (b3 :> 6)
=============================================================================
