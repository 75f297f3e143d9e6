----------------------------- MODULE MainBranch -----------------------------
(***************************************************************************)
(* What the header side promises the rest of the server, with nothing of   *)
(* how it does it: the server has a set of headers that connect to the     *)
(* genesis block and a best one among them; an update adds headers, moves  *)
(* to a heavier chain only, and says where the old and the new chain part; *)
(* a restart may lose headers and starts from the best of the rest.        *)
(*                                                                         *)
(* Blockchain implements this; the history side is written against it.     *)
(***************************************************************************)
EXTENDS ChainTree

VARIABLES
    have,   \* the headers that take part in the choice
    best,   \* the top of the main branch
    prev,   \* the top before the last update
    fork    \* where the branches of prev and best part, if prev was left

mainBranch == <<have, best, prev, fork>>

Init == have = {Genesis} /\ best = Genesis /\ prev = Genesis /\ fork = NoBlock

(* New headers are organised. *)
Update(S) ==
    /\ have \subseteq S /\ Attached(S) = S
    /\ have' = S
    /\ IsBest(best', S, best)
    /\ prev' = best
    /\ IF best \in Chain[best'] THEN fork' = NoBlock
       ELSE fork' \in Block /\ Chain[best] \cap Chain[best'] = Chain[fork']

(* The server starts over with the headers that were stored. *)
Restart(S) ==
    /\ S \subseteq have /\ Genesis \in S /\ Attached(S) = S
    /\ have' = S
    /\ IsBest(best', S, Genesis)
    /\ prev' = Genesis
    /\ fork' = NoBlock

Next == \E S \in SUBSET Block : Update(S) \/ Restart(S)

Spec == Init /\ [][Next]_mainBranch
=============================================================================
