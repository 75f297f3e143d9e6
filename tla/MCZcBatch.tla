------------------------------ MODULE MCZcBatch ------------------------------
(* Two clients that share a transaction, and one transaction of the network. *)
EXTENDS ZcBatch, TLC

CONSTANTS r1, r2, h1, h2, n, p1, p2

WantsShared == (r1 :> {h1, h2}) @@ (r2 :> {h2})
WantsSame == (r1 :> {h1}) @@ (r2 :> {h1})
WantsBoth == (r1 :> {h1, h2})
=============================================================================
