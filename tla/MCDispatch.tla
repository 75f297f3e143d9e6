----------------------------- MODULE MCDispatch -----------------------------
EXTENDS Dispatch

(* Two commands: the first in two packets, the second in one.              *)
MCFragments == <<2, 1>>
=============================================================================
