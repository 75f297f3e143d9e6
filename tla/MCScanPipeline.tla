-------------------------- MODULE MCScanPipeline --------------------------
(* Instances of ScanPipeline for TLC. *)
EXTENDS ScanPipeline

(* One earlier output; every block spends the output of the block before it
   (in its own batch or in the previous one), the first one the earlier one. *)
MCOldOutputs == {<<0, 1>>}

Previous(blk) ==
    IF blk[2] > 1 THEN <<blk[1], blk[2] - 1>>
    ELSE IF blk[1] > 1 THEN <<blk[1] - 1, BatchSize>> ELSE <<0, 1>>

MCSpends == [blk \in Block |-> {Previous(blk)}]

MCUnreadable == {<<2, 1>>}
MCAllReadable == {}
=============================================================================
