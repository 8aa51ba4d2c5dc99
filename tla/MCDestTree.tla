----------------------------- MODULE MCDestTree -----------------------------
(* DestTree for TLC: a hard-link group of two files. *)
EXTENDS DestTree

LinkedPair == <<1, 1>>

Combinations ==
    {{"link_dest"}, {"times", "link_dest"}, {"times", "update"},
     {"checksum", "max_size", "ignore_existing"}}

TwoSizes == [v \in Versions |-> IF v = 2 THEN 7 ELSE 5]
=============================================================================
