------------------------------ MODULE MCBatch ------------------------------
(* A small instance of Batch: a directory with two files in it, which one  *)
(* source, both or none may have.                                          *)
EXTENDS Batch

MCKind == [d |-> "dir", e |-> "file", f |-> "file"]
MCRank == [d |-> 1, e |-> 2, f |-> 3]
MCParents == [d |-> {}, e |-> {"d"}, f |-> {"d"}]

=============================================================================
