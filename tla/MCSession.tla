----------------------------- MODULE MCSession -----------------------------
(* Session for TLC.  Every constant is a number or a Boolean, given in the *)
(* cfg files.                                                              *)
EXTENDS Session
=============================================================================
