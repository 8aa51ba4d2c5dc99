-------------------------- MODULE MCDeflateTokens --------------------------
(* DeflateTokens for TLC.  The cfg files shrink the limits of the encoding *)
(* so that relative and absolute numbers and full runs all happen.         *)
EXTENDS DeflateTokens
=============================================================================
