----------------------------- MODULE MCFatClose -----------------------------
(* One volume with the stream of its root directory and two user file      *)
(* objects, of which the second may be opened on the file of the first.    *)
EXTENDS FatClose, TLC

CONSTANTS v1, a, b, s, fa, fb, w1, w2

MCVolOf == [f \in {a, b, s} |-> v1]
MCOpens == (a :> {fa}) @@ (b :> {fa, fb})
=============================================================================
