----------------------------- MODULE MCProxyShm -----------------------------
(* Instances of ProxyShm for TLC.                                           *)
EXTENDS ProxyShm, TLC

CONSTANTS v1, zero

MCValues == {v1, zero}
MCZero == zero
=============================================================================
