----------------------------- MODULE MCAweAlloc -----------------------------
(* Two threads on a file of up to two pages of two units; a third          *)
(* descriptor list for the mapping that is stored.                         *)
EXTENDS AweAlloc
=============================================================================
