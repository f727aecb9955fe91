----------------------------- MODULE MCSurface -----------------------------
(* Instances of Surface for TLC. *)
EXTENDS Surface
=============================================================================
