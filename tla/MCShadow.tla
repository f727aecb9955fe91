------------------------------ MODULE MCShadow ------------------------------
(***************************************************************************)
(* Instances of SwaylockShadow for TLC.  This backend sends no lists, so   *)
(* the identifiers of brokers play no part.                                *)
(***************************************************************************)
EXTENDS SwaylockShadow
=============================================================================
