----------------------------- MODULE MCSwaylock -----------------------------
(***************************************************************************)
(* Instances of Swaylock for TLC.                                          *)
(***************************************************************************)
EXTENDS Swaylock

CONSTANTS b1, b2

TwoIds   == {b1, b2}
OneOffer == {<<b1>>}

=============================================================================
