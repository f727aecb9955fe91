-------------------------- MODULE MCSelectionList --------------------------
(***************************************************************************)
(* Instances of SelectionList for TLC: a list that fits the screen and one *)
(* that does not, cut at MaxItems, with an entry that has no id.           *)
(***************************************************************************)
EXTENDS SelectionList

CONSTANTS b1, b2

TwoIds   == {b1, b2}
AnyOffer == {<<b1>>, <<b1, NoId, b2, b1, b2, b1>>}

=============================================================================
