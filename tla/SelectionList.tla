--------------------------- MODULE SelectionList ---------------------------
(***************************************************************************)
(* The list of brokers or modes on the screen (render_frame() in render.c).*)
(* A list that is too long is drawn in part: a window of max_vis entries   *)
(* around the selection.  The entries are read from authd_items by index.  *)
(***************************************************************************)
EXTENDS Swaylock

CONSTANT max_vis      \* 8 in the code

ASSUME MaxVisAssumption == max_vis \in Nat \ {0}

count(st) == Len(authd_items[st])
sel(st)   == authd_sel[st]

vis_count(st) == IF count(st) < max_vis THEN count(st) ELSE max_vis

\* Mutant: the window is not moved back from the end of the list.
start_unclamped(st) ==
  IF count(st) > max_vis /\ sel(st) >= 0
  THEN IF sel(st) - max_vis \div 2 < 0 THEN 0 ELSE sel(st) - max_vis \div 2
  ELSE 0

\* Index of the first entry drawn.
start(st) ==
  LET centred == sel(st) - max_vis \div 2
  IN  IF ~(count(st) > max_vis /\ sel(st) >= 0) \/ centred < 0 THEN 0
      ELSE IF centred + max_vis > count(st) THEN count(st) - max_vis
      ELSE centred

Drawn(st) == start(st) .. start(st) + vis_count(st) - 1

(***************************************************************************)
(* The entry that Return will confirm is on the screen, and no entry is    *)
(* read beyond the list, whatever lists authd sends while the user moves   *)
(* about in them.                                                          *)
(***************************************************************************)
SelectionVisible ==
  \A st \in ListStage :
    /\ Drawn(st) \subseteq 0 .. count(st) - 1
    /\ count(st) > 0 => sel(st) \in Drawn(st)

=============================================================================
