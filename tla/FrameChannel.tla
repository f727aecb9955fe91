---------------------------- MODULE FrameChannel ----------------------------
(***************************************************************************)
(* What comm.c promises of one pipe: frames are delivered whole, unchanged *)
(* and in the order they were written, and the reader is told of the end   *)
(* of the pipe ("eof") only after every frame that was written completely. *)
(* A reader that gets "error" has been given a prefix of them.             *)
(***************************************************************************)
EXTENDS Naturals, Sequences

CONSTANT Frames

VARIABLES sent, got, status

Init == sent = <<>> /\ got = <<>> /\ status = "open"

Send ==
  /\ \E f \in Frames : sent' = Append(sent, f)
  /\ UNCHANGED <<got, status>>

Deliver ==
  /\ status = "open"
  /\ Len(got) < Len(sent)
  /\ got' = Append(got, sent[Len(got) + 1])
  /\ UNCHANGED <<sent, status>>

End ==
  /\ status = "open"
  /\ status' \in {"eof", "error"}
  /\ status' = "eof" => got = sent
  /\ UNCHANGED <<sent, got>>

Spec == Init /\ [][Send \/ Deliver \/ End]_<<sent, got, status>>

=============================================================================
