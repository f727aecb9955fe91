---------------------------- MODULE MCCommFrame ----------------------------
(***************************************************************************)
(* Instances of CommFrame for TLC, with bytes of one bit and lengths of    *)
(* two bytes.  The child's longest frames do not fit into its pipe, and    *)
(* one is longer than the reader accepts.                                  *)
(***************************************************************************)
EXTENDS CommFrame

Frame(bytes) == [type |-> 1, payload |-> bytes]

SomeFrames ==
  [p \in Proc |-> IF p = Main THEN {Frame(<<>>), Frame(<<1>>)}
                  ELSE {Frame(<<>>), Frame(<<0, 1>>), Frame(<<1, 1, 1>>)}]

=============================================================================
