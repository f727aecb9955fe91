----------------------------- MODULE MCSession -----------------------------
(***************************************************************************)
(* Instances of Session for TLC: --steal-unlock against a locker that      *)
(* tells nobody, against one that tells its launcher in both ways and      *)
(* against itself, and two lockers.                                        *)
(***************************************************************************)
EXTENDS Session, TLC

CONSTANTS p1, p2

TwoProcs == {p1, p2}

Steal   == [steal |-> TRUE, ready |-> FALSE, daemonize |-> FALSE]
Plain   == [steal |-> FALSE, ready |-> FALSE, daemonize |-> FALSE]
Verbose == [steal |-> FALSE, ready |-> TRUE, daemonize |-> TRUE]

Pairs ==
  {p1 :> pair[1] @@ p2 :> pair[2] :
     pair \in {<<Steal, Plain>>, <<Steal, Verbose>>, <<Steal, Steal>>,
               <<Plain, Verbose>>}}

=============================================================================
