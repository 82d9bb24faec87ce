--------------------------- MODULE MCCollaboration ---------------------------
(***************************************************************************)
(* Deployments for model checking Collaboration.                            *)
(***************************************************************************)
EXTENDS Collaboration

\* Two peers, every kind of operation.
Pair == [peers |-> {1, 2}, authors |-> {1, 2},
         kinds |-> {"block", "text", "set", "delete"}, maxOps |-> 4]

\* Three peers, so that a write can arrive before what it observed.
Trio == [peers |-> {1, 2, 3}, authors |-> {1}, kinds |-> {"block", "set", "delete"},
         maxOps |-> 3]

PairAndTrio == {Pair, Trio}

\* Three peers racing on one register.
Register == {[peers |-> {1, 2, 3}, authors |-> {1}, kinds |-> {"block", "set"}, maxOps |-> 4]}
=============================================================================
