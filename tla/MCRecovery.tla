----------------------------- MODULE MCRecovery -----------------------------
(***************************************************************************)
(* Deployments for model checking Recovery.                                 *)
(***************************************************************************)
EXTENDS Recovery

\* Two vault sessions that crash twice.
Vault == [peers |-> {1, 2}, authors |-> {1, 2}, kinds |-> {"block", "text", "set"},
          maxOps |-> 3, features |-> {"vault"}, maxCrashes |-> 2, maxCheckpoints |-> 0]

\* Three sessions, so that a write can be deferred; saving may fail.
Deferring == [peers |-> {1, 2, 3}, authors |-> {1, 2}, kinds |-> {"block", "set", "delete"},
              maxOps |-> 2, features |-> {"vault", "save_fails"},
              maxCrashes |-> 0, maxCheckpoints |-> 0]

\* Two editors, a peer that defers, and one that joins from it.
Joining == [peers |-> {1, 2, 3, 4}, authors |-> {1}, kinds |-> {"block", "set"},
            maxOps |-> 2, features |-> {"import"}, maxCrashes |-> 0, maxCheckpoints |-> 0]

\* Two sessions that compact and rebase.
Compacting == [peers |-> {1, 2}, authors |-> {1, 2}, kinds |-> {"block", "set"},
               maxOps |-> 3, features |-> {"checkpoint", "rebase"},
               maxCrashes |-> 0, maxCheckpoints |-> 1]

All == {Vault, Deferring, Joining, Compacting}

\* Three peers, one of which compacts while a write is deferred.
CompactDeferred ==
    {[peers |-> {1, 2, 3}, authors |-> {1}, kinds |-> {"block", "set"}, maxOps |-> 3,
      features |-> {"checkpoint"}, maxCrashes |-> 0, maxCheckpoints |-> 1]}

\* Three peers, one of which rebases while its own operations are elsewhere.
RebaseBehind ==
    {[peers |-> {1, 2, 3}, authors |-> {1, 2, 3}, kinds |-> {"block"}, maxOps |-> 3,
      features |-> {"checkpoint", "rebase"}, maxCrashes |-> 0, maxCheckpoints |-> 1]}
=============================================================================
