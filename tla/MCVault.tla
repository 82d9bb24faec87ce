------------------------------ MODULE MCVault ------------------------------
(***************************************************************************)
(* Deployments for model checking Vault.                                    *)
(***************************************************************************)
EXTENDS Vault

\* Two documents edited in memory and published together; the process dies twice.
Exporting ==
    [calls |-> {"open_document", "session_mut", "export_transaction"},
     paths |-> {"a", "b"}, present |-> {"a", "b"},
     maxCrashes |-> 2, maxFaults |-> 0, maxTexts |-> 4, maxIds |-> 2]

\* One document published alone, edited by batches, while another program saves it.
Publishing ==
    [calls |-> {"open_document", "edit_batch", "export", "ingest", "close", "external"},
     paths |-> {"a"}, present |-> {"a"},
     maxCrashes |-> 2, maxFaults |-> 0, maxTexts |-> 4, maxIds |-> 2]

\* Documents created, renamed and deleted, with a third path to move to.
Filing ==
    [calls |-> {"open_document", "create", "rename", "delete"},
     paths |-> {"a", "b", "c"}, present |-> {"a"},
     maxCrashes |-> 2, maxFaults |-> 1, maxTexts |-> 2, maxIds |-> 3]

\* Documents that may have no file, recovery in the running process.
Receiving ==
    [calls |-> {"session", "absent", "local_edit", "edit_batches", "save_state",
                "export_transaction", "recover"},
     paths |-> {"a", "b"}, present |-> {"a"},
     maxCrashes |-> 1, maxFaults |-> 1, maxTexts |-> 2, maxIds |-> 2]

All == {Exporting, Publishing, Filing, Receiving}

\* A document edited through session_mut and published alone.
PublishUnsaved ==
    {[calls |-> {"open_document", "session_mut", "export"}, paths |-> {"a"}, present |-> {"a"},
      maxCrashes |-> 1, maxFaults |-> 0, maxTexts |-> 2, maxIds |-> 1]}
=============================================================================
