---------------------------- MODULE PromotionLoop ----------------------------
(***************************************************************************)
(* promote_ready_pending of src/sync/mod.rs as the code runs it: passes     *)
(* over the causal buffer in OpId order until one promotes nothing.  The    *)
(* session layer needs the order in which operations leave the buffer.      *)
(***************************************************************************)
EXTENDS SyncLog, SequencesExt

\* The ids of a set in OpId order, as a BTreeMap iterates.
InOpIdOrder(S) == SetToSortSeq(S, OpIdLess)

\* One pass over the ids collected at its start.
PromotePass(s) ==
    FoldLeft(LAMBDA t, op : IF Ready(t.log.state_vector, op)
                            THEN [log |-> Promote(t.log, {op}), promoted |-> Append(t.promoted, op)]
                            ELSE t,
             [log |-> s, promoted |-> <<>>], InOpIdOrder(s.pending))

RECURSIVE PromoteLoop(_)
\* The while made_progress loop: the log it leaves and the promoted operations.
PromoteLoop(s) ==
    LET pass == PromotePass(s)
        rest == PromoteLoop(pass.log)
    IN  IF pass.promoted = <<>> THEN pass
        ELSE [log |-> rest.log, promoted |-> pass.promoted \o rest.promoted]
=============================================================================
