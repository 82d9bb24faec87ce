---------------------------- MODULE MCSyncState ----------------------------
(***************************************************************************)
(* Model-checking instance of SyncState, with the loop of                   *)
(* promote_ready_pending compared with the set Promotion describes.         *)
(***************************************************************************)
EXTENDS SyncState, PromotionLoop

\* The loop ends in the unique promotion, whatever is buffered: the least
\* fixpoint does not depend on the order the pass visits the buffer in.
LoopIsPromotion ==
    \A r \in Peers :
        {PromoteLoop(sync[r]).log} = {Promote(sync[r], S) : S \in Promotion(sync[r])}
=============================================================================
