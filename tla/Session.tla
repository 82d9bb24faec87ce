------------------------------- MODULE Session -------------------------------
(***************************************************************************)
(* One collaborative session (CollaborativeDocument of src/session/mod.rs): *)
(* a document, an operation log, a clock and the envelopes of operations    *)
(* that are not applied to the document yet, as a record and one operator   *)
(* per method.                                                              *)
(*                                                                         *)
(* An operation adds to the log's fields                                    *)
(*   kind      "block"  InsertBlock at top level,                           *)
(*             "text"   InsertText into a block,                            *)
(*             "set"    a write of a block's kind register: ConvertTextBlock *)
(*                      on a block that holds text; SetCodeFence,           *)
(*                      SetListStyle, ReplaceRawBlock and the table cells   *)
(*                      follow the same rule,                               *)
(*             "delete" DeleteBlock;                                        *)
(*   block     the element id of the block it is about (its own for "block");*)
(*   observed  the state vector a "set" carries, zero for the other kinds,  *)
(*             which have no observed frontier;                             *)
(*   at        the moment it was created, which tells apart two operations  *)
(*             that were given one id.                                      *)
(* Sequence positions are left to RgaSequence: blocks go to the start.      *)
(***************************************************************************)
EXTENDS PromotionLoop

Id(op) == [peer |-> op.peer, counter |-> op.counter]

-----------------------------------------------------------------------------
(* The document.                                                            *)

\* elements are the ids in the block sequence, gone the targets of deletes
\* (tombstones, or deletes waiting for their element); a visible block has a
\* kind register, holding the write that last won it, and texts.
NewDocument == [elements |-> {}, gone |-> {}, kind |-> [b \in {} |-> 0], texts |-> {}]

Visible(d) == DOMAIN d.kind

\* Mutant of CausalWriteWins: last writer wins by id.
LastWriterWins(current, incoming) == ~OpIdLess(incoming, current)

\* Mutant of CausalWriteWins: the write that arrives last wins.
ArrivalWins(current, incoming) == TRUE

\* causal_write_wins (and TableCell::set): a write that observed the current
\* one wins, one the current write observed loses, concurrent ones go by id.
CausalWriteWins(current, incoming) ==
    \/ incoming.observed[current.peer] >= current.counter
    \/ /\ ~(current.observed[incoming.peer] >= incoming.counter)
       /\ ~OpIdLess(incoming, current)

InsertBlock(d, op) ==
    IF Id(op) \in d.elements THEN d
    ELSE [d EXCEPT !.elements = @ \cup {Id(op)},
                   !.kind = IF Id(op) \in d.gone THEN @
                            ELSE [b \in DOMAIN @ \cup {Id(op)} |->
                                     IF b = Id(op) THEN op ELSE d.kind[b]]]

DeleteBlock(d, b) ==
    [d EXCEPT !.gone = @ \cup {b},
              !.kind = [x \in DOMAIN @ \ {b} |-> d.kind[x]],
              !.texts = {t \in @ : t.block # b}]

\* with_block_mut finds visible blocks only: a text or a set whose block is not
\* there changes nothing.
InsertText(d, op) ==
    IF op.block \in Visible(d) THEN [d EXCEPT !.texts = @ \cup {op}] ELSE d

SetKind(d, op) ==
    IF op.block \in Visible(d) /\ CausalWriteWins(d.kind[op.block], op)
    THEN [d EXCEPT !.kind[op.block] = op] ELSE d

\* apply_envelope_to_document.
ApplyEnvelope(d, op) ==
    CASE op.kind = "block"  -> InsertBlock(d, op)
      [] op.kind = "delete" -> DeleteBlock(d, op.block)
      [] op.kind = "text"   -> InsertText(d, op)
      [] op.kind = "set"    -> SetKind(d, op)

-----------------------------------------------------------------------------
(* Local edits and remote messages.                                         *)

NewSession ==
    [sync |-> NewSync, next_counter |-> 1, document |-> NewDocument,
     pending_envelopes |-> {}]

\* commit_single_id: document, log, clock.
Commit(s, op) ==
    [s EXCEPT !.document = ApplyEnvelope(@, op),
              !.sync = AddLocalOp(@, op),
              !.next_counter = op.counter + 1]

\* Mutant of FrontierReady: nothing is deferred.
FrontierIgnored(s, op) == TRUE

\* observed_frontier_is_ready.
FrontierReady(s, op) == Covers(s.sync.state_vector, op.observed)

ApplyOrDefer(s, op) ==
    IF FrontierReady(s, op)
    THEN [s EXCEPT !.document = ApplyEnvelope(@, op)]
    ELSE [s EXCEPT !.pending_envelopes = Put(@, op)]

DrainPromoted(s) ==
    LET loop == PromoteLoop(s.sync)
    IN  FoldLeft(LAMBDA t, op :
                     ApplyOrDefer([t EXCEPT !.pending_envelopes = @ \ {op}], op),
                 [s EXCEPT !.sync = loop.log], loop.promoted)

\* The deferred envelopes: the ones whose operation is in the log.
Deferred(s) == {op \in s.pending_envelopes : HasId(s.sync.ops, op)}

\* Mutant of DrainDeferred: it is forgotten.
DrainNothing(s) == s

\* drain_deferred.  The log does not change, so one round leaves nothing ready.
DrainDeferred(s) ==
    LET ready == {op \in Deferred(s) : FrontierReady(s, op)}
    IN  FoldLeft(LAMBDA t, op : [t EXCEPT !.document = ApplyEnvelope(@, op)],
                 [s EXCEPT !.pending_envelopes = @ \ ready], InOpIdOrder(ready))

\* The body of apply_remote's loop for one prepared operation.
Integrate(s, op) ==
    LET t == [s EXCEPT !.sync = ApplyOne(@, op)]
    IN  CASE t = s -> s
          [] HasId(t.sync.pending, op) -> [t EXCEPT !.pending_envelopes = Put(@, op)]
          [] OTHER -> DrainDeferred(DrainPromoted(ApplyOrDefer(t, op)))

\* validate_changes: the message must fit in the buffer with what waits there.
Accepts(s, message, maxPending) ==
    Cardinality(s.sync.pending) + Cardinality(Deferred(s)) + Cardinality(message)
        <= maxPending

\* apply_remote of an accepted message, whose operations come in OpId order.
ApplyRemote(s, message) ==
    LET prepared == {op \in message : ~HasId(s.sync.ops, op)}
    IN  DrainDeferred(FoldLeft(Integrate, s, InOpIdOrder(prepared)))
=============================================================================
