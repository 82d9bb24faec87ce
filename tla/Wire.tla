-------------------------------- MODULE Wire ---------------------------------
(***************************************************************************)
(* Envelopes (src/session/wire.rs): the ids an operation embeds and what    *)
(* apply_envelope_to_document does with it.                                 *)
(*                                                                         *)
(* An envelope is a record with the name of its DocOp in `op` and the       *)
(* fields of that DocOp.  A block to insert is a skeleton: its kind, value  *)
(* and, by kind, its text, children (each with its id) or items (each with  *)
(* its id, task and children).                                              *)
(***************************************************************************)
EXTENDS Document

-----------------------------------------------------------------------------
(* Skeletons.                                                               *)

RECURSIVE NodeFromSkeleton(_, _)

\* The sequence of blocks a skeleton's children make, in their order.
ChildSeq(children) ==
    FromOrdered([i \in DOMAIN children |-> children[i].id],
                [i \in DOMAIN children |-> NodeFromSkeleton(children[i].block, children[i].id)])

\* block_from_skeleton and kind_from_skeleton: the text of a paragraph or
\* heading gets unit ids right after the block's own.
NodeFromSkeleton(sk, id) ==
    LET block == [id |-> id, elem_id |-> id, kind |-> sk.kind,
                  reg |-> Register(sk.value, id, NoVector)]
        unit(i) == [id EXCEPT !.counter = @ + i]
        item(x) == [NewItem([id |-> x.id], x.task) EXCEPT !.body = ChildSeq(x.children)]
    IN  CASE sk.kind = "text" ->
               [body |-> FromOrdered([i \in DOMAIN sk.text |-> unit(i)], sk.text),
                marks |-> NewMarks] @@ block
          [] sk.kind = "quote" -> [body |-> ChildSeq(sk.children)] @@ block
          [] sk.kind = "list" ->
               [body |-> FromOrdered([i \in DOMAIN sk.items |-> sk.items[i].id],
                                     [i \in DOMAIN sk.items |-> item(sk.items[i])]),
                moves |-> {}] @@ block
          [] sk.kind = "table" -> [table |-> NewTable] @@ block
          [] OTHER -> block

\* max_counter_in_kind: the highest counter a skeleton takes under an id.
RECURSIVE MaxCounterInKind(_, _)
MaxCounterInKind(sk, id) ==
    LET under(children) == {MaxCounterInKind(c.block, c.id) : c \in ToSet(children)}
    IN  CASE sk.kind = "text" -> id.counter + Len(sk.text)
          [] sk.kind = "quote" -> Max({id.counter} \cup under(sk.children))
          [] sk.kind = "list" ->
               Max({id.counter} \cup UNION {{x.id.counter} \cup under(x.children) :
                                               x \in ToSet(sk.items)})
          [] OTHER -> id.counter

\* check_kind_peers.
RECURSIVE KindPeers(_)
KindPeers(sk) ==
    LET under(children) == UNION {{c.id.peer} \cup KindPeers(c.block) : c \in ToSet(children)}
    IN  CASE sk.kind = "quote" -> under(sk.children)
          [] sk.kind = "list" -> UNION {{x.id.peer} \cup under(x.children) :
                                           x \in ToSet(sk.items)}
          [] OTHER -> {}

-----------------------------------------------------------------------------
(* What an operation embeds.                                                *)

\* Mutant of Extent: a merge is taken to use its own id only.
ExtentWithoutReplacements(e) ==
    CASE e.op = "InsertText" ->
           [last |-> e.units[Len(e.units)].id, span |-> Len(e.units)]
      [] OTHER -> [last |-> e.id, span |-> 1]

\* operation_extent: the highest id an operation embeds, which is the id it is
\* logged under, and the number of counters it takes.
Extent(e) ==
    LET up(hi) == [last |-> [e.id EXCEPT !.counter = hi], span |-> hi - e.id.counter + 1]
    IN  CASE e.op = "InsertBlock" -> up(MaxCounterInKind(e.block, e.id))
          [] e.op = "InsertText" ->
               LET counters == {u.id.counter : u \in ToSet(e.units)}
               IN  [last |-> [e.units[1].id EXCEPT !.counter = Max(counters)],
                    span |-> Max(counters) - Min(counters) + 1]
          [] e.op = "MoveBlocks" ->
               [last |-> e.id,
                span |-> e.id.counter - Min({m.id.counter : m \in ToSet(e.blocks)}) + 1]
          [] e.op = "MergeBlocks" ->
               up(Max({e.id.counter} \cup
                      {u.id.counter : u \in {x \in ToSet(e.units) :
                          x.id # x.source_id /\ x.id.peer = e.id.peer}}))
          [] OTHER -> [last |-> e.id, span |-> 1]

\* check_peer_consistency: a peer only allocates ids of its own.
PeerConsistent(e, peer) ==
    CASE e.op = "InsertBlock" -> e.id.peer = peer /\ KindPeers(e.block) \subseteq {peer}
      [] e.op = "InsertText" -> \A u \in ToSet(e.units) : u.id.peer = peer
      [] e.op = "MoveBlocks" -> e.id.peer = peer /\ \A m \in ToSet(e.blocks) : m.id.peer = peer
      [] e.op = "SplitBlock" -> TRUE
      [] e.op = "MergeBlocks" -> \A u \in ToSet(e.units) : u.id = u.source_id \/ u.id.peer = peer
      [] OTHER -> e.id.peer = peer

\* envelope_observed_frontier, empty for the operations that carry none.
ObservedFrontier(e) == IF "observed" \in DOMAIN e THEN e.observed ELSE NoVector

-----------------------------------------------------------------------------
(* apply_envelope_to_document.                                              *)

\* current_block_elem.
ElemOr(p, fallback) == IF p = <<>> THEN fallback ELSE Last(p)

CurrentBlockElem(d, id, fallback) == ElemOr(FindBlockById(d, id), fallback)

\* Mutant of ApplyDeleteById: the placement the author saw is deleted.
ApplyDeleteByPlacement(d, e) == DeleteBlockAt(d, e.parent, e.target)

DeleteAlong(d, e, p) ==
    DeleteBlockAt(d, IF p = <<>> THEN e.parent ELSE BlockParent(p), ElemOr(p, e.target))

\* DeleteBlockById: the block's current placement, wherever it is.
ApplyDeleteById(d, e) == DeleteAlong(d, e, FindBlockById(d, e.block_id))

\* InsertText, DeleteText.
WithText(d, e, F(_)) ==
    WithBlock(d, CurrentBlockElem(d, e.block_id, e.block_elem), LAMBDA n :
        IF n.kind = "text" THEN [n EXCEPT !.body = F(@)] ELSE n)

ApplyInsertText(d, e) ==
    WithText(d, e, LAMBDA s :
        FoldLeft(LAMBDA t, u : SeqInsert(t, Place(u), u.grapheme), s, e.units))

ApplyDeleteText(d, e) == WithText(d, e, LAMBDA s : FoldLeft(SeqDelete, s, e.targets))

\* SetMark, RemoveMark.
WithMarks(d, e, F(_)) ==
    WithBlock(d, CurrentBlockElem(d, e.block_id, e.block_elem), LAMBDA n :
        [n EXCEPT !.marks = F(@)])

ApplySetMark(d, e) ==
    WithMarks(d, e, LAMBDA m : SetMark(m, e.id, e.kind, e.start, e.end, e.attrs, e.id))

ApplyRemoveMark(d, e) ==
    WithMarks(d, e, LAMBDA m : RemoveMark(m, e.interval_id, e.observed, e.id))

\* SplitBlock: the suffix leaves the target, found by its placement, and a new
\* block takes it with all of the target's marks.
SuffixBlock(e, marks) ==
    [id |-> e.id, elem_id |-> e.id, kind |-> "text", reg |-> Register(e.value, e.id, NoVector),
     marks |-> marks,
     body |-> FromOrdered([i \in DOMAIN e.units |-> e.units[i].id],
                          [i \in DOMAIN e.units |-> e.units[i].grapheme])]

SplitAlong(d, e, p) ==
    IF p = <<>> THEN d
    ELSE InsertBlockAt(
             Update(d, p, LAMBDA n : [n EXCEPT !.body =
                 FoldLeft(LAMBDA s, u : SeqDelete(s, u.source_id), @, e.units)]),
             e.parent,
             [id |-> e.id, after |-> e.target, right_origin |-> e.right_origin],
             SuffixBlock(e, Node(d, p).marks))

ApplySplit(d, e) == SplitAlong(d, e, FindBlock(d, e.target))

\* MergeBlocks: the units go to the end of the left block, as a chain, with the
\* right block's marks; the right block is deleted.
UnitPlace(e, i) ==
    [id |-> e.units[i].id, after |-> IF i = 1 THEN e.after ELSE e.units[i - 1].id,
     right_origin |-> IF i = 1 THEN e.right_origin ELSE NoId]

Joined(n, e, marks) ==
    [n EXCEPT !.body = FoldLeft(LAMBDA s, i : SeqInsert(s, UnitPlace(e, i), e.units[i].grapheme),
                                @, [i \in DOMAIN e.units |-> i]),
              !.marks = MergeFrom(@, marks)]

MarksAt(d, p) == IF p = <<>> THEN NewMarks ELSE Node(d, p).marks

ApplyMerge(d, e) ==
    DeleteBlockAt(WithBlock(d, e.left, LAMBDA n : Joined(n, e, MarksAt(d, FindBlock(d, e.right)))),
                  e.parent, e.right)

\* The operations on a table's rows, columns and cells.
ApplyToTable(t, e) ==
    CASE e.op = "InsertTableRow" -> InsertRow(t, e, e.cells)
      [] e.op = "InsertTableColumn" -> InsertColumn(t, e.table_id, e, e.alignment, e.header)
      [] e.op = "SetTableCell" ->
           SetCell(t, e.row_id, e.column_id, e.value, e.id, e.observed)
      [] e.op = "DeleteTableRowById" ->
           [t EXCEPT !.rows = RemoveEntry(@, e.row_id, e.target)]
      [] e.op = "DeleteTableColumnById" ->
           [t EXCEPT !.columns = RemoveEntry(@, e.column_id, e.target)]
      [] e.op = "SetTableColumnAlignment" ->
           SetColumnAlignment(t, e.column_id, e.alignment, e.id, e.observed)
      [] e.op = "MoveTableRow" -> MoveRow(t, [logical_id |-> e.row_id] @@ e)
      [] e.op = "MoveTableColumn" -> MoveColumn(t, [logical_id |-> e.column_id] @@ e)

ApplyTable(d, e) ==
    WithBlock(d, CurrentBlockElem(d, e.table_id, e.table_elem), LAMBDA n :
        IF n.kind = "table" THEN [n EXCEPT !.table = ApplyToTable(@, e)] ELSE n)

\* MoveListItem: the destination is the list's current placement.
ApplyMoveListItem(d, e) ==
    MoveListItemAt(d, [e EXCEPT !.to_list_elem = CurrentBlockElem(d, e.list_id, @)])

\* InitializeFrontmatter: the first one to arrive stays.
ApplyInitializeFrontmatter(d, e) ==
    IF d.frontmatter.present THEN d ELSE [d EXCEPT !.frontmatter = e.frontmatter]

ApplyEnvelope(d, e) ==
    CASE e.op = "InsertBlock" -> InsertBlockAt(d, e.parent, e, NodeFromSkeleton(e.block, e.id))
      [] e.op = "DeleteBlock" -> DeleteBlockAt(d, e.parent, e.target)
      [] e.op = "DeleteBlockById" -> ApplyDeleteById(d, e)
      [] e.op = "InsertText" -> ApplyInsertText(d, e)
      [] e.op = "DeleteText" -> ApplyDeleteText(d, e)
      [] e.op = "SetMark" -> ApplySetMark(d, e)
      [] e.op = "RemoveMark" -> ApplyRemoveMark(d, e)
      [] e.op = "SetFrontmatterField" -> SetFrontmatterField(d, e.key, e.value, e.id)
      [] e.op = "InitializeFrontmatter" -> ApplyInitializeFrontmatter(d, e)
      [] e.op = "MoveBlocks" -> MoveBlocksAt(d, e.to_parent, e.blocks)
      [] e.op = "SplitBlock" -> ApplySplit(d, e)
      [] e.op = "MergeBlocks" -> ApplyMerge(d, e)
      [] e.op = "InsertListItem" ->
           InsertListItemAt(d, CurrentBlockElem(d, e.list_id, e.list_elem), e, e.task)
      [] e.op = "DeleteListItemById" -> DeleteListItemAt(d, e.list_elem, e.item_id, e.target)
      [] e.op = "MoveListItem" -> ApplyMoveListItem(d, e)
      [] e.op = "SetListItemTask" ->
           SetListItemTask(d, e.item_id, e.value, e.id, e.observed)
      [] e.op \in {"SetListStyle", "SetCodeFence", "ConvertTextBlock", "ReplaceRawBlock"} ->
           WriteBlock(d, CurrentBlockElem(d, e.block_id, e.block_elem), e.kind, e.value,
                      e.id, e.observed)
      [] OTHER -> ApplyTable(d, e)
=============================================================================
