------------------------------ MODULE Workspace ------------------------------
(***************************************************************************)
(* The workspace edit service (src/workspace.rs and the batch part of       *)
(* src/filesync/session.rs): edits that name blocks by logical id, the      *)
(* preconditions a batch carries, the change summary it reports, and paged  *)
(* reads.                                                                   *)
(*                                                                         *)
(* An edit is a record with its name in `edit`.  A digest is the value it   *)
(* hashes.  A text point is a place in a block: its start, its end, or a    *)
(* side of a unit.                                                          *)
(***************************************************************************)
EXTENDS Editing

-----------------------------------------------------------------------------
(* Text points.                                                             *)

Point(block, pos, unit, bias) ==
    [block_id |-> block, pos |-> pos, unit |-> unit, bias |-> bias]

\* text_point and text_range_for_sequence, of an offset into the visible units;
\* the end of a range hangs on the unit before it.
TextPoint(block, ids, offset, closing) ==
    CASE offset = 0 -> Point(block, "start", NoId, "before")
      [] offset > 0 /\ offset = Len(ids) -> Point(block, "end", NoId, "after")
      [] closing /\ offset \notin {0, Len(ids)} -> Point(block, "unit", ids[offset], "after")
      [] OTHER -> Point(block, "unit", ids[offset + 1], "before")

\* resolve_text_point, in the block n: a unit must be visible in it.
Resolves(n, pt) ==
    n.kind = "text" /\ (pt.pos = "unit" => pt.unit \in ToSet(VisibleIds(n.body)))

PositionOf(ids, x) == CHOOSE i \in DOMAIN ids : ids[i] = x

ResolveTextPoint(n, pt) ==
    CASE pt.pos = "start" -> 0
      [] pt.pos = "end" -> Len(VisibleIds(n.body))
      [] OTHER -> PositionOf(VisibleIds(n.body), pt.unit) - (IF pt.bias = "before" THEN 1 ELSE 0)

\* resolve_text_range, of two points.
RangeResolves(n, a, b) ==
    /\ a.block_id = b.block_id
    /\ Resolves(n, a) /\ Resolves(n, b)
    /\ ResolveTextPoint(n, a) <= ResolveTextPoint(n, b)

-----------------------------------------------------------------------------
(* Digests.                                                                 *)

\* hash_semantic_marks: kinds and attributes at the positions from .. to - 1.
SemanticMark(m) ==
    [kind |-> m.kind, attrs |-> [k \in DOMAIN m.attrs \ {"delimiter"} |-> m.attrs[k].value]]

MarksFrom(n, spans, from, to) ==
    [i \in 1 .. to - from |-> {SemanticMark(n.marks.intervals[id]) : id \in spans[from + i - 1]}]

SemanticMarks(n, from, to) == MarksFrom(n, RenderSpans(n.marks, VisibleIds(n.body)), from, to)

RowDigests(t, rows) == [i \in DOMAIN rows |-> RowCells(t, rows[i])]

ColumnDigests(columns) ==
    [i \in DOMAIN columns |-> <<columns[i].id, columns[i].alignment.value>>]

\* hash_block_node and list_item_node_digest.
NodeDigest(n) ==
    CASE n.kind = "text" -> <<n.kind, n.reg.value, VisibleValues(n.body),
                              SemanticMarks(n, 0, Len(VisibleIds(n.body)))>>
      [] n.kind = "table" -> <<n.kind, ColumnDigests(VisibleValues(n.table.columns)),
                               RowCells(n.table, n.id),
                               RowDigests(n.table, LogicalIds(n.table.rows))>>
      [] n.kind = "quote" -> <<n.kind>>
      [] OTHER -> <<n.kind, n.reg.value>>

\* Mutant of BlockDigest: what a container holds is left out.
ShallowDigest(n) == <<NodeDigest(n)>>

\* block_digest and list_item_digest.
RECURSIVE SubtreeDigest(_)
SubtreeDigest(n) ==
    <<NodeDigest(n), IF ~Holds(n) THEN <<>>
                     ELSE [i \in DOMAIN VisibleIds(n.body) |->
                              SubtreeDigest(n.body.value[VisibleIds(n.body)[i]])]>>

BlockDigest(n) == SubtreeDigest(n)

\* text_range_digest.
TextRangeDigest(n, from, to) ==
    <<n.id, SubSeq(VisibleValues(n.body), from + 1, to), SemanticMarks(n, from, to)>>

-----------------------------------------------------------------------------
(* The outline: every visible node with its parent, order and section.      *)

\* A block or an item, by logical id.
AnyPath(d, id) == FindPath(d, LAMBDA n : n.id = id)

AnyNode(d, id) == NodeOrNone(d, AnyPath(d, id))

Known(d, id) == AnyPath(d, id) # <<>>

ParentId(d, p) == IF Len(p) = 1 THEN NoId ELSE Node(d, Front(p)).id

Siblings(d, p) == IF Len(p) = 1 THEN d.blocks ELSE Node(d, Front(p)).body

\* The last heading among some siblings, NoId when there is none.
LastHeading(nodes) ==
    LET headings == SelectSeq(nodes, LAMBDA n : n.kind = "text" /\ n.reg.value > 0)
    IN  IF headings = <<>> THEN NoId ELSE Last(headings).id

\* The siblings up to one of them.
UpTo(s, id) == SubSeq(VisibleValues(s), 1, PositionOf(VisibleIds(s), id))

\* The last heading up to a node among its siblings, or its parent's section.
RECURSIVE SectionAt(_, _)
SectionAt(d, p) ==
    LET heading == LastHeading(UpTo(Siblings(d, p), Last(p)))
    IN  IF heading # NoId \/ Len(p) = 1 THEN heading ELSE SectionAt(d, Front(p))

\* block_hierarchy_counts: visible nodes below.
ChildCount(n) == IF Holds(n) THEN Len(VisibleIds(n.body)) ELSE 0

RECURSIVE DescendantCount(_)
DescendantCount(n) ==
    IF ~Holds(n) THEN 0
    ELSE FoldLeft(LAMBDA k, i : k + 1 + DescendantCount(n.body.value[i]), 0, VisibleIds(n.body))

\* capture_outline with block_descriptor and list_item_descriptor.
Descriptor(d, p, n) ==
    [parent |-> ParentId(d, p), order |-> PositionOf(VisibleIds(Siblings(d, p)), Last(p)),
     section |-> SectionAt(d, p), digest |-> NodeDigest(n),
     children |-> ChildCount(n), descendants |-> DescendantCount(n)]

NodeIds(d) == {Node(d, p).id : p \in ToSet(Paths(d))}

DescriptorOf(d, p) == Descriptor(d, p, Node(d, p))

CaptureOutline(d) == [id \in NodeIds(d) |-> DescriptorOf(d, AnyPath(d, id))]

\* The ids under a parent, in order.
ByOrder(outline, ids) ==
    [i \in 1 .. Cardinality(ids) |-> CHOOSE id \in ids : outline[id].order = i]

ChildIds(outline, parent) ==
    ByOrder(outline, {id \in DOMAIN outline : outline[id].parent = parent})

-----------------------------------------------------------------------------
(* Change summaries.                                                        *)

\* Patience sorting.  tails holds, per length, the index that ends the best run of
\* that length, prev the index before each.
Patience(items) ==
    LET slot(tails, i) == Cardinality({k \in DOMAIN tails : items[tails[k]] < items[i]})
        put(a, i, at) ==
            [tails |-> [k \in 1 .. Max({at + 1, Len(a.tails)}) |->
                           IF k = at + 1 THEN i ELSE a.tails[k]],
             prev |-> Append(a.prev, IF at = 0 THEN 0 ELSE a.tails[at])]
    IN  FoldLeft(LAMBDA a, i : put(a, i, slot(a.tails, i)), [tails |-> <<>>, prev |-> <<>>],
                 [i \in DOMAIN items |-> i])

\* Mutant of LongestIncreasing: the ends of the runs, not a run.
EndsOfRuns(items) == ToSet(Patience(items).tails)

\* longest_increasing_ids: back from the end of the longest run.
BackFrom(done) ==
    LET chain[i \in 0 .. Len(done.prev)] == IF i = 0 THEN {} ELSE {i} \cup chain[done.prev[i]]
    IN  IF done.tails = <<>> THEN {} ELSE chain[Last(done.tails)]

LongestIncreasing(items) == BackFrom(Patience(items))

\* reordered_ids: the children a parent kept, without a longest run that kept
\* its order.
OffTheRun(old, common) ==
    {common[i] : i \in DOMAIN common
                          \ LongestIncreasing([k \in DOMAIN common |-> PositionOf(old, common[k])])}

ReorderedAmong(old, new) ==
    OffTheRun(old, SelectSeq(new, LAMBDA id : \E k \in DOMAIN old : old[k] = id))

ParentsIn(outline) == {outline[id].parent : id \in DOMAIN outline}

ReorderedIds(before, after) ==
    UNION {ReorderedAmong(ChildIds(before, p), ChildIds(after, p)) :
              p \in ParentsIn(before) \cup ParentsIn(after)}

\* descriptor_content_changed.
ContentChanged(old, new) ==
    \/ old.digest # new.digest
    \/ old.children # new.children
    \/ old.descendants # new.descendants

\* The blocks a list of operations moved.
MovedBy(ops) ==
    UNION {{m.block_id : m \in ToSet(e.blocks)} : e \in {x \in ToSet(ops) : x.op = "MoveBlocks"}}

\* Blocks that were moved by an operation replace the ones found by comparison.
MovedIds(before, after, explicit) ==
    IF explicit # {} THEN explicit
    ELSE {id \in DOMAIN before \cap DOMAIN after : before[id].parent # after[id].parent}
            \cup ReorderedIds(before, after)

\* summarize_session_transition with summarize_outline_change: what a list of
\* operations changed.
WithAffected(before, after, c, changed) ==
    LET entries == {before[id] : id \in changed \cap DOMAIN before}
                      \cup {after[id] : id \in changed \cap DOMAIN after}
    IN  [affected_parents |-> {x.parent : x \in entries} \ {NoId},
         affected_sections |-> {x.section : x \in entries} \ {NoId}] @@ c

Affecting(before, after, c) ==
    WithAffected(before, after, c, c.created \cup c.deleted \cup c.moved \cup c.updated)

Summarize(before, after, ops) ==
    Affecting(before, after,
        [created |-> DOMAIN after \ DOMAIN before,
         deleted |-> DOMAIN before \ DOMAIN after,
         moved |-> MovedIds(before, after, MovedBy(ops)),
         updated |-> {id \in DOMAIN before \cap DOMAIN after : ContentChanged(before[id], after[id])},
         operation_count |-> Len(ops)])

\* The change summary of a session that went from s to t.
NewOperations(s, t) == SubSeq(t.ops, Len(s.ops) + 1, Len(t.ops))

Changes(s, t) ==
    Summarize(CaptureOutline(s.document), CaptureOutline(t.document), NewOperations(s, t))

-----------------------------------------------------------------------------
(* Drafts within limits.                                                    *)

DraftsBelow(draft) ==
    CASE draft.kind = "quote" -> draft.children
      [] draft.kind = "list" -> FlattenSeq([i \in DOMAIN draft.items |-> draft.items[i].children])
      [] OTHER -> <<>>

OwnSize(draft) ==
    [depth |-> 0,
     bytes |-> CASE draft.kind = "text" -> Len(draft.text)
                 [] draft.kind \in {"code", "raw"} -> 1
                 [] OTHER -> 0,
     items |-> 1 + (IF draft.kind = "list" THEN Len(draft.items) ELSE 0)]

AddSize(a, b) ==
    [depth |-> Max({a.depth, b.depth}), items |-> a.items + b.items, bytes |-> a.bytes + b.bytes]

\* visit of BlockDraft::validate: items and content of a draft, and its depth.
RECURSIVE DraftSize(_)
DraftSize(draft) ==
    [FoldLeft(LAMBDA a, c : AddSize(a, DraftSize(c)), OwnSize(draft), DraftsBelow(draft))
        EXCEPT !.depth = @ + 1]

Within(size, limits) ==
    /\ size.depth <= limits.max_depth
    /\ size.items <= limits.max_items
    /\ size.bytes <= limits.max_bytes

DraftFits(draft, limits) == Within(DraftSize(draft), limits)

-----------------------------------------------------------------------------
(* Edits: the calls each of them makes, once the logical ids it has are     *)
(* resolved.                                                                *)

\* The edits that put a block at a place.
PlacedCall(e) ==
    CASE e.edit = "InsertBlock" -> [call |-> "insert_draft", draft |-> e.draft]
      [] e.edit \in {"InsertParagraph", "InsertHeading"} ->
           [call |-> "insert_paragraph_in", level |-> e.level, text |-> e.text]
      [] e.edit = "InsertTable" -> [call |-> "insert_table_in", columns |-> e.columns]
      [] e.edit = "MoveBlock" -> [call |-> "move_block_ids", block_ids |-> <<e.block_id>>]

PlacedEdits == {"InsertBlock", "InsertParagraph", "InsertHeading", "InsertTable", "MoveBlock"}

\* resolve_container (quotes and list items hold blocks) and resolve_block_elem.
ApplyPlacedEdit(e, container, after, limits) ==
    Given(/\ e.parent = NoId \/ container.kind \in {"quote", "item"}
          /\ e.after = NoId \/ after # <<>>
          /\ e.edit = "InsertBlock" => DraftFits(e.draft, limits),
          <<[parent |-> IF e.parent = NoId THEN NoId ELSE container.elem_id,
             after |-> ElemOr(after, NoId)] @@ PlacedCall(e)>>)

\* Those at a point of a text, n being its block and p its path.
ApplyPointEdit(e, n, p) ==
    Given(Resolves(n, e.at),
          <<[block_id |-> n.id, offset |-> ResolveTextPoint(n, e.at)] @@
            (IF e.edit = "InsertText" THEN [call |-> "insert_text", text |-> e.text]
             ELSE [call |-> "split_block_in", parent |-> BlockParent(p)])>>)

\* Those over a range.
RangeCall(e, from, to) ==
    IF e.edit = "DeleteText" THEN [call |-> "delete_text", offset |-> from, count |-> to - from]
    ELSE [call |-> "set_mark", from |-> from, to |-> to, kind |-> e.kind, attrs |-> e.attrs]

ApplyRangeEdit(e, n) ==
    Given(RangeResolves(n, e.start, e.end),
          <<[block_id |-> n.id]
            @@ RangeCall(e, ResolveTextPoint(n, e.start), ResolveTextPoint(n, e.end))>>)

\* Those on a block at a path p.
ApplyBlockEdit(s, e, p) ==
    CASE e.edit = "DeleteBlock" ->
           Given(p # <<>>, <<[call |-> "delete_block_in", parent |-> BlockParent(p),
                              target |-> Last(p)]>>)
      [] e.edit = "MergeBlocks" ->
           Given(p # <<>>, <<[call |-> "merge_blocks_in", parent |-> BlockParent(p)] @@ e>>)
      [] e.edit = "MoveSection" ->
           Given(e.after = NoId \/ BlockPath(s, e.after) # <<>>,
                 <<[call |-> "move_section", after |-> ElemOr(BlockPath(s, e.after), NoId)] @@ e>>)
      [] e.edit = "ReplaceRawBlock" ->
           Given(Known(s.document, e.block_id)
                    /\ NodeDigest(AnyNode(s.document, e.block_id)) = e.expected,
                 <<[call |-> "replace_raw_block"] @@ e>>)

\* resolve_row_elem, resolve_column_elem, resolve_list_item_elem: a place in one
\* of the sequences of the list or the table n.
InSeq(n, kind, seq, e, call) ==
    Given(n.kind = kind /\ (e.after = NoId \/ IsLive(seq, e.after)),
          <<[call |-> call, block_id |-> n.id,
             after |-> IF e.after = NoId THEN NoId ELSE Placements(seq, e.after)[1]] @@ e>>)

ApplyListEdit(e, n, limits) ==
    CASE e.edit = "InsertListItem" ->
           IF ~DraftFits([kind |-> "list", items |-> <<e.item>>], limits)
           THEN <<[call |-> "refuse"]>>
           ELSE InSeq(n, "list", n.body, [items |-> <<e.item>>] @@ e, "insert_list_item_drafts")
      [] e.edit = "MoveListItem" -> InSeq(n, "list", n.body, e, "move_list_item")

ApplyTableEdit(e, n) ==
    CASE e.edit = "InsertTableRow" -> InSeq(n, "table", n.table.rows, e, "insert_table_row")
      [] e.edit = "InsertTableColumn" ->
           InSeq(n, "table", n.table.columns, e, "insert_table_column")
      [] e.edit = "MoveTableRow" -> InSeq(n, "table", n.table.rows, e, "move_table_row")
      [] e.edit = "MoveTableColumn" -> InSeq(n, "table", n.table.columns, e, "move_table_column")

\* The edits that are calls as they stand.
Forwarded ==
    [RemoveMark |-> "remove_mark", SetFrontmatterField |-> "set_frontmatter_field",
     WrapBlocks |-> "wrap_blocks", UnwrapBlockQuote |-> "unwrap_blockquote",
     SetCodeFence |-> "set_code_fence", ConvertTextBlock |-> "convert_text_block",
     DeleteListItem |-> "delete_list_item", SetListItemTask |-> "set_list_item_task",
     SetListStyle |-> "set_list_style", SetTableCell |-> "set_table_cell",
     SetTableRowCells |-> "set_table_row_cells", DeleteTableRow |-> "delete_table_row",
     DeleteTableColumn |-> "delete_table_column", SetTableMetadata |-> "set_table_metadata",
     SetTableColumnAlignment |-> "set_table_column_alignment"]

ListPlaces == {"InsertListItem", "MoveListItem"}

TablePlaces == {"InsertTableRow", "InsertTableColumn", "MoveTableRow", "MoveTableColumn"}

\* apply_workspace_edit.
ApplyWorkspaceEdit(s, e, limits) ==
    CASE e.edit \in DOMAIN Forwarded -> <<[call |-> Forwarded[e.edit]] @@ e>>
      [] e.edit \in TablePlaces -> ApplyTableEdit(e, TheBlock(s, e.block_id))
      [] e.edit \in ListPlaces -> ApplyListEdit(e, TheBlock(s, e.block_id), limits)
      [] e.edit \in {"InsertText", "SplitBlock"} ->
           ApplyPointEdit(e, TheBlock(s, e.at.block_id), BlockPath(s, e.at.block_id))
      [] e.edit \in {"DeleteText", "SetMark"} -> ApplyRangeEdit(e, TheBlock(s, e.start.block_id))
      [] e.edit \in PlacedEdits ->
           ApplyPlacedEdit(e, AnyNode(s.document, e.parent), BlockPath(s, e.after), limits)
      [] OTHER -> ApplyBlockEdit(s, e, BlockPath(s, e.block_id))

-----------------------------------------------------------------------------
(* Preconditions.  One that cannot be stated is <<"missing">>.              *)

BlockPrecondition(n) == IF n = NoNode THEN <<"missing">> ELSE <<"block", n.id, BlockDigest(n)>>

\* find_descriptor_children.
DescriptorChildren(d, parent) ==
    CASE parent = NoId -> d.blocks
      [] parent # NoId /\ Holds(AnyNode(d, parent)) -> AnyNode(d, parent).body
      [] OTHER -> NewSeq

\* placement_precondition: a place under a parent (of kind "quote" also for the top
\* level), and all that is there.
PlacementUnder(kind, ids, moved, parent, after) ==
    IF /\ kind \in {"quote", "item"} \/ (kind = "list" /\ moved # NoId)
       /\ after = NoId \/ \E i \in DOMAIN ids : ids[i] = after
    THEN <<"placement", moved, parent, after, ids>>
    ELSE <<"missing">>

PlacementPrecondition(d, moved, parent, after) ==
    PlacementUnder(IF parent = NoId THEN "quote" ELSE AnyNode(d, parent).kind,
                   LogicalIds(DescriptorChildren(d, parent)), moved, parent, after)

\* current_placement_precondition.
CurrentPlacement(d, id, p) ==
    IF p = <<>> THEN <<"missing">>
    ELSE PlacementPrecondition(d, id, ParentId(d, p),
             PriorTo(VisibleIds(Siblings(d, p)), Last(p), LogicalIds(Siblings(d, p))))

TableCellPrecondition(e, n) ==
    IF /\ n.kind = "table"
       /\ IsLive(n.table.columns, e.column_id)
       /\ e.row_id = n.id \/ IsLive(n.table.rows, e.row_id)
    THEN <<"cell", e.row_id, e.column_id, CellValue(n.table, <<e.row_id, e.column_id>>)>>
    ELSE <<"missing">>

TextPrecondition(e, n) ==
    IF RangeResolves(n, e.start, e.end)
    THEN <<"text", e.start, e.end,
           TextRangeDigest(n, ResolveTextPoint(n, e.start), ResolveTextPoint(n, e.end))>>
    ELSE <<"missing">>

\* preconditions_for_edit: what an edit depends on.  A "block" is to be as it is, one
\* that is "here" where it is; what is moved or new finds its place "there", or
\* "beside" a block.
Dependencies(e) ==
    LET block(id) == [on |-> "block", id |-> id]
        here(id) == [on |-> "here", id |-> id]
        there(moved, parent) ==
            [on |-> "there", moved |-> moved, parent |-> parent, after |-> e.after]
    IN  CASE e.edit = "MoveBlock" -> <<block(e.block_id), here(e.block_id), there(NoId, e.parent)>>
          [] e.edit \in PlacedEdits \ {"MoveBlock"} -> <<there(NoId, e.parent)>>
          [] e.edit = "DeleteBlock" -> <<block(e.block_id), here(e.block_id)>>
          [] e.edit \in {"InsertText", "SplitBlock"} -> <<[on |-> "point", id |-> e.at.block_id]>>
          [] e.edit \in {"DeleteText", "SetMark"} -> <<[on |-> "text", id |-> e.start.block_id]>>
          [] e.edit = "SetFrontmatterField" -> <<>>
          [] e.edit = "MoveSection" ->
               <<block(e.block_id), here(e.block_id), [on |-> "beside", id |-> e.block_id]>>
          [] e.edit = "MergeBlocks" ->
               <<block(e.block_id), block(e.right_id), here(e.block_id), here(e.right_id)>>
          [] e.edit = "SetTableCell" -> <<[on |-> "cell", id |-> e.block_id]>>
          [] e.edit = "MoveListItem" ->
               <<block(e.item_id), here(e.item_id), there(e.item_id, e.block_id)>>
          [] e.edit \in {"DeleteListItem", "SetListItemTask"} -> <<block(e.item_id)>>
          [] e.edit = "WrapBlocks" ->
               FlattenSeq([i \in DOMAIN e.block_ids |-> <<block(e.block_ids[i]), here(e.block_ids[i])>>])
          [] OTHER -> <<block(e.block_id)>>

\* One of them, as the document has it; p is the path of the block it names.
Precondition(d, e, x, p) ==
    CASE x.on = "block" -> BlockPrecondition(NodeOrNone(d, p))
      [] x.on = "here" -> CurrentPlacement(d, x.id, p)
      [] x.on = "beside" -> IF p = <<>> THEN <<"missing">>
                            ELSE PlacementPrecondition(d, NoId, ParentId(d, p), e.after)
      [] x.on = "point" -> IF ~Resolves(NodeOrNone(d, p), e.at) THEN <<"missing">>
                           ELSE BlockPrecondition(NodeOrNone(d, p))
      [] x.on = "text" -> TextPrecondition(e, NodeOrNone(d, p))
      [] x.on = "cell" -> TableCellPrecondition(e, NodeOrNone(d, p))

PreconditionsOn(d, e, deps) ==
    [i \in DOMAIN deps |->
        IF deps[i].on = "there"
        THEN PlacementPrecondition(d, deps[i].moved, deps[i].parent, deps[i].after)
        ELSE Precondition(d, e, deps[i], AnyPath(d, deps[i].id))]

PreconditionsForEdit(d, e) == PreconditionsOn(d, e, Dependencies(e))

-----------------------------------------------------------------------------
(* Batches: a base revision and edits, each with the preconditions its      *)
(* author captured, or none.                                                *)

\* revision_for.
Revision(s) == [document |-> s.document, state_vector |-> s.state_vector]

\* validate_batch_targets.
Unchanged(now, captured) == <<"missing">> \notin ToSet(now) /\ now = captured

ValidTarget(s, x, current) ==
    IF x.preconditions = <<>> THEN current
    ELSE Unchanged(PreconditionsForEdit(s.document, x.edit), x.preconditions)

ValidateBatchTargets(s, batch, current) ==
    IF batch.operations = <<>> THEN current
    ELSE \A i \in DOMAIN batch.operations : ValidTarget(s, batch.operations[i], current)

\* prepare_edit_batch: the edits of a batch, on a copy of the session, which is
\* installed only when every one of them went through.
PrepareEditBatch(s, batch, limits) ==
    Given(ValidateBatchTargets(s, batch, batch.base = Revision(s)),
          [i \in DOMAIN batch.operations |->
              [call |-> "apply_workspace_edit", edit |-> batch.operations[i].edit,
               limits |-> limits]])

-----------------------------------------------------------------------------
(* Paged reads.                                                             *)

NoCursor == [next_index |-> 0]

\* The physical positions in a sequence, past one, of the elements that are visible.
VisiblePast(s, index) ==
    SelectSeq([k \in DOMAIN s.order |-> k], LAMBDA k : k > index /\ s.order[k] \notin s.tombstones)

\* A page of at most limit elements, and where the next one starts.
PageOf(s, rest, limit, next) ==
    [items |-> [i \in 1 .. Min({limit, Len(rest)}) |-> s.value[s.order[rest[i]]].id],
     next |-> IF Len(rest) > limit THEN [next_index |-> next] ELSE NoCursor]

\* Mutant of DescriptorPage: the next page starts at the last element of this.
DescriptorPageOverlaps(s, cursor, limit) ==
    PageOf(s, VisiblePast(s, cursor.next_index), limit,
           VisiblePast(s, cursor.next_index)[limit] - 1)

\* descriptor_page of the children s of a node, at one revision: the cursor is a
\* physical position, with tombstones counted, one past the last element returned.
DescriptorPage(s, cursor, limit) ==
    PageOf(s, VisiblePast(s, cursor.next_index), limit,
           VisiblePast(s, cursor.next_index)[limit])

\* projection_page: requested ids from an offset on, up to a number of them and
\* of bytes, a block that fits alone taking its part of the budget.  stuck is
\* ItemTooLarge.
ProjectedSize(n) == 1 + (IF n.kind = "text" THEN Len(VisibleIds(n.body)) ELSE 0)

BytesOf(d, ids) == FoldLeft(LAMBDA a, id : a + ProjectedSize(AnyNode(d, id)), 0, ids)

\* How many of some ids a page takes.
Fitting(d, ids, max_bytes) ==
    Max({k \in 0 .. Len(ids) : k = 0 \/ BytesOf(d, SubSeq(ids, 1, k)) <= max_bytes})

Projected(d, ids, n, offset) ==
    LET page == {ids[i] : i \in 1 .. n}
    IN  [items |-> {id \in page : Known(d, id)}, omitted |-> {id \in page : ~Known(d, id)},
         stuck |-> n = 0 /\ ids # <<>>, offset |-> offset + n]

PageFrom(d, ids, max_bytes, offset) == Projected(d, ids, Fitting(d, ids, max_bytes), offset)

ProjectionPage(d, ids, offset, max_items, max_bytes) ==
    PageFrom(d, SubSeq(ids, offset + 1, Min({offset + max_items, Len(ids)})), max_bytes, offset)
=============================================================================
