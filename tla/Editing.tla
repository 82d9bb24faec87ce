------------------------------- MODULE Editing -------------------------------
(***************************************************************************)
(* The edits of a collaborative session (CollaborativeDocument of           *)
(* src/session/mod.rs).  A session has its peer, document, clock, state     *)
(* vector, and the operations it logged.                                    *)
(*                                                                         *)
(* A call of one of its methods is a record: the method's name in `call`,   *)
(* and its arguments.  A method that logs one operation is an operator that *)
(* gives the operation, or Refused; one that calls others gives the calls it *)
(* makes, each to be looked at when the ones before it are done.            *)
(***************************************************************************)
EXTENDS Wire

NewEditor(peer, peers) ==
    [peer |-> peer, document |-> NewDocument, next_counter |-> 1,
     state_vector |-> [p \in peers |-> 0], ops |-> <<>>, ok |-> TRUE]

PeekNextId(s) == [counter |-> s.next_counter, peer |-> s.peer]

\* The i-th of the ids that come next.
NextId(s, i) == [counter |-> s.next_counter + i - 1, peer |-> s.peer]

Refused == [op |-> "Refused"]

Nothing == [op |-> "Nothing"]

Ask(guard, e) == IF guard THEN e ELSE Refused

\* The calls of a method with a precondition.
Given(guard, calls) == IF guard THEN calls ELSE <<[call |-> "refuse"]>>

\* commit_single_id: document, log, clock.
Logged(s, e, last) ==
    [s EXCEPT !.document = ApplyEnvelope(@, e),
              !.ops = Append(@, e),
              !.state_vector[s.peer] = last.counter,
              !.next_counter = last.counter + 1]

Commit(s, e) ==
    CASE e.op = "Refused" -> [s EXCEPT !.ok = FALSE]
      [] e.op = "Nothing" -> s
      [] OTHER -> Logged(s, e, Extent(e).last)

NoNode == [kind |-> "none"]

NodeOrNone(d, p) == IF p = <<>> THEN NoNode ELSE Node(d, p)

BlockPath(s, id) == FindBlockById(s.document, id)

TheBlock(s, id) == NodeOrNone(s.document, BlockPath(s, id))

Anchored(seq, after) == after = NoId \/ HasElement(seq, after)

-----------------------------------------------------------------------------
(* Blocks and text.  n is the block a call is about, kids are the children  *)
(* of its container.                                                        *)

InsertBlockIn(s, x, kids) ==
    Ask(HasContainer(s.document, x.parent) /\ Anchored(kids, x.after),
        [op |-> "InsertBlock", parent |-> x.parent, after |-> x.after, id |-> PeekNextId(s),
         block |-> x.block, right_origin |-> RightNeighbour(kids.order, x.after)])

DeleteBlockIn(s, x, kids) ==
    Ask(HasContainer(s.document, x.parent) /\ x.target \in ToSet(VisibleIds(kids)),
        [op |-> "DeleteBlockById", parent |-> x.parent, target |-> x.target,
         block_id |-> kids.value[x.target].id, id |-> PeekNextId(s)])

\* after_for_grapheme_offset.
AfterOffset(body, offset) == IF offset = 0 THEN NoId ELSE VisibleIds(body)[offset]

TextUnits(s, n, text, after) ==
    [i \in DOMAIN text |->
        [id |-> NextId(s, i), grapheme |-> text[i],
         after |-> IF i = 1 THEN after ELSE NextId(s, i - 1),
         right_origin |-> IF i = 1 THEN RightNeighbour(n.body.order, after) ELSE NoId]]

InsertText(s, x, n) ==
    IF x.text = <<>> THEN Nothing
    ELSE Ask(n.kind = "text" /\ x.offset <= Len(VisibleIds(n.body)),
             [op |-> "InsertText", block_elem |-> n.elem_id, block_id |-> n.id,
              units |-> TextUnits(s, n, x.text, AfterOffset(n.body, x.offset))])

DeleteText(s, x, n) ==
    IF x.count = 0 THEN Nothing
    ELSE Ask(n.kind = "text" /\ x.offset + x.count <= Len(VisibleIds(n.body)),
             [op |-> "DeleteText", block_elem |-> n.elem_id, block_id |-> n.id,
              id |-> PeekNextId(s),
              targets |-> SubSeq(VisibleIds(n.body), x.offset + 1, x.offset + x.count)])

EmptyText(level) == [kind |-> "text", value |-> level, text |-> <<>>]

\* insert_paragraph_in, and the heading of insert_validated_draft.
InsertTextBlockIn(s, x) ==
    <<[call |-> "insert_block_in", parent |-> x.parent, after |-> x.after,
       block |-> EmptyText(x.level)],
      [call |-> "insert_text", block_id |-> PeekNextId(s), offset |-> 0, text |-> x.text]>>

-----------------------------------------------------------------------------
(* Marks: a half-open range of graphemes, from .. to - 1, counted from 0.   *)

\* grapheme_range_to_anchors.
RangeAnchors(ids, from, to) == <<Anchor(ids[from + 1], "before"), Anchor(ids[to], "after")>>

SetMarkOn(s, x, n) ==
    LET anchors == RangeAnchors(VisibleIds(n.body), x.from, x.to)
    IN  Ask(n.kind = "text" /\ x.from < x.to /\ x.to <= Len(VisibleIds(n.body)),
            [op |-> "SetMark", block_elem |-> n.elem_id, block_id |-> n.id, id |-> PeekNextId(s),
             kind |-> x.kind, attrs |-> x.attrs, start |-> anchors[1], end |-> anchors[2]])

RemoveMarkOn(s, x, n) ==
    Ask(n.kind = "text" /\ x.interval_id \in DOMAIN n.marks.intervals,
        [op |-> "RemoveMark", block_elem |-> n.elem_id, block_id |-> n.id,
         interval_id |-> x.interval_id, id |-> PeekNextId(s), observed |-> s.state_vector])

SetFrontmatter(s, x) ==
    [op |-> "SetFrontmatterField", id |-> PeekNextId(s), key |-> x.key, value |-> x.value]

InitializeFrontmatter(s, x) ==
    IF s.document.frontmatter.present THEN Nothing
    ELSE [op |-> "InitializeFrontmatter", id |-> PeekNextId(s), frontmatter |-> x.frontmatter]

-----------------------------------------------------------------------------
(* Moves.                                                                   *)

\* move_block_ids, of the blocks at some paths: the new placements are a chain of
\* fresh ids.  Whether the move wins is left to move_blocks_at.
MovedBlocks(s, x, kids, paths) ==
    [i \in DOMAIN paths |->
        [block_id |-> x.block_ids[i], target |-> Last(paths[i]), id |-> NextId(s, i),
         after |-> IF i = 1 THEN x.after ELSE NextId(s, i - 1),
         right_origin |-> IF i = 1 THEN RightNeighbour(kids.order, x.after) ELSE NoId]]

MoveBlockIds(s, x, kids, paths) ==
    LET all == ToSet(paths)
    IN  Ask(/\ paths # <<>>
            /\ HasContainer(s.document, x.parent)
            /\ Anchored(kids, x.after)
            /\ <<>> \notin all
            /\ \A p, q \in all : BlockParent(p) = BlockParent(q)
            /\ \A p \in all : /\ x.parent = NoId \/ ~ContainsContainer(Node(s.document, p), x.parent)
                              /\ Last(p) # x.after,
            [op |-> "MoveBlocks", to_parent |-> x.parent, id |-> NextId(s, Len(paths)),
             blocks |-> MovedBlocks(s, x, kids, paths)])

LogicalIds(kids) == [i \in DOMAIN VisibleIds(kids) |-> kids.value[VisibleIds(kids)[i]].id]

\* The element before the one with a logical id, NoId when that is the first.
PriorTo(ids, id, elems) ==
    LET at == CHOOSE i \in DOMAIN ids : ids[i] = id
    IN  IF at = 1 THEN NoId ELSE elems[at - 1]

ElementBefore(kids, id) == PriorTo(LogicalIds(kids), id, VisibleIds(kids))

\* wrap_blocks: contiguous siblings go into a new quote at their place.
WrapIn(s, ids, parent, kids) ==
    Given(/\ HasContainer(s.document, parent)
          /\ \E i, j \in DOMAIN VisibleIds(kids) : SubSeq(LogicalIds(kids), i, j) = ids,
          <<[call |-> "insert_block_in", parent |-> parent, after |-> ElementBefore(kids, ids[1]),
             block |-> [kind |-> "quote", value |-> 0, children |-> <<>>]],
            [call |-> "move_block_ids", block_ids |-> ids, parent |-> PeekNextId(s),
             after |-> NoId]>>)

WrapBlocks(s, ids, p) ==
    Given(ids # <<>> /\ p # <<>>,
          WrapIn(s, ids, BlockParent(p), ContainerChildren(s.document, BlockParent(p))))

\* unwrap_blockquote: the children go where the quote is, then it is deleted.
EmptyInto(s, quote, parent) ==
    IF VisibleIds(quote.body) = <<>> THEN <<>>
    ELSE <<[call |-> "move_block_ids", block_ids |-> LogicalIds(quote.body), parent |-> parent,
            after |-> ElementBefore(ContainerChildren(s.document, parent), quote.id)]>>

UnwrapBlockquote(s, quote, p) ==
    Given(quote.kind = "quote" /\ HasContainer(s.document, BlockParent(p)),
          EmptyInto(s, quote, BlockParent(p))
              \o <<[call |-> "delete_block_in", parent |-> BlockParent(p), target |-> Last(p)]>>)

\* move_section: a top-level heading and what follows it, up to the next
\* heading of its level or above.
SectionFrom(nodes, start) ==
    LET ends == {i \in start + 1 .. Len(nodes) :
                    nodes[i].kind = "text" /\ nodes[i].reg.value \in 1 .. nodes[start].reg.value}
        last == IF ends = {} THEN Len(nodes) ELSE Min(ends) - 1
    IN  [i \in 1 .. last - start + 1 |-> nodes[start + i - 1].id]

SectionOf(nodes, id) == SectionFrom(nodes, CHOOSE i \in DOMAIN nodes : nodes[i].id = id)

MoveSection(s, x, p, n) ==
    Given(Len(p) = 1 /\ n.kind = "text" /\ n.reg.value > 0,
          <<[call |-> "move_block_ids", parent |-> NoId, after |-> x.after,
             block_ids |-> SectionOf(VisibleValues(s.document.blocks), x.block_id)]>>)

-----------------------------------------------------------------------------
(* Split and merge.                                                         *)

SuffixUnits(body, offset) ==
    LET unit(u) == [source_id |-> u, id |-> u, grapheme |-> body.value[u]]
    IN  [i \in 1 .. Len(VisibleIds(body)) - offset |-> unit(VisibleIds(body)[offset + i])]

SplitBlockIn(s, x, kids, n) ==
    Ask(/\ HasContainer(s.document, x.parent)
        /\ x.block_id \in ToSet(LogicalIds(kids))
        /\ n.kind = "text" /\ x.offset <= Len(VisibleIds(n.body)),
        [op |-> "SplitBlock", parent |-> x.parent, target |-> n.elem_id, id |-> PeekNextId(s),
         value |-> n.reg.value, right_origin |-> RightNeighbour(kids.order, n.elem_id),
         units |-> SuffixUnits(n.body, x.offset)])

\* Mutant of MergeIds: the right block's units keep their ids.
MergeIdsAsTheyAre(s, left, right) == VisibleIds(right)

\* A unit of the right block keeps its id unless the left block's history has
\* it (the two were split from one), then it gets a fresh one after the action.
MergeIds(s, left, right) ==
    LET units == VisibleIds(right)
        clash(i) == units[i] \in Ids(left.elements)
        fresh(i) == NextId(s, 1 + Cardinality({j \in 1 .. i : clash(j)}))
    IN  [i \in DOMAIN units |-> IF clash(i) THEN fresh(i) ELSE units[i]]

MergeUnits(body, ids) ==
    [i \in DOMAIN ids |-> [source_id |-> VisibleIds(body)[i], id |-> ids[i],
                           grapheme |-> body.value[VisibleIds(body)[i]]]]

MergeBlocksIn(s, x, kids, left, right) ==
    LET after == AfterOffset(left.body, Len(VisibleIds(left.body)))
    IN  Ask(/\ HasContainer(s.document, x.parent)
            /\ \E i \in 1 .. Len(VisibleIds(kids)) - 1 :
                  SubSeq(LogicalIds(kids), i, i + 1) = <<x.block_id, x.right_id>>
            /\ left.kind = "text" /\ right.kind = "text",
            [op |-> "MergeBlocks", parent |-> x.parent, left |-> left.elem_id,
             right |-> right.elem_id, id |-> PeekNextId(s), after |-> after,
             right_origin |-> RightNeighbour(left.body.order, after),
             units |-> MergeUnits(right.body, MergeIds(s, left.body, right.body))])

-----------------------------------------------------------------------------
(* Lists and registers.  p is the path of an item, n a list.                *)

InsertListItem(s, x, n) ==
    Ask(n.kind = "list" /\ Anchored(n.body, x.after),
        [op |-> "InsertListItem", list_elem |-> n.elem_id, list_id |-> n.id, after |-> x.after,
         id |-> PeekNextId(s), task |-> x.task,
         right_origin |-> RightNeighbour(n.body.order, x.after)])

ItemPath(s, id) == FindListItemById(s.document, id)

DeleteListItem(s, x, p) ==
    Ask(p # <<>>, [op |-> "DeleteListItemById", list_elem |-> p[Len(p) - 1], target |-> Last(p),
                   item_id |-> x.item_id, id |-> PeekNextId(s)])

\* move_list_item: nothing keeps an item out of a list it contains.
MoveListItem(s, x, p, n) ==
    Ask(p # <<>> /\ n.kind = "list" /\ Anchored(n.body, x.after) /\ x.after # Last(p),
        [op |-> "MoveListItem", from_list_elem |-> p[Len(p) - 1], to_list_elem |-> n.elem_id,
         list_id |-> n.id, item_id |-> x.item_id, target |-> Last(p), id |-> PeekNextId(s),
         after |-> x.after, right_origin |-> RightNeighbour(n.body.order, x.after),
         observed |-> s.state_vector])

SetListItemTaskOf(s, x, p) ==
    Ask(p # <<>>, [op |-> "SetListItemTask", item_id |-> x.item_id, id |-> PeekNextId(s),
                   value |-> x.value, observed |-> s.state_vector])

\* set_list_style, set_code_fence, convert_text_block, replace_raw_block.
WriteBlockOf(s, op, kind, x, n) ==
    Ask(n.kind = kind, [op |-> op, kind |-> kind, block_elem |-> n.elem_id, block_id |-> n.id,
                        id |-> PeekNextId(s), value |-> x.value, observed |-> s.state_vector])

SetListStyle(s, x, n) == WriteBlockOf(s, "SetListStyle", "list", x, n)

SetCodeFence(s, x, n) == WriteBlockOf(s, "SetCodeFence", "code", x, n)

ConvertTextBlock(s, x, n) == WriteBlockOf(s, "ConvertTextBlock", "text", x, n)

ReplaceRawBlock(s, x, n) == WriteBlockOf(s, "ReplaceRawBlock", "raw", x, n)

-----------------------------------------------------------------------------
(* Tables.  n is the table's block.                                         *)

ColumnIds(t) == LogicalIds(t.columns)

\* An operation on a table, with its precondition.
AskTable(s, n, guard, e) ==
    Ask(n.kind = "table" /\ guard,
        e @@ [table_elem |-> n.elem_id, table_id |-> n.id, id |-> PeekNextId(s)])

InsertTableColumn(s, x, n) ==
    AskTable(s, n, Anchored(n.table.columns, x.after),
        [op |-> "InsertTableColumn", after |-> x.after, alignment |-> x.column.alignment,
         right_origin |-> RightNeighbour(n.table.columns.order, x.after),
         header |-> x.column.header])

\* Columns, one after the other; a column is an alignment and a header.
InsertTableColumns(s, x) ==
    IF x.columns = <<>> THEN <<>>
    ELSE <<[call |-> "insert_table_column", block_id |-> x.block_id, after |-> x.after,
            column |-> Head(x.columns)],
           [x EXCEPT !.after = PeekNextId(s), !.columns = Tail(@)]>>

\* insert_table_in: an empty table, then its columns.
InsertTableIn(s, x) ==
    <<[call |-> "insert_block_in", parent |-> x.parent, after |-> x.after,
       block |-> [kind |-> "table", value |-> 0]],
      [call |-> "insert_table_columns", block_id |-> PeekNextId(s), after |-> NoId,
       columns |-> x.columns]>>

InsertTableRow(s, x, n) ==
    AskTable(s, n, Anchored(n.table.rows, x.after) /\ Len(x.cells) = Len(ColumnIds(n.table)),
        [op |-> "InsertTableRow", after |-> x.after,
         right_origin |-> RightNeighbour(n.table.rows.order, x.after),
         cells |-> [i \in DOMAIN x.cells |->
                       [column_id |-> ColumnIds(n.table)[i], value |-> x.cells[i]]]])

SetTableCell(s, x, n) ==
    AskTable(s, n, /\ x.row_id = n.id \/ IsLive(n.table.rows, x.row_id)
                   /\ IsLive(n.table.columns, x.column_id),
        [op |-> "SetTableCell", row_id |-> x.row_id, column_id |-> x.column_id,
         value |-> x.value, observed |-> s.state_vector])

\* set_table_row_cells.
SetTableRowCells(x, n) ==
    Given(/\ n.kind = "table" /\ IsLive(n.table.rows, x.row_id)
          /\ x.cells # <<>> /\ Len(x.cells) = Len(ColumnIds(n.table)),
          [i \in DOMAIN x.cells |->
              [call |-> "set_table_cell", block_id |-> n.id, row_id |-> x.row_id,
               column_id |-> ColumnIds(n.table)[i], value |-> x.cells[i]]])

DeleteTableRow(s, x, n) ==
    AskTable(s, n, IsLive(n.table.rows, x.row_id),
        [op |-> "DeleteTableRowById", target |-> Placements(n.table.rows, x.row_id)[1],
         row_id |-> x.row_id])

SetTableColumnAlignment(s, x, n) ==
    AskTable(s, n, IsLive(n.table.columns, x.column_id),
        [op |-> "SetTableColumnAlignment", column_id |-> x.column_id, alignment |-> x.value,
         observed |-> s.state_vector])

DeleteTableColumn(s, x, n) ==
    AskTable(s, n, IsLive(n.table.columns, x.column_id),
        [op |-> "DeleteTableColumnById", column_id |-> x.column_id,
         target |-> Placements(n.table.columns, x.column_id)[1]])

\* set_table_metadata: the columns both have are rewritten where they differ,
\* the table's last ones deleted or the missing ones inserted.
RewriteColumn(id, old, header, new) ==
    (IF old.alignment.value = new.alignment THEN <<>>
     ELSE <<[call |-> "set_table_column_alignment", block_id |-> id, column_id |-> old.id,
             value |-> new.alignment]>>)
    \o (IF header = new.header THEN <<>>
        ELSE <<[call |-> "set_table_cell", block_id |-> id, row_id |-> id, column_id |-> old.id,
                value |-> new.header]>>)

SyncColumns(id, old, header, new) ==
    LET both == Min({Len(old), Len(new)})
    IN  FlattenSeq([i \in 1 .. both |-> RewriteColumn(id, old[i], header[i], new[i])])
        \o [i \in 1 .. Len(old) - both |->
               [call |-> "delete_table_column", block_id |-> id, column_id |-> old[both + i].id]]
        \o (IF Len(new) = both THEN <<>>
            ELSE <<[call |-> "insert_table_columns", block_id |-> id,
                    after |-> IF old = <<>> THEN NoId ELSE Last(old).elem_id,
                    columns |-> SubSeq(new, both + 1, Len(new))]>>)

MetadataCalls(t, id, columns) ==
    SyncColumns(id, VisibleValues(t.columns), RowCells(t, id), columns)

SetTableMetadata(x, n) ==
    Given(n.kind = "table" /\ MetadataCalls(n.table, n.id, x.columns) # <<>>,
          MetadataCalls(n.table, n.id, x.columns))

\* move_table_row, move_table_column.
MoveTableEntry(s, x, n, op, seq, target) ==
    AskTable(s, n, target # <<>> /\ Anchored(seq, x.after) /\ x.after # target[1],
        [op |-> op, target |-> target[1], after |-> x.after, observed |-> s.state_vector,
         right_origin |-> RightNeighbour(seq.order, x.after)])

MoveTableRow(s, x, n) ==
    MoveTableEntry(s, x, n, "MoveTableRow", n.table.rows, Placements(n.table.rows, x.row_id))
        @@ [row_id |-> x.row_id]

MoveTableColumn(s, x, n) ==
    MoveTableEntry(s, x, n, "MoveTableColumn", n.table.columns,
                   Placements(n.table.columns, x.column_id))
        @@ [column_id |-> x.column_id]

-----------------------------------------------------------------------------
(* Drafts: trees of blocks to insert, node by node.  A draft has a kind, a  *)
(* value and a text, children or items (each with a task and children).     *)

\* Drafts one after the other.
InsertDrafts(s, x) ==
    IF x.drafts = <<>> THEN <<>>
    ELSE <<[call |-> "insert_draft", parent |-> x.parent, after |-> x.after,
            draft |-> Head(x.drafts)],
           [x EXCEPT !.after = PeekNextId(s), !.drafts = Tail(@)]>>

\* insert_list_item_draft, of items one after the other.
InsertListItemDrafts(s, x) ==
    IF x.items = <<>> THEN <<>>
    ELSE <<[call |-> "insert_list_item", block_id |-> x.block_id, after |-> x.after,
            task |-> Head(x.items).task],
           [call |-> "insert_drafts", parent |-> PeekNextId(s), after |-> NoId,
            drafts |-> Head(x.items).children],
           [x EXCEPT !.after = PeekNextId(s), !.items = Tail(@)]>>

\* insert_validated_draft.
InsertDraftIn(s, x, draft) ==
    LET empty == [kind |-> draft.kind, value |-> draft.value]
        insert(block) == [call |-> "insert_block_in", parent |-> x.parent, after |-> x.after,
                          block |-> block]
    IN  CASE draft.kind = "text" ->
               <<[call |-> "insert_paragraph_in", parent |-> x.parent, after |-> x.after,
                  level |-> draft.value, text |-> draft.text]>>
          [] draft.kind = "quote" ->
               <<insert([children |-> <<>>] @@ empty),
                 [call |-> "insert_drafts", parent |-> PeekNextId(s), after |-> NoId,
                  drafts |-> draft.children]>>
          [] draft.kind = "list" ->
               <<insert([items |-> <<>>] @@ empty),
                 [call |-> "insert_list_item_drafts", block_id |-> PeekNextId(s),
                  after |-> NoId, items |-> draft.items]>>
          [] OTHER -> <<insert(empty)>>

-----------------------------------------------------------------------------
(* Calls.                                                                   *)

\* The operation of a call about a block.
BlockOperation(s, x, n) ==
    CASE x.call = "insert_text" -> InsertText(s, x, n)
      [] x.call = "delete_text" -> DeleteText(s, x, n)
      [] x.call = "set_mark" -> SetMarkOn(s, x, n)
      [] x.call = "remove_mark" -> RemoveMarkOn(s, x, n)
      [] x.call = "split_block_in" ->
           SplitBlockIn(s, x, ContainerChildren(s.document, x.parent), n)
      [] x.call = "merge_blocks_in" ->
           MergeBlocksIn(s, x, ContainerChildren(s.document, x.parent), n,
                         TheBlock(s, x.right_id))
      [] x.call = "insert_list_item" -> InsertListItem(s, x, n)
      [] x.call = "move_list_item" -> MoveListItem(s, x, ItemPath(s, x.item_id), n)
      [] x.call = "set_list_style" -> SetListStyle(s, x, n)
      [] x.call = "set_code_fence" -> SetCodeFence(s, x, n)
      [] x.call = "convert_text_block" -> ConvertTextBlock(s, x, n)
      [] x.call = "replace_raw_block" -> ReplaceRawBlock(s, x, n)
      [] x.call = "insert_table_column" -> InsertTableColumn(s, x, n)
      [] x.call = "insert_table_row" -> InsertTableRow(s, x, n)
      [] x.call = "set_table_cell" -> SetTableCell(s, x, n)
      [] x.call = "delete_table_row" -> DeleteTableRow(s, x, n)
      [] x.call = "set_table_column_alignment" -> SetTableColumnAlignment(s, x, n)
      [] x.call = "delete_table_column" -> DeleteTableColumn(s, x, n)
      [] x.call = "move_table_row" -> MoveTableRow(s, x, n)
      [] x.call = "move_table_column" -> MoveTableColumn(s, x, n)

\* Of one about a place in a container.
PlaceOperation(s, x, kids) ==
    CASE x.call = "insert_block_in" -> InsertBlockIn(s, x, kids)
      [] x.call = "delete_block_in" -> DeleteBlockIn(s, x, kids)
      [] x.call = "move_block_ids" ->
           MoveBlockIds(s, x, kids, [i \in DOMAIN x.block_ids |-> BlockPath(s, x.block_ids[i])])

\* The operation of a call that logs one.
OperationOf(s, x) ==
    CASE x.call = "refuse" -> Refused
      [] x.call = "set_frontmatter_field" -> SetFrontmatter(s, x)
      [] x.call = "initialize_frontmatter" -> InitializeFrontmatter(s, x)
      [] x.call = "delete_list_item" -> DeleteListItem(s, x, ItemPath(s, x.item_id))
      [] x.call = "set_list_item_task" -> SetListItemTaskOf(s, x, ItemPath(s, x.item_id))
      [] x.call \in {"insert_block_in", "delete_block_in", "move_block_ids"} ->
           PlaceOperation(s, x, ContainerChildren(s.document, x.parent))
      [] OTHER -> BlockOperation(s, x, TheBlock(s, x.block_id))

\* The calls that make others.
Compound == {"insert_paragraph_in", "insert_table_in", "insert_table_columns", "wrap_blocks",
             "unwrap_blockquote", "move_section", "set_table_row_cells", "set_table_metadata",
             "insert_drafts", "insert_draft", "insert_list_item_drafts"}

CallsOf(s, x) ==
    CASE x.call = "insert_paragraph_in" -> InsertTextBlockIn(s, x)
      [] x.call = "insert_table_in" -> InsertTableIn(s, x)
      [] x.call = "insert_table_columns" -> InsertTableColumns(s, x)
      [] x.call = "wrap_blocks" -> WrapBlocks(s, x.block_ids, BlockPath(s, x.block_ids[1]))
      [] x.call = "unwrap_blockquote" ->
           UnwrapBlockquote(s, TheBlock(s, x.block_id), BlockPath(s, x.block_id))
      [] x.call = "move_section" ->
           MoveSection(s, x, BlockPath(s, x.block_id), TheBlock(s, x.block_id))
      [] x.call = "set_table_row_cells" -> SetTableRowCells(x, TheBlock(s, x.block_id))
      [] x.call = "set_table_metadata" -> SetTableMetadata(x, TheBlock(s, x.block_id))
      [] x.call = "insert_drafts" -> InsertDrafts(s, x)
      [] x.call = "insert_draft" -> InsertDraftIn(s, x, x.draft)
      [] x.call = "insert_list_item_drafts" -> InsertListItemDrafts(s, x)
=============================================================================
