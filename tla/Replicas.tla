------------------------------ MODULE Replicas -------------------------------
(***************************************************************************)
(* Two vaults that share one document.  Each edits it through the workspace *)
(* service, ingests files into it, previews and submits edit batches, and   *)
(* pulls what the other one logged.                                         *)
(*                                                                         *)
(* What a peer pulls has nothing to wait for: the other peer cannot have    *)
(* observed more of it than it made.  Module Collaboration has the          *)
(* deliveries that arrive early.                                            *)
(***************************************************************************)
EXTENDS Ingest

CONSTANT Deployments

\* A deployment has the file peer 1 made the document from (file), the edits each
\* peer makes, how many, and the files it ingests (edits, budget, files), the kinds
\* of block they delete, move and wrap (targets), the blocks they insert (drafts),
\* the edits peer 1 previews (batches), and the peers whose edits only divide the
\* text anew (restructuring).
Peers == {1, 2}

Limits == [max_depth |-> 2, max_items |-> 4, max_bytes |-> 3]

ASSUME DeploymentsAssumption ==
    \A d \in Deployments : d.budget \in [Peers -> Nat] /\ d.restructuring \subseteq Peers

VARIABLES
    deployment,     \* fixed at the start
    session,        \* session[r]: the session of vault r
    budget,         \* budget[r]: edits and ingests vault r may still make
    batch,          \* the batch vault 1 previewed last, with what it would do
    ingested        \* ingested[r]: the file vault r ingested last, until its next step

vars == <<deployment, session, budget, batch, ingested>>

NoBatch == [operations |-> <<>>]

NoFile == [blocks |-> <<>>]

\* apply_remote: what q logged and r has not seen, in q's order.
NewOps(s, q) ==
    SelectSeq(q.ops, LAMBDA e : LET last == Extent(e).last
                                IN  last.peer = q.peer /\ last.counter > s.state_vector[q.peer])

Integrate(s, q, new) ==
    [s EXCEPT !.document = FoldLeft(ApplyEnvelope, @, new),
              !.ops = @ \o new,
              !.state_vector[q.peer] = q.state_vector[q.peer]]

ApplyRemote(s, q) == Integrate(s, q, NewOps(s, q))

\* The author's session, and one that pulled from it.
Shared(author) ==
    [r \in Peers |-> IF r = 1 THEN author ELSE ApplyRemote(NewEditor(r, Peers), author)]

IngestOf(file) == [call |-> "ingest", file |-> file]

Init ==
    /\ deployment \in Deployments
    /\ session = Shared(Do(NewEditor(1, Peers), IngestOf(deployment.file)))
    /\ budget = deployment.budget
    /\ batch = NoBatch
    /\ ingested = [r \in Peers |-> NoFile]

-----------------------------------------------------------------------------
(* The edits a host may ask for, of the kinds it uses.                      *)

OfKind(d, kinds) ==
    {Node(d, p).id : p \in {q \in ToSet(Paths(d)) : Node(d, q).kind \in kinds}}

\* Points and ranges of a text with these units.
PointsIn(b, ids) == {[at |-> TextPoint(b, ids, o, FALSE)] : o \in 0 .. Len(ids)}

RangesIn(b, ids) ==
    {[start |-> TextPoint(b, ids, o[1], FALSE), end |-> TextPoint(b, ids, o[2], TRUE)] :
        o \in {x \in (0 .. Len(ids)) \X (0 .. Len(ids)) : x[1] < x[2]}}

\* Places of one kind, of every block that has some.
PlacesIn(d, kinds, In(_, _)) == UNION {In(b, AnyNode(d, b)) : b \in OfKind(d, kinds)}

Points(d) == PlacesIn(d, {"text"}, LAMBDA b, n : PointsIn(b, VisibleIds(n.body)))

Ranges(d) == PlacesIn(d, {"text"}, LAMBDA b, n : RangesIn(b, VisibleIds(n.body)))

MarksOn(d) ==
    PlacesIn(d, {"text"}, LAMBDA b, n :
        {[block_id |-> b, interval_id |-> i] : i \in ActiveIntervals(n.marks)})

\* Records with one field more.
With(records, field, values) == {r @@ (field :> v) : r \in records, v \in values}

After(s) == {NoId} \cup ToSet(LogicalIds(s))

Places(d) ==
    With({[parent |-> NoId]}, "after", After(d.blocks))
        \cup PlacesIn(d, {"quote", "item"}, LAMBDA c, n : With({[parent |-> c]}, "after", After(n.body)))

\* Of the lists, the rows and the columns of the tables.
ListPoints(d) ==
    PlacesIn(d, {"list"}, LAMBDA b, n : With({[block_id |-> b]}, "after", After(n.body)))

RowPoints(d) ==
    PlacesIn(d, {"table"}, LAMBDA b, n : With({[block_id |-> b]}, "after", After(n.table.rows)))

ColumnPoints(d) ==
    PlacesIn(d, {"table"}, LAMBDA b, n : With({[block_id |-> b]}, "after", After(n.table.columns)))

Rows(d) ==
    PlacesIn(d, {"table"}, LAMBDA b, n :
        With({[block_id |-> b]}, "row_id", ToSet(LogicalIds(n.table.rows))))

Columns(d) ==
    PlacesIn(d, {"table"}, LAMBDA b, n :
        With({[block_id |-> b]}, "column_id", ToSet(LogicalIds(n.table.columns))))

\* Every record of one set with every record of another that does not contradict it.
Join(A, B) == {a @@ b : a \in A, b \in B}

\* As many cells as a table has columns.
CellsOf(d, w) == {[i \in 1 .. k |-> w] : k \in {Cardinality(Columns(d))}}

Ones(field, values) == {field :> v : v \in values}

BlocksOf(d, kind) == Ones("block_id", OfKind(d, {kind}))

Targets(d) == Ones("block_id", OfKind(d, deployment.targets))

PlacedEditsOf(d, kind, w) ==
    CASE kind = "InsertBlock" -> Ones("draft", deployment.drafts)
      [] kind = "InsertParagraph" -> {[level |-> 0, text |-> <<w>>]}
      [] kind = "InsertHeading" -> {[level |-> 1, text |-> <<w>>]}
      [] kind = "InsertTable" -> {[columns |-> <<[alignment |-> "none", header |-> w]>>]}
      [] kind = "MoveBlock" -> Targets(d)

BlockEdits(d, kind, w) ==
    CASE kind = "MoveSection" -> With(BlocksOf(d, "text"), "after", After(d.blocks))
      [] kind = "DeleteBlock" -> Targets(d)
      [] kind = "InsertText" -> With(Points(d), "text", {<<w>>})
      [] kind = "SplitBlock" -> Points(d)
      [] kind = "DeleteText" -> Ranges(d)
      [] kind = "SetMark" -> Join(Ranges(d), {[kind |-> "strong", attrs |-> <<>>]})
      [] kind = "RemoveMark" -> MarksOn(d)
      [] kind = "SetFrontmatterField" -> {[key |-> "tags", value |-> v] : v \in {w, ""}}
      [] kind = "MergeBlocks" -> With(BlocksOf(d, "text"), "right_id", OfKind(d, {"text"}))
      [] kind = "UnwrapBlockQuote" -> Targets(d)
      [] kind = "WrapBlocks" ->
           {[block_ids |-> s] : s \in {<<x.block_id>> : x \in Targets(d)}
                                         \cup {<<x.block_id, y.block_id>> : x, y \in Targets(d)}}
      [] kind = "SetCodeFence" -> With(BlocksOf(d, "code"), "value", {w})
      [] kind = "ConvertTextBlock" -> With(BlocksOf(d, "text"), "value", {0, 1})
      [] kind = "ReplaceRawBlock" ->
           {[block_id |-> b, expected |-> NodeDigest(AnyNode(d, b)), value |-> w] :
               b \in OfKind(d, {"raw"})}

ListEdits(d, kind, w) ==
    CASE kind = "InsertListItem" ->
           With(ListPoints(d), "item",
                {[task |-> "todo", children |-> <<[kind |-> "text", value |-> 0, text |-> <<w>>]>>]})
      [] kind = "MoveListItem" -> With(ListPoints(d), "item_id", OfKind(d, {"item"}))
      [] kind = "DeleteListItem" -> Ones("item_id", OfKind(d, {"item"}))
      [] kind = "SetListItemTask" -> With(Ones("item_id", OfKind(d, {"item"})), "value", {w})
      [] kind = "SetListStyle" -> With(BlocksOf(d, "list"), "value", {w})

TableEdits(d, kind, w) ==
    CASE kind = "InsertTableRow" -> With(RowPoints(d), "cells", CellsOf(d, w))
      [] kind = "InsertTableColumn" ->
           With(ColumnPoints(d), "column", {[alignment |-> "none", header |-> w]})
      [] kind = "SetTableCell" ->
           With(Join(Columns(d), Rows(d) \cup Ones("row_id", OfKind(d, {"table"}))), "value", {w})
      [] kind = "SetTableRowCells" -> With(Rows(d), "cells", CellsOf(d, w))
      [] kind = "DeleteTableRow" -> Rows(d)
      [] kind = "DeleteTableColumn" -> Columns(d)
      [] kind = "SetTableColumnAlignment" -> With(Columns(d), "value", {w})
      [] kind = "SetTableMetadata" ->
           With(BlocksOf(d, "table"), "columns", {<<[alignment |-> "left", header |-> w]>>})
      [] kind = "MoveTableRow" -> Join(Rows(d), RowPoints(d))
      [] kind = "MoveTableColumn" -> Join(Columns(d), ColumnPoints(d))

ListKinds == {"InsertListItem", "MoveListItem", "DeleteListItem", "SetListItemTask", "SetListStyle"}

TableKinds == {"InsertTableRow", "InsertTableColumn", "SetTableCell", "SetTableRowCells",
               "DeleteTableRow", "DeleteTableColumn", "SetTableColumnAlignment",
               "SetTableMetadata", "MoveTableRow", "MoveTableColumn"}

Word == <<"x", "y">>

EditsOf(d, k, w) ==
    CASE k \in ListKinds -> ListEdits(d, k, w)
      [] k \in TableKinds -> TableEdits(d, k, w)
      [] k \in PlacedEdits -> Join(Places(d), PlacedEditsOf(d, k, w))
      [] OTHER -> BlockEdits(d, k, w)

Edits(r, kinds) ==
    UNION {With(EditsOf(session[r].document, k, Word[r]), "edit", {k}) : k \in kinds}

-----------------------------------------------------------------------------
(* Steps.                                                                   *)

\* Vault r goes on with session s; what was refused half way keeps its start.
Becomes(r, s) == session' = [session EXCEPT ![r] = [s EXCEPT !.ok = TRUE]]

Spend(r) == budget' = [budget EXCEPT ![r] = @ - 1]

\* with_local_edit.
EditOf(e) == [call |-> "apply_workspace_edit", edit |-> e, limits |-> Limits]

LocalEdit(r) ==
    /\ budget[r] > 0
    /\ \E e \in Edits(r, deployment.edits[r]) : Becomes(r, Do(session[r], EditOf(e)))
    /\ session' # session
    /\ Spend(r)
    /\ ingested' = [ingested EXCEPT ![r] = NoFile]
    /\ UNCHANGED <<deployment, batch>>

\* ingest, of a file, or of the same file again.
Ingested(r, file, s) ==
    /\ Becomes(r, s)
    /\ ingested' = [ingested EXCEPT ![r] = IF s.ok THEN file ELSE NoFile]

IngestFile(r) ==
    /\ \E file \in deployment.files[r] :
          /\ IF ingested[r] = file THEN UNCHANGED budget ELSE budget[r] > 0 /\ Spend(r)
          /\ Ingested(r, file, Do(session[r], IngestOf(file)))
    /\ UNCHANGED <<deployment, batch>>

Pull(r, q) ==
    /\ NewOps(session[r], session[q]) # <<>>
    /\ session' = [session EXCEPT ![r] = ApplyRemote(@, session[q])]
    /\ ingested' = [ingested EXCEPT ![r] = NoFile]
    /\ UNCHANGED <<deployment, budget, batch>>

\* What a batch does to the blocks that are there: the ones it deletes, moves
\* and rewrites.
EffectOf(before, after, changes) ==
    [deleted |-> changes.deleted, moved |-> changes.moved,
     rewritten |-> {id \in DOMAIN before \cap DOMAIN after : before[id].digest # after[id].digest}]

Effect(s, t) == EffectOf(CaptureOutline(s.document), CaptureOutline(t.document), Changes(s, t))

\* preview_edit_batch of one edit: its preconditions, the revision, and what it
\* would do.
Batch(s, e) ==
    [base |-> Revision(s),
     operations |-> <<[edit |-> e, preconditions |-> PreconditionsForEdit(s.document, e)]>>]

BatchOf(b) == [call |-> "prepare_edit_batch", batch |-> b, limits |-> Limits]

Preview(b, t) == t.ok /\ batch' = [effect |-> Effect(session[1], t)] @@ b

PreviewBatch ==
    /\ batch = NoBatch /\ budget[1] > 0
    /\ \E b \in {Batch(session[1], e) : e \in Edits(1, deployment.batches)} :
          Preview(b, Do(session[1], BatchOf(b)))
    /\ UNCHANGED <<deployment, session, budget, ingested>>

\* apply_previewed_batch: installed when it still applies, else refused.
Install(t) == session' = IF t.ok THEN [session EXCEPT ![1] = t] ELSE session

SubmitBatch ==
    /\ batch # NoBatch
    /\ Install(Do(session[1], BatchOf(batch)))
    /\ batch' = NoBatch
    /\ budget' = [budget EXCEPT ![1] = 0]
    /\ ingested' = [ingested EXCEPT ![1] = NoFile]
    /\ UNCHANGED deployment

Next ==
    \/ \E r \in Peers : LocalEdit(r)
    \/ \E r \in Peers : IngestFile(r)
    \/ \E r, q \in Peers : Pull(r, q)
    \/ PreviewBatch
    \/ SubmitBatch

Spec == Init /\ [][Next]_vars

-----------------------------------------------------------------------------
(* Properties.                                                              *)

\* Vaults that have seen the same operations show the same document: the same
\* blocks at the same places with the same content, and the same frontmatter
\* (apply_envelope_to_document; "All replicas retain the same sequence history
\* independent of delivery order", docs/architecture-evolution-plan-state.md:130).
Shown(d) ==
    [outline |-> CaptureOutline(d),
     frontmatter |-> IF d.frontmatter.present THEN ToSet(RenderFrontmatter(d.frontmatter)) ELSE {}]
Convergence ==
    session[1].state_vector = session[2].state_vector
        => Shown(session[1].document) = Shown(session[2].document)

\* The nodes an operation creates, with the container it names.
CreatedBy(sk, id, parent) ==
    {[id |-> id, parent |-> parent]} \cup
    (IF sk.kind # "list" THEN {}
     ELSE {[id |-> x.id, parent |-> id] : x \in ToSet(sk.items)})
Placed(e) ==
    CASE e.op = "InsertBlock" -> CreatedBy(e.block, e.id, e.parent)
      [] e.op = "SplitBlock" -> {[id |-> e.id, parent |-> e.parent]}
      [] e.op = "InsertListItem" -> {[id |-> e.id, parent |-> e.list_id]}
      [] e.op = "MoveListItem" -> {[id |-> e.item_id, parent |-> e.list_id]}
      [] e.op = "MoveBlocks" -> {[id |-> m.block_id, parent |-> e.to_parent] : m \in ToSet(e.blocks)}
      [] OTHER -> {}
Logical(ops, elem) ==
    LET moves == UNION {ToSet(e.blocks) : e \in {x \in ops : x.op = "MoveBlocks"}}
    IN  IF \E m \in moves : m.id = elem THEN (CHOOSE m \in moves : m.id = elem).block_id ELSE elem
Removed(ops) ==
    {e.block_id : e \in {x \in ops : x.op = "DeleteBlockById"}}
        \cup {e.item_id : e \in {x \in ops : x.op = "DeleteListItemById"}}
        \cup {Logical(ops, e.right) : e \in {x \in ops : x.op = "MergeBlocks"}}

\* Blocks and list items are neither lost nor doubled by concurrent moves,
\* splits, merges and deletes (move_blocks_at, move_list_item_at, DeleteBlockById
\* in apply_envelope_to_document; "Logical-id delete wins", the row after
\* docs/architecture-evolution-plan-state.md:130): each is at one place, none that
\* was deleted shows, and one that does not show was deleted or was put into a
\* container that does not show.
ConservedIn(shown, placed, removed, ops) ==
    /\ \A i, j \in DOMAIN shown : shown[i] = shown[j] => i = j
    /\ ToSet(shown) \cap removed = {}
    /\ \A x \in placed : x.id \notin ToSet(shown) =>
          \/ x.id \in removed
          \/ \E y \in placed : /\ y.id = x.id /\ y.parent # NoId
                               /\ Logical(ops, y.parent) \notin ToSet(shown)
ShownIds(d, paths) == [i \in DOMAIN paths |-> Node(d, paths[i]).id]
ConservedBy(d, ops) ==
    ConservedIn(ShownIds(d, Paths(d)), UNION {Placed(e) : e \in ops}, Removed(ops), ops)
BlocksConserved == \A r \in Peers : ConservedBy(session[r].document, ToSet(session[r].ops))

\* The ids an operation allocates, read off its fields.
Allocated(e) ==
    CASE e.op = "InsertText" -> {u.id : u \in ToSet(e.units)}
      [] e.op = "InsertBlock" ->
           {x.id : x \in CreatedBy(e.block, e.id, NoId)}
      [] e.op = "MoveBlocks" -> {m.id : m \in ToSet(e.blocks)}
      [] e.op = "MergeBlocks" ->
           {e.id} \cup {u.id : u \in {x \in ToSet(e.units) : x.id # x.source_id}}
      [] OTHER -> {e.id}

\* The operations a vault logs take the ids of its peer one after the other, none
\* twice and none left out (operation_extent and the clock of commit_single_id), and
\* pass the test of the peers that receive them (check_peer_consistency): a gap would
\* hold back everything after it at every other peer, an id taken twice would be two
\* elements in one place, and an operation that is refused stops all that follow.
TakesInTurn(s, taken) ==
    /\ {i.counter : i \in taken} = 1 .. Cardinality(taken)
    /\ s.next_counter = Cardinality(taken) + 1
    /\ s.state_vector[s.peer] = Cardinality(taken)
OwnIds(s) == [k \in DOMAIN s.ops |-> {i \in Allocated(s.ops[k]) : i.peer = s.peer}]
NoneTwice(ids) == \A j, k \in DOMAIN ids : j # k => ids[j] \cap ids[k] = {}
NoCounterHoles ==
    \A r \in Peers :
        /\ TakesInTurn(session[r], UNION ToSet(OwnIds(session[r])))
        /\ NoneTwice(OwnIds(session[r]))
        /\ \A e \in ToSet(session[r].ops) : PeerConsistent(e, Extent(e).last.peer)

\* Splitting, merging, wrapping and unwrapping change how the text is divided,
\* never the text (split_block_in, merge_blocks_in, wrap_blocks; "Remove one
\* blockquote container and place its children at the same sibling position",
\* src/session/mod.rs:1559).
RECURSIVE TextUnder(_)
TextUnder(s) ==
    FoldLeft(LAMBDA out, i : LET n == s.value[i]
                             IN  CASE n.kind = "text" -> out \o VisibleValues(n.body)
                                   [] Holds(n) -> out \o TextUnder(n.body)
                                   [] OTHER -> out,
             <<>>, VisibleIds(s))
RestructureKeepsText ==
    [][\A r \in deployment.restructuring :
          budget'[r] # budget[r] =>
              TextUnder(session'[r].document.blocks) = TextUnder(session[r].document.blocks)]_vars

\* A paragraph that is inserted after a block is the next one, and one inserted at
\* the start is the first (insert_block_in with compare_siblings; "Insert a
\* top-level block after `after` (None = start)", src/session/mod.rs:277).
NextTo(ids, after, id) == \E i \in 1 .. Len(ids) - 1 : ids[i] = after /\ ids[i + 1] = id
LandsIn(s, t, e) ==
    NextTo(<<NoId>> \o LogicalIds(DescriptorChildren(t.document, e.parent)), e.after, PeekNextId(s))
InsertsLand ==
    \A r \in {x \in Peers : budget[x] > 0} :
        \A e \in Edits(r, {"InsertParagraph"}) :
            LandsIn(session[r], Do(session[r], EditOf(e)), e)

\* Whatever state the document is in when a file arrives, ingest that succeeds
\* leaves it reading as the file (sync_tree: the greedy matching, the moves, the
\* text diff and the row mapping, which edit the document they look at).
IngestExact ==
    \A r \in Peers : ingested[r] # NoFile => ReadsAs(session[r].document, ingested[r])

\* Ingesting the same file once more changes nothing: no block is moved,
\* rewritten or replaced by an equal one (match_blocks pairs every block with
\* itself, sync_tree and sync_table find each at its place).
IngestIdle ==
    [][\A r \in Peers :
          ingested[r] # NoFile /\ ingested'[r] = ingested[r] => session'[r] = session[r]]_vars

\* A batch that is accepted deletes, moves and rewrites the blocks its preview
\* showed, whatever was merged in between (validate_batch_targets with
\* preconditions_for_edit).
NoFalseAccept ==
    [][batch # NoBatch /\ batch' = NoBatch /\ session' # session =>
          Effect(session[1], session'[1]) = batch.effect]_vars

\* The pages of a listing at one revision, one after the other, are the children
\* in order, whatever tombstones lie between them; the pages of a projection hold
\* or omit every block asked for once (descriptor_page, projection_page).
RECURSIVE AllPages(_, _, _)
MorePages(s, page, cursor, limit) ==
    IF page.next = NoCursor \/ page.next.next_index <= cursor.next_index THEN page.items
    ELSE page.items \o AllPages(s, page.next, limit)
AllPages(s, cursor, limit) == MorePages(s, DescriptorPage(s, cursor, limit), cursor, limit)
RECURSIVE AllProjected(_, _, _, _)
MoreProjected(d, ids, page, max_bytes) ==
    IF page.stuck \/ page.offset = Len(ids) THEN <<page>>
    ELSE <<page>> \o AllProjected(d, ids, page.offset, max_bytes)
AllProjected(d, ids, offset, max_bytes) ==
    MoreProjected(d, ids, ProjectionPage(d, ids, offset, 2, max_bytes), max_bytes)
Enumerated(pages, asked, known) ==
    Last(pages).stuck \/
        /\ UNION {p.items : p \in ToSet(pages)} = known
        /\ UNION {p.omitted : p \in ToSet(pages)} = ToSet(asked) \ known
InsertedIds(ops) ==
    LET inserts == SelectSeq(ops, LAMBDA e : e.op = "InsertBlock")
    IN  [i \in DOMAIN inserts |-> inserts[i].id]
PagesOf(s) == AllPages(s, NoCursor, 2) = LogicalIds(s)
ProjectionsOf(d, asked) ==
    Enumerated(AllProjected(d, asked, 0, 4), asked, {i \in ToSet(asked) : Known(d, i)})
PagesEnumerate ==
    \A r \in Peers :
        /\ PagesOf(session[r].document.blocks)
        /\ \A parent \in OfKind(session[r].document, {"quote", "list", "item"}) :
              PagesOf(DescriptorChildren(session[r].document, parent))
        /\ ProjectionsOf(session[r].document, InsertedIds(session[r].ops))

\* The change summary of a local step is complete: a block it does not list has
\* its parent, its place among the other blocks it does not list, and its content
\* (summarize_outline_change, reordered_ids, longest_increasing_ids; "report only
\* the identities it changed", src/filesync/session.rs:228).
UnlistedIsUnchanged(s, t) ==
    LET before == CaptureOutline(s.document)
        after == CaptureOutline(t.document)
        c == Summarize(before, after, NewOperations(s, t))
        same == (DOMAIN before \cap DOMAIN after) \ (c.moved \cup c.updated)
    IN  \A i, j \in same :
           /\ before[i].parent = after[i].parent
           /\ before[i].digest = after[i].digest
           /\ before[i].parent = before[j].parent =>
                 (before[i].order < before[j].order <=> after[i].order < after[j].order)
SummaryComplete ==
    [][\A r \in Peers : budget'[r] # budget[r] => UnlistedIsUnchanged(session[r], session'[r])]_vars

\* An edit that carries what its author has observed takes effect for its author,
\* however low its id is beside the ids of the writes it replaces: clocks do not
\* follow remote operations, so the later write often has the lower id
\* (causal_write_wins, TableCell::set, move_row, move_list_item_at).
InForce(d, e) ==
    LET table == Node(d, FindBlockById(d, e.table_id)).table
        at(s, id) == s.value[Placements(s, id)[1]]
    IN  CASE e.op = "SetTableCell" -> table.cells[<<e.row_id, e.column_id>>].op = e.id
          [] e.op = "SetTableColumnAlignment" -> at(table.columns, e.column_id).alignment.op = e.id
          [] e.op = "MoveTableRow" -> at(table.rows, e.row_id).elem_id = e.id
          [] e.op = "MoveTableColumn" -> at(table.columns, e.column_id).elem_id = e.id
          [] e.op = "MoveListItem" -> Last(FindListItemById(d, e.item_id)) = e.id
          [] e.op = "SetListItemTask" -> Node(d, FindListItemById(d, e.item_id)).reg.op = e.id
          [] e.op = "RemoveMark" ->
               ~IsActive(Node(d, FindBlockById(d, e.block_id)).marks, e.interval_id)
          [] OTHER -> Node(d, FindBlockById(d, e.block_id)).reg.op = e.id
AllInForce(s, t) ==
    \A e \in ToSet(NewOperations(s, t)) : ObservedFrontier(e) # NoVector => InForce(t.document, e)
LaterWritesWin ==
    [][\A r \in Peers : budget'[r] # budget[r] => AllInForce(session[r], session'[r])]_vars
=============================================================================
