------------------------------- MODULE Ingest --------------------------------
(***************************************************************************)
(* Ingest of an edited Markdown file into a session: sync_frontmatter,      *)
(* sync_tree and what they call in src/filesync/session.rs, the block       *)
(* matching of src/filesync/mod.rs and the diff of src/filesync/diff.rs.    *)
(*                                                                         *)
(* A parsed file has a frontmatter (a sequence of lines) and blocks, which  *)
(* are drafts: a text draft also has marks (a sequence of kind, attrs and   *)
(* half-open range), a table draft has columns (alignment and header) and   *)
(* rows (sequences of cells).  A text unit stands for a word.               *)
(***************************************************************************)
EXTENDS Workspace

Indices(seq) == [i \in DOMAIN seq |-> i]

-----------------------------------------------------------------------------
(* The document as a file would read, for comparison with one.              *)

\* Where the runs of a mark start and end, given the marks at every position.
RunsOf(at, m) ==
    LET has(i) == i \in DOMAIN at /\ m \in at[i]
    IN  {[kind |-> m.kind, attrs |-> m.attrs, from |-> r[1], to |-> r[2]] :
            r \in {x \in (0 .. Len(at)) \X (1 .. Len(at)) :
                      /\ x[1] < x[2] /\ ~has(x[1]) /\ ~has(x[2] + 1)
                      /\ \A i \in x[1] + 1 .. x[2] : has(i)}}

MarkRuns(at) == UNION {RunsOf(at, m) : m \in UNION ToSet(at)}

ReadColumns(columns, header) ==
    [i \in DOMAIN columns |-> [alignment |-> columns[i].alignment.value, header |-> header[i]]]

RECURSIVE ReadBlocks(_)

ReadItems(s, ids) ==
    [i \in DOMAIN ids |-> [task |-> s.value[ids[i]].reg.value,
                           children |-> ReadBlocks(s.value[ids[i]].body)]]

ReadBlock(n) ==
    [kind |-> n.kind, value |-> n.reg.value] @@
    CASE n.kind = "text" ->
           [text |-> VisibleValues(n.body),
            marks |-> SetToSeq(MarkRuns(SemanticMarks(n, 0, Len(VisibleIds(n.body)))))]
      [] n.kind = "quote" -> [children |-> ReadBlocks(n.body)]
      [] n.kind = "list" -> [items |-> ReadItems(n.body, VisibleIds(n.body))]
      [] n.kind = "table" ->
           [columns |-> ReadColumns(VisibleValues(n.table.columns), RowCells(n.table, n.id)),
            rows |-> RowDigests(n.table, LogicalIds(n.table.rows))]
      [] OTHER -> <<>>

ReadBlocks(s) == [i \in DOMAIN VisibleIds(s) |-> ReadBlock(s.value[VisibleIds(s)[i]])]

-----------------------------------------------------------------------------
(* Fingerprints: the set of words of a block's content.                     *)

\* The words of a struct's Debug form that all its values share.
DebugWords(name, n) == [i \in 1 .. n |-> <<name, "word", i>>]

\* Two texts with a separator that is no blank between them.
Glue(a, separator, b) ==
    Front(a) \o <<Last(a) \o <<separator>> \o Head(b)>> \o Tail(b)

TextContent(level, text) ==
    IF text = <<>> THEN <<<<level>>>>
    ELSE [i \in DOMAIN text |-> IF i = 1 THEN <<level, text[1]>> ELSE <<text[i]>>]

Levels == <<"p:", "h1:", "h2:", "h3:", "h4:", "h5:", "h6:">>

RowContent(cells) == <<<<"row">> \o cells>>

\* block_content and table_fingerprint_content, in words.
RECURSIVE BlockContent(_)

BlocksContent(blocks) == FlattenSeq([i \in DOMAIN blocks |-> BlockContent(blocks[i])])

ItemContent(item) == IF item.children = <<>> THEN <<<<>>>> ELSE BlocksContent(item.children)

ItemsContent(items) ==
    FoldLeft(LAMBDA w, i : Glue(w, IF i = 1 THEN ":" ELSE "|", ItemContent(items[i])),
             <<<<"}">>>>, Indices(items))

BlockContent(draft) ==
    CASE draft.kind = "text" -> TextContent(Levels[draft.value + 1], draft.text)
      [] draft.kind = "list" ->
           DebugWords("list", 11) \o <<<<draft.value>>>> \o ItemsContent(draft.items)
      [] draft.kind = "code" -> DebugWords("code", 6) \o <<<<"}", draft.value>>>>
      [] draft.kind = "raw" -> <<<<"raw:", draft.value>>>>
      [] draft.kind = "quote" -> <<<<"quote:">>>> \o BlocksContent(draft.children)
      [] draft.kind = "table" ->
           <<<<"table">>>> \o RowContent([i \in DOMAIN draft.columns |-> draft.columns[i].header])
                           \o FlattenSeq([i \in DOMAIN draft.rows |-> RowContent(draft.rows[i])])

\* level_match_content with Fingerprint::from_content: a quote is one word.
Fingerprint(draft) ==
    IF draft.kind = "quote" THEN {<<"blockquote">>} ELSE ToSet(BlockContent(draft))

\* fingerprint_similarity_int; no fingerprint is empty here.
Similarity(a, b) == (Cardinality(a \cap b) * 10000) \div Cardinality(a \cup b)

\* compute_score, of blocks at i and j of one container of n blocks.
PositionScore(far) == IF far > 10000 THEN 0 ELSE 10000 - far

ComputeScore(a, b, i, j, n) ==
    (Similarity(Fingerprint(a), Fingerprint(b)) * 60 + 10000 * 25
        + PositionScore(((IF i > j THEN i - j ELSE j - i) * 10000) \div n) * 15) \div 100

MinMatchScore == 5000

\* The loop of match_blocks over the edges by score, old index and new index.
BetterEdge(a, b) ==
    \/ a.score > b.score
    \/ a.score = b.score /\ a.old < b.old
    \/ a.score = b.score /\ a.old = b.old /\ a.new < b.new

TakeEdge(pairs, e) ==
    IF \E p \in pairs : p[1] = e.old \/ p[2] = e.new THEN pairs ELSE pairs \cup {<<e.old, e.new>>}

Greedy(edges) == FoldLeft(TakeEdge, {}, Sorted(edges, BetterEdge))

\* Mutant of MatchBlocks: blocks pair by their place alone.
MatchByPlace(old, new) == {<<i, i>> : i \in DOMAIN old \cap DOMAIN new}

\* match_blocks: pairs of an old and a new index.
MatchBlocks(old, new) ==
    Greedy({e \in {[score |-> ComputeScore(old[i], new[j], i, j, Len(old)), old |-> i, new |-> j] :
                      i \in DOMAIN old, j \in DOMAIN new} : e.score >= MinMatchScore})

\* The places of the blocks of one kind, the paragraphs or the tables, that found
\* no partner.
Left(blocks, kind, taken) ==
    SelectSeq(Indices(blocks), LAMBDA i : blocks[i].kind = kind /\ blocks[i].value = 0 /\ i \notin taken)

InOrder(a, b) == {<<a[k], b[k]>> : k \in DOMAIN a \cap DOMAIN b}

\* The pairing of sync_tree: the rest of a kind is paired in order.
PairRest(old, new, pairs) ==
    pairs \cup UNION {InOrder(Left(old, kind, {p[1] : p \in pairs}),
                              Left(new, kind, {p[2] : p \in pairs})) : kind \in {"text", "table"}}

PairBlocks(old, new) == PairRest(old, new, MatchBlocks(old, new))

-----------------------------------------------------------------------------
(* Text.                                                                    *)

\* lcs_steps: the pairs of equal positions the walk back through the table
\* keeps.
LcsPairs(old, new) ==
    LET dp[i \in 0 .. Len(old), j \in 0 .. Len(new)] ==
            IF i = 0 \/ j = 0 THEN 0
            ELSE IF old[i] = new[j] THEN dp[i - 1, j - 1] + 1
            ELSE Max({dp[i, j - 1], dp[i - 1, j]})
        back[i \in 0 .. Len(old), j \in 0 .. Len(new)] ==
            IF i = 0 \/ j = 0 THEN {}
            ELSE IF old[i] = new[j] THEN back[i - 1, j - 1] \cup {<<i, j>>}
            ELSE IF dp[i, j - 1] >= dp[i - 1, j] THEN back[i, j - 1]
            ELSE back[i - 1, j]
    IN  back[Len(old), Len(new)]

\* mark_specs, in the order of their ids.
MarkSpec(m, covered) ==
    LET from == IF covered = {} THEN 0 ELSE Min(covered)
    IN  [kind |-> m.kind, attrs |-> [k \in DOMAIN m.attrs |-> m.attrs[k].value],
         from |-> from, to |-> from + Cardinality(covered)]

SpecsOf(n, ids) ==
    [k \in DOMAIN ids |-> MarkSpec(n.marks.intervals[ids[k]],
                                   Covered(n.marks.intervals[ids[k]], VisibleIds(n.body)))]

MarkIds(n) == Sorted(ActiveIntervals(n.marks), IdLess)

MarkSpecs(n) == SpecsOf(n, MarkIds(n))

\* mark_semantics: how often each spec occurs.
MarkSemantics(specs) ==
    [x \in ToSet(specs) |-> Cardinality({k \in DOMAIN specs : specs[k] = x})]

\* The current marks at the places their words went to.
ProjectMark(m, places) ==
    IF places = {} THEN <<>> ELSE <<[m EXCEPT !.from = Min(places) - 1, !.to = Max(places)]>>

ProjectMarks(specs, pairs) ==
    FlattenSeq([k \in DOMAIN specs |->
        ProjectMark(specs[k],
                    {p[2] : p \in {q \in pairs : q[1] - 1 \in specs[k].from .. specs[k].to - 1}})])

SetMarks(id, specs) ==
    [k \in DOMAIN specs |-> [call |-> "set_mark", block_id |-> id] @@ specs[k]]

\* The deletes of apply_paragraph_text_diff from the right, then its inserts,
\* one for each run of new words, from the left.
DeleteWords(id, gone) ==
    [k \in DOMAIN gone |->
        [call |-> "delete_text", block_id |-> id, offset |-> gone[k] - 1, count |-> 1]]

InsertRuns(id, new, kept) ==
    LET fresh(j) == j \in DOMAIN new /\ j \notin kept
        run(j) == SubSeq(new, j, Min({k \in j .. Len(new) : ~fresh(k + 1)}))
        starts == SelectSeq(Indices(new), LAMBDA j : fresh(j) /\ ~fresh(j - 1))
    IN  [k \in DOMAIN starts |->
            [call |-> "insert_text", block_id |-> id, offset |-> starts[k] - 1,
             text |-> run(starts[k])]]

TextDiff(id, old, new, pairs) ==
    DeleteWords(id, Reverse(SelectSeq(Indices(old), LAMBDA i : i \notin {p[1] : p \in pairs})))
        \o InsertRuns(id, new, {p[2] : p \in pairs})

\* Mutant of UpToDate: a text with marks is always written again.
UpToDateWithoutMarks(n, draft) == VisibleValues(n.body) = draft.text /\ draft.marks = <<>>

\* The text and the marks are the file's already.
UpToDate(n, draft) ==
    /\ VisibleValues(n.body) = draft.text
    /\ MarkSemantics(MarkSpecs(n)) = MarkSemantics(draft.marks)

RemoveMarks(n, ids) ==
    [k \in DOMAIN ids |-> [call |-> "remove_mark", block_id |-> n.id, interval_id |-> ids[k]]]

\* apply_paragraph_text_diff: the text, then the marks, the file's or, when it
\* has none, the current ones.
ApplyDiff(n, draft, pairs, marks) ==
    TextDiff(n.id, VisibleValues(n.body), draft.text, pairs) \o RemoveMarks(n, MarkIds(n))
        \o SetMarks(n.id, SelectSeq(marks, LAMBDA m : m.from < m.to /\ m.to <= Len(draft.text)))

MarksToSet(n, draft, pairs) ==
    IF draft.marks = <<>> THEN ProjectMarks(MarkSpecs(n), pairs) ELSE draft.marks

DiffAlong(n, draft, pairs) == ApplyDiff(n, draft, pairs, MarksToSet(n, draft, pairs))

ApplyTextDiff(n, draft) ==
    IF UpToDate(n, draft) THEN <<>>
    ELSE DiffAlong(n, draft, LcsPairs(VisibleValues(n.body), draft.text))

-----------------------------------------------------------------------------
(* Tables.                                                                  *)

\* The rows of a table as rows of the file: equal ones first, the rest in
\* order.  A function from file rows to logical ids.
MapEqual(t, ids, rows) ==
    LET free(m, j) == {i \in DOMAIN ids : RowCells(t, ids[i]) = rows[j] /\ ids[i] \notin Range(m)}
        put(m, j, is) == IF is = {} THEN m ELSE m @@ (j :> ids[Min(is)])
    IN  FoldLeft(LAMBDA m, j : put(m, j, free(m, j)), <<>>, Indices(rows))

PairUp(open, left) == [j \in {open[k] : k \in DOMAIN open \cap DOMAIN left} |->
                          left[PositionOf(open, j)]]

MapRest(ids, rows, same) ==
    same @@ PairUp(SelectSeq(Indices(rows), LAMBDA j : j \notin DOMAIN same),
                   SelectSeq(ids, LAMBDA i : i \notin Range(same)))

MapRows(t, ids, rows) == MapRest(ids, rows, MapEqual(t, ids, rows))

\* sync_table on the rows, columns being in place: rewrite, delete, insert, and
\* last move the rows into their order.  t is the table as it was.
RewriteRows(t, id, rows, map) ==
    LET paired == SelectSeq(Indices(rows), LAMBDA j : j \in DOMAIN map /\ RowCells(t, map[j]) # rows[j])
    IN  [k \in DOMAIN paired |-> [call |-> "set_table_row_cells", block_id |-> id,
                                  row_id |-> map[paired[k]], cells |-> rows[paired[k]]]]

DeleteRows(id, gone) ==
    [k \in DOMAIN gone |-> [call |-> "delete_table_row", block_id |-> id, row_id |-> gone[k]]]

SyncRows(t, id, ids, rows, map) ==
    RewriteRows(t, id, rows, map)
        \o DeleteRows(id, SelectSeq(ids, LAMBDA row : row \notin Range(map)))
        \o <<[call |-> "insert_missing_rows", block_id |-> id, map |-> map, rows |-> rows]>>

\* The element a row is placed at.
RowElem(n, row) == Placements(n.table.rows, row)[1]

\* A row without a partner, after the closest one above it that has one.
InsertRowAt(s, x, n, j, above) ==
    <<[call |-> "insert_table_row", block_id |-> n.id, cells |-> x.rows[j],
       after |-> IF above = {} THEN NoId ELSE RowElem(n, x.map[Max(above)])],
      [x EXCEPT !.map = @ @@ (j :> PeekNextId(s))]>>

InsertMissingRows(s, x, n, missing) ==
    IF missing = {}
    THEN <<[call |-> "order_rows", block_id |-> n.id, prior |-> NoId,
            ids |-> [j \in DOMAIN x.rows |-> x.map[j]]]>>
    ELSE InsertRowAt(s, x, n, Min(missing), {k \in DOMAIN x.map : k < Min(missing)})

OrderRows(x, n) ==
    LET after == IF x.prior = NoId THEN NoId ELSE RowElem(n, x.prior)
    IN  IF x.ids = <<>> THEN <<>>
        ELSE (IF ElementBefore(n.table.rows, x.ids[1]) = after THEN <<>>
              ELSE <<[call |-> "move_table_row", block_id |-> n.id, row_id |-> x.ids[1],
                      after |-> after]>>)
             \o <<[x EXCEPT !.prior = x.ids[1], !.ids = Tail(@)]>>

\* sync_table: columns as in set_table_metadata.
SyncTableRows(t, id, ids, rows) == SyncRows(t, id, ids, rows, MapRows(t, ids, rows))

SyncTable(n, draft) ==
    MetadataCalls(n.table, n.id, draft.columns)
        \o SyncTableRows(n.table, n.id, LogicalIds(n.table.rows), draft.rows)

-----------------------------------------------------------------------------
(* The tree.                                                                *)

\* insert_tree: blocks one after the other.
InsertTree(s, x) ==
    IF x.blocks = <<>> THEN <<>>
    ELSE <<[call |-> "insert_one", parent |-> x.parent, after |-> x.after, draft |-> Head(x.blocks)],
           [x EXCEPT !.after = PeekNextId(s), !.blocks = Tail(@)]>>

\* The rows of a new table.
InsertTableRows(s, x) ==
    IF x.rows = <<>> THEN <<>>
    ELSE <<[call |-> "insert_table_row", block_id |-> x.block_id, after |-> x.after,
            cells |-> Head(x.rows)],
           [x EXCEPT !.after = PeekNextId(s), !.rows = Tail(@)]>>

\* The items of a new list, whose ids come after the list's.
ListItems(s, items) ==
    [items |-> [i \in DOMAIN items |->
                   [id |-> NextId(s, i + 1), task |-> items[i].task, children |-> <<>>]]]

Below(parent, blocks) ==
    [call |-> "insert_tree", parent |-> parent, after |-> NoId, blocks |-> blocks]

\* insert_one.
InsertOne(s, x, draft) ==
    LET at == [parent |-> x.parent, after |-> x.after]
        block == [kind |-> draft.kind, value |-> draft.value]
        insert(content) == [call |-> "insert_block_in", block |-> content @@ block] @@ at
    IN  CASE draft.kind = "text" ->
               <<[call |-> "insert_paragraph_in", level |-> draft.value, text |-> draft.text] @@ at>>
                   \o SetMarks(PeekNextId(s), draft.marks)
          [] draft.kind = "list" ->
               <<insert(ListItems(s, draft.items))>>
                   \o [i \in DOMAIN draft.items |-> Below(NextId(s, i + 1), draft.items[i].children)]
          [] draft.kind = "quote" ->
               <<insert([children |-> <<>>]), Below(PeekNextId(s), draft.children)>>
          [] draft.kind = "table" ->
               <<[call |-> "insert_table_in", columns |-> draft.columns] @@ at,
                 [call |-> "insert_table_rows", block_id |-> PeekNextId(s), after |-> NoId,
                  rows |-> draft.rows]>>
          [] OTHER -> <<insert(<<>>)>>

\* What sync_tree does to a matched block once it is in place.  Lists, code and
\* raw blocks, and blocks of two kinds, stay as they are.
SyncBlock(n, draft) ==
    CASE n.kind # draft.kind -> <<>>
      [] n.kind = "quote" /\ draft.kind = "quote" ->
           <<[call |-> "sync_tree", parent |-> n.elem_id, blocks |-> draft.children]>>
      [] n.kind = "table" /\ draft.kind = "table" -> SyncTable(n, draft)
      [] n.kind = "text" /\ draft.kind = "text" ->
           IF (n.reg.value = 0) = (draft.value = 0) THEN ApplyTextDiff(n, draft) ELSE <<>>
      [] OTHER -> <<>>

\* The block at a place of the file that was matched: it is moved when another
\* one is before it.
SyncMatched(x, p, before) ==
    Given(p # <<>>,
          (IF before = x.after THEN <<>>
           ELSE <<[call |-> "move_block_ids", block_ids |-> <<x.block_id>>, parent |-> x.parent,
                   after |-> x.after]>>)
          \o <<[call |-> "sync_block", block_id |-> x.block_id, draft |-> x.draft]>>)

\* The file's blocks in order, each after the one before it (prior, a logical id);
\* ids has the partner of each, NoId for a new one.
SyncBlocks(s, x) ==
    LET after == ElemOr(BlockPath(s, x.prior), NoId)
        block == [parent |-> x.parent, after |-> after, block_id |-> x.ids[1], draft |-> x.blocks[1]]
    IN  IF x.blocks = <<>> THEN <<>>
        ELSE <<[call |-> IF x.ids[1] = NoId THEN "insert_one" ELSE "sync_matched"] @@ block,
               [x EXCEPT !.prior = IF x.ids[1] = NoId THEN PeekNextId(s) ELSE x.ids[1],
                         !.ids = Tail(@), !.blocks = Tail(@)]>>

\* sync_tree: blocks without a partner go (in hash order, which shows in nothing but
\* the ids of the deletes), then the file's blocks in order.
Partner(ids, pairs, j) ==
    IF \E p \in pairs : p[2] = j THEN ids[(CHOOSE p \in pairs : p[2] = j)[1]] ELSE NoId

SyncPaired(x, kids, pairs) ==
    LET gone == SelectSeq(Indices(VisibleIds(kids)), LAMBDA i : i \notin {p[1] : p \in pairs})
    IN  [k \in DOMAIN gone |-> [call |-> "delete_block_in", parent |-> x.parent,
                                target |-> VisibleIds(kids)[gone[k]]]]
        \o <<[call |-> "sync_blocks", parent |-> x.parent, prior |-> NoId, blocks |-> x.blocks,
              ids |-> [j \in DOMAIN x.blocks |-> Partner(LogicalIds(kids), pairs, j)]]>>

SyncTree(x, kids) == SyncPaired(x, kids, PairBlocks(ReadBlocks(kids), x.blocks))

-----------------------------------------------------------------------------
(* The file.                                                                *)

\* entries(): what the keys of a frontmatter hold, "" when nothing.
FrontmatterEntries(f) ==
    IF f.present THEN [k \in DOMAIN f.fields |-> f.fields[k].value] ELSE <<>>

EntryOf(entries, k) == IF k \in DOMAIN entries THEN entries[k] ELSE ""

\* sync_frontmatter of structured text.
SetEntries(new, keys) ==
    [i \in DOMAIN keys |-> [call |-> "set_frontmatter_field", key |-> keys[i],
                            value |-> EntryOf(new, keys[i])]]

SyncEntries(old, new) ==
    SetEntries(new, SetToSeq({k \in DOMAIN old \cup DOMAIN new : EntryOf(old, k) # EntryOf(new, k)}))

SyncFrontmatter(old, parsed) ==
    CASE ~old.present /\ parsed.present ->
           <<[call |-> "initialize_frontmatter", frontmatter |-> parsed]>>
      [] old.present /\ parsed.present ->
           SyncEntries(FrontmatterEntries(old), FrontmatterEntries(parsed))
      [] OTHER -> SetEntries(<<>>, SetToSeq(DOMAIN FrontmatterEntries(old)))

\* The part of VaultSession::ingest that edits the session: the frontmatter,
\* then the blocks, all of them new when there were none.
IngestParsed(s, file) ==
    SyncFrontmatter(s.document.frontmatter, file.frontmatter)
        \o <<IF VisibleIds(s.document.blocks) = <<>> THEN Below(NoId, file.blocks)
             ELSE [call |-> "sync_tree", parent |-> NoId, blocks |-> file.blocks]>>

-----------------------------------------------------------------------------
(* What a vault is asked for, call by call.  One that is refused half way   *)
(* keeps the operations before.                                             *)

Requests == {"apply_workspace_edit", "prepare_edit_batch", "ingest", "insert_tree", "insert_one",
             "insert_table_rows", "sync_tree", "sync_blocks", "sync_matched", "sync_block",
             "insert_missing_rows", "order_rows"}

CallsOnBlock(s, x, n) ==
    CASE x.call = "sync_block" -> SyncBlock(n, x.draft)
      [] x.call = "insert_missing_rows" ->
           InsertMissingRows(s, x, n, DOMAIN x.rows \ DOMAIN x.map)
      [] x.call = "order_rows" -> OrderRows(x, n)

RequestCalls(s, x) ==
    CASE x.call = "apply_workspace_edit" -> ApplyWorkspaceEdit(s, x.edit, x.limits)
      [] x.call = "prepare_edit_batch" -> PrepareEditBatch(s, x.batch, x.limits)
      [] x.call = "ingest" -> IngestParsed(s, x.file)
      [] x.call = "insert_tree" -> InsertTree(s, x)
      [] x.call = "insert_one" -> InsertOne(s, x, x.draft)
      [] x.call = "insert_table_rows" -> InsertTableRows(s, x)
      [] x.call = "sync_tree" -> SyncTree(x, ContainerChildren(s.document, x.parent))
      [] x.call = "sync_blocks" -> SyncBlocks(s, x)
      [] x.call = "sync_matched" ->
           SyncMatched(x, BlockPath(s, x.block_id),
                       ElementBefore(ContainerChildren(s.document, x.parent), x.block_id))
      [] OTHER -> CallsOnBlock(s, x, TheBlock(s, x.block_id))

RECURSIVE Run(_, _)
Run(s, calls) ==
    IF ~s.ok \/ calls = <<>> THEN s
    ELSE IF calls[1].call \in Requests THEN Run(s, RequestCalls(s, calls[1]) \o Tail(calls))
    ELSE IF calls[1].call \in Compound THEN Run(s, CallsOf(s, calls[1]) \o Tail(calls))
    ELSE Run(Commit(s, OperationOf(s, calls[1])), Tail(calls))

\* The session after one request.
Do(s, request) == Run(s, <<request>>)

-----------------------------------------------------------------------------
(* The document reads as the file: blocks and frontmatter, and marks        *)
(* wherever the file has some.                                              *)

RECURSIVE SameBlocks(_, _)

SameItems(items, file) ==
    /\ Len(items) = Len(file)
    /\ \A k \in DOMAIN file : /\ items[k].task = file[k].task
                              /\ SameBlocks(items[k].children, file[k].children)

SameBlock(b, f) ==
    /\ <<b.kind, b.value>> = <<f.kind, f.value>>
    /\ CASE f.kind = "text" -> b.text = f.text /\ (f.marks = <<>> \/ ToSet(b.marks) = ToSet(f.marks))
         [] f.kind = "quote" -> SameBlocks(b.children, f.children)
         [] f.kind = "list" -> SameItems(b.items, f.items)
         [] f.kind = "table" -> b.columns = f.columns /\ b.rows = f.rows
         [] OTHER -> TRUE

SameBlocks(blocks, file) ==
    Len(blocks) = Len(file) /\ \A i \in DOMAIN file : SameBlock(blocks[i], file[i])

HeldEntries(entries) ==
    {[key |-> k, value |-> entries[k]] : k \in {x \in DOMAIN entries : entries[x] # ""}}

ReadsAs(d, file) ==
    /\ SameBlocks(ReadBlocks(d.blocks), file.blocks)
    /\ HeldEntries(FrontmatterEntries(d.frontmatter))
          = HeldEntries(FrontmatterEntries(file.frontmatter))
=============================================================================
