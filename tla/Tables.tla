------------------------------- MODULE Tables --------------------------------
(***************************************************************************)
(* A table as a value: struct Table of src/doc/mod.rs.  Rows and columns    *)
(* are sequences whose entries have a logical id (the id of the operation   *)
(* that created them) and a placement id, which a move replaces; cells are  *)
(* registers addressed by logical row and column.  The header is the row    *)
(* with the table's own id.                                                 *)
(*                                                                         *)
(* A move has the fields of PendingTableMove: logical_id, target, id, after,*)
(* right_origin, observed.                                                  *)
(***************************************************************************)
EXTENDS Marks

NewTable ==
    [rows |-> NewSeq, columns |-> NewSeq, cells |-> <<>>,
     pending_row_moves |-> {}, pending_column_moves |-> {},
     pending_column_alignments |-> {}]

Place(op) == [id |-> op.id, after |-> op.after, right_origin |-> op.right_origin]

\* A placement that was taken and never shows.
Buried(s, op) == IF HasElement(s, op.id) THEN s ELSE SeqBury(s, Place(op))

\* row_by_id, column_by_id: the placements of the visible entries with a
\* logical id, in order.
Placements(s, id) == SelectSeq(VisibleIds(s), LAMBDA p : s.value[p].id = id)

IsLive(s, id) == Placements(s, id) # <<>>

\* An entry that was moved already keeps its placement against a move that did
\* not observe it and that it observed, or that has the smaller id.
MoveLoses(entry, mv) ==
    /\ entry.elem_id # entry.id
    /\ Seen(mv.observed, entry.elem_id.peer) < entry.elem_id.counter
    /\ \/ Seen(entry.placed, mv.id.peer) >= mv.id.counter
       \/ ~IdLess(entry.elem_id, mv.id)

\* move_row and move_column on their sequence: the entry gets a new placement,
\* or the move loses (to a delete, to another move) and is buried.
RelocateEntry(s, mv, entry) ==
    IF ~IsLive(s, mv.logical_id) \/ MoveLoses(entry, mv) THEN Buried(s, mv)
    ELSE SeqInsert(SeqDelete(s, entry.elem_id), Place(mv),
                   [entry EXCEPT !.elem_id = mv.id, !.placed = mv.observed])

Relocate(s, mv) == RelocateEntry(s, mv, s.value[Placements(s, mv.logical_id)[1]])

\* A move of an entry that never arrived waits for it.
Waits(s, mv) == ~IsLive(s, mv.logical_id) /\ ~HasElement(s, mv.target)

MoveRow(t, mv) ==
    IF Waits(t.rows, mv) THEN [t EXCEPT !.pending_row_moves = @ \cup {mv}]
    ELSE [t EXCEPT !.rows = Relocate(@, mv)]

MoveColumn(t, mv) ==
    IF Waits(t.columns, mv) THEN [t EXCEPT !.pending_column_moves = @ \cup {mv}]
    ELSE [t EXCEPT !.columns = Relocate(@, mv)]

ById(moves) == Sorted(moves, LAMBDA a, b : IdLess(a.id, b.id))

ResolvePendingRowMoves(t, row) ==
    LET due == {mv \in t.pending_row_moves : mv.logical_id = row}
    IN  FoldLeft(MoveRow, [t EXCEPT !.pending_row_moves = @ \ due], ById(due))

-----------------------------------------------------------------------------
\* set_cell_observed.
SetCell(t, row, column, value, op, observed) ==
    LET at == <<row, column>>
        new == [value |-> value, op |-> op, observed |-> observed]
    IN  IF at \in DOMAIN t.cells
           /\ ~CausalWriteWins(t.cells[at].op, t.cells[at].observed, op, observed)
        THEN t
        ELSE [t EXCEPT !.cells = (at :> new) @@ @]

\* set_column_alignment_observed: a write for a column that is not visible
\* waits, for ever if the column was deleted.
SetColumnAlignment(t, column, value, op, observed) ==
    IF ~IsLive(t.columns, column)
    THEN [t EXCEPT !.pending_column_alignments = @ \cup
             {[column_id |-> column, alignment |-> value, id |-> op, observed |-> observed]}]
    ELSE LET at == Placements(t.columns, column)[1]
             old == t.columns.value[at].alignment
         IN  IF ~CausalWriteWins(old.op, old.observed, op, observed) THEN t
             ELSE [t EXCEPT !.columns.value[at].alignment =
                      [value |-> value, op |-> op, observed |-> observed]]

ResolvePendingColumnOps(t, column) ==
    LET moves == {mv \in t.pending_column_moves : mv.logical_id = column}
        writes == {w \in t.pending_column_alignments : w.column_id = column}
    IN  FoldLeft(LAMBDA u, w : SetColumnAlignment(u, w.column_id, w.alignment, w.id, w.observed),
                 FoldLeft(MoveColumn, [t EXCEPT !.pending_column_moves = @ \ moves,
                                                !.pending_column_alignments = @ \ writes],
                          ById(moves)),
                 ById(writes))

\* insert_row, with cells a sequence of column ids and values.
InsertRow(t, op, cells) ==
    LET row == [id |-> op.id, elem_id |-> op.id, placed |-> NoVector]
    IN  ResolvePendingRowMoves(
            FoldLeft(LAMBDA u, c : SetCell(u, op.id, c.column_id, c.value, op.id, NoVector),
                     [t EXCEPT !.rows = SeqInsert(@, Place(op), row)], cells),
            op.id)

\* insert_column.
InsertColumn(t, table, op, alignment, header) ==
    LET column == [id |-> op.id, elem_id |-> op.id, placed |-> NoVector,
                   alignment |-> [value |-> alignment, op |-> op.id, observed |-> NoVector]]
    IN  ResolvePendingColumnOps(
            SetCell([t EXCEPT !.columns = SeqInsert(@, Place(op), column)],
                    table, op.id, header, op.id, NoVector),
            op.id)

\* DeleteTableRowById, DeleteTableColumnById: the current placement of the
\* entry, the operation's own target when it is not visible.
RemoveEntry(s, id, target) ==
    SeqDelete(s, IF IsLive(s, id) THEN Placements(s, id)[1] ELSE target)

\* row_cells: what a reader sees of a live row.
CellValue(t, at) == IF at \in DOMAIN t.cells THEN t.cells[at].value ELSE ""

RowCells(t, row) ==
    [i \in DOMAIN VisibleIds(t.columns) |->
        CellValue(t, <<row, t.columns.value[VisibleIds(t.columns)[i]].id>>)]
=============================================================================
