------------------------------ MODULE Document -------------------------------
(***************************************************************************)
(* A document as a value: the tree of blocks of src/doc/mod.rs and its      *)
(* frontmatter (src/doc/frontmatter.rs), with one operator per mutation.    *)
(*                                                                         *)
(* A block or list item is a node with a logical id (the id of the          *)
(* operation that created it), an elem_id, a kind and a register `reg`: the *)
(* value, operation and observed frontier of the write that last won what   *)
(* the kind holds besides its content:                                      *)
(*   "text"   paragraph (0) or heading (its level); body: text units; marks *)
(*   "quote"  body: blocks                                                  *)
(*   "list"   its style; body: items; moves: the item moves that wait       *)
(*   "item"   its task state; body: blocks; placed: the frontier observed   *)
(*            by the move that placed it                                    *)
(*   "code", "raw"  its text                                                *)
(*   "table"  table: the value of module Tables                             *)
(* A block's elem_id is the id of its element in the sequence that holds    *)
(* it.  An item keeps the one it was created with when it moves.            *)
(***************************************************************************)
EXTENDS Tables

Register(value, op, observed) == [value |-> value, op |-> op, observed |-> observed]

NoFrontmatter == [present |-> FALSE]

NewDocument == [blocks |-> NewSeq, frontmatter |-> NoFrontmatter]

-----------------------------------------------------------------------------
(* Paths: the element ids from the top to a node.                           *)

Holds(n) == n.kind \in {"quote", "list", "item"}

RECURSIVE Walk(_, _)
Walk(s, above) ==
    FoldLeft(LAMBDA out, i :
                 out \o <<Append(above, i)>>
                     \o (IF Holds(s.value[i]) THEN Walk(s.value[i].body, Append(above, i))
                         ELSE <<>>),
             <<>>, VisibleIds(s))

\* index_block_sequence: the visible nodes, in pre-order.
Paths(d) == Walk(d.blocks, <<>>)

\* block_at_path.
RECURSIVE NodeAt(_, _)
NodeAt(s, p) == IF Len(p) = 1 THEN s.value[p[1]] ELSE NodeAt(s.value[p[1]].body, Tail(p))

Node(d, p) == NodeAt(d.blocks, p)

\* block_at_path_mut.
RECURSIVE PutNode(_, _, _)
PutNode(s, p, n) ==
    IF Len(p) = 1 THEN [s EXCEPT !.value[p[1]] = n]
    ELSE [s EXCEPT !.value[p[1]].body = PutNode(@, Tail(p), n)]

SetNode(d, p, n) == [d EXCEPT !.blocks = PutNode(@, p, n)]

\* The first visible node that passes the test, <<>> when none does.
FirstOf(paths) == IF paths = <<>> THEN <<>> ELSE paths[1]

FindPath(d, Test(_)) == FirstOf(SelectSeq(Paths(d), LAMBDA p : Test(Node(d, p))))

\* find_block, by placement.
FindBlock(d, elem) == FindPath(d, LAMBDA n : n.kind # "item" /\ n.elem_id = elem)

\* find_block_by_id, by logical id.
FindBlockById(d, id) == FindPath(d, LAMBDA n : n.kind # "item" /\ n.id = id)

\* find_list_item, by the element id the item was created with.
FindListItem(d, elem) == FindPath(d, LAMBDA n : n.kind = "item" /\ n.elem_id = elem)

\* find_list_item_by_id and list_item_placement, by logical id: the path ends
\* with the element ids of the list and of the item's placement in it.
FindListItemById(d, id) == FindPath(d, LAMBDA n : n.kind = "item" /\ n.id = id)

\* The node at a path, changed; nothing happens when the path is empty.
Update(d, p, F(_)) == IF p = <<>> THEN d ELSE SetNode(d, p, F(Node(d, p)))

\* with_block_mut.
WithBlock(d, elem, F(_)) == Update(d, FindBlock(d, elem), F)

-----------------------------------------------------------------------------
(* Containers: the top level (NoId), a quote by its placement, a list item  *)
(* by the element id it was created with.                                   *)

ContainerPath(d, parent) ==
    FindPath(d, LAMBDA n : n.kind \in {"quote", "item"} /\ n.elem_id = parent)

HasContainer(d, parent) == parent = NoId \/ ContainerPath(d, parent) # <<>>

\* container_children.
ContainerChildren(d, parent) ==
    IF parent = NoId THEN d.blocks ELSE Node(d, ContainerPath(d, parent)).body

\* with_container_children_mut.
WithContainerChildren(d, parent, F(_)) ==
    IF parent = NoId THEN [d EXCEPT !.blocks = F(@)]
    ELSE Update(d, ContainerPath(d, parent), LAMBDA n : [n EXCEPT !.body = F(@)])

InsertBlockAt(d, parent, op, block) ==
    WithContainerChildren(d, parent, LAMBDA s : SeqInsert(s, Place(op), block))

DeleteBlockAt(d, parent, target) ==
    WithContainerChildren(d, parent, LAMBDA s : SeqDelete(s, target))

\* block_parent, of the block at a path: the element id of the quote, or of
\* the item's placement, that holds it.
BlockParent(p) == IF Len(p) = 1 THEN NoId ELSE p[Len(p) - 1]

\* block_contains_container.
RECURSIVE ContainsContainer(_, _)
ContainsContainer(n, candidate) ==
    \/ n.elem_id = candidate
    \/ /\ Holds(n)
       /\ \E i \in ToSet(VisibleIds(n.body)) : ContainsContainer(n.body.value[i], candidate)

-----------------------------------------------------------------------------
(* Moves of blocks.  A moved block has block_id, id (its new placement),    *)
(* after and right_origin.                                                  *)

\* A block that was moved already keeps its place against an older move.
StaleMove(n, m) == n.elem_id # n.id /\ ~IdLess(n.elem_id, m.id)

BuryMoves(d, to_parent, moves) ==
    WithContainerChildren(d, to_parent, LAMBDA s : FoldLeft(Buried, s, moves))

TakeBlocks(d, paths) ==
    FoldLeft(LAMBDA e, p : DeleteBlockAt(e, BlockParent(p), Last(p)), d, paths)

PutBlocks(d, to_parent, moves, nodes) ==
    WithContainerChildren(d, to_parent, LAMBDA s :
        FoldLeft(LAMBDA t, i : SeqInsert(t, Place(moves[i]), [nodes[i] EXCEPT !.elem_id = moves[i].id]),
                 s, [i \in DOMAIN moves |-> i]))

\* move_blocks_at, with the path of each block: all the blocks move, or none does
\* and the placements are buried; a missing or inner destination leaves no trace.
MoveBlocksAlong(d, to_parent, moves, paths) ==
    LET node(i) == Node(d, paths[i])
        found == {i \in DOMAIN paths : paths[i] # <<>>}
    IN  CASE to_parent # NoId /\ (\E i \in found : ContainsContainer(node(i), to_parent)) -> d
          [] \E i \in DOMAIN moves : i \notin found \/ StaleMove(node(i), moves[i]) ->
               BuryMoves(d, to_parent, moves)
          [] OTHER -> PutBlocks(TakeBlocks(d, paths), to_parent, moves, [i \in DOMAIN moves |-> node(i)])

MoveBlocksAt(d, to_parent, moves) ==
    IF moves = <<>> \/ ~HasContainer(d, to_parent) THEN d
    ELSE MoveBlocksAlong(d, to_parent, moves,
                         [i \in DOMAIN moves |-> FindBlockById(d, moves[i].block_id)])

-----------------------------------------------------------------------------
(* Lists.  A move has the fields of PendingListItemMove.                    *)

NewItem(op, task) ==
    [id |-> op.id, elem_id |-> op.id, kind |-> "item", reg |-> Register(task, op.id, NoVector),
     placed |-> NoVector, body |-> NewSeq]

WithList(d, elem, F(_)) ==
    WithBlock(d, elem, LAMBDA n : IF n.kind = "list" THEN F(n) ELSE n)

IsList(d, elem) == FindPath(d, LAMBDA n : n.kind = "list" /\ n.elem_id = elem) # <<>>

ChangeItems(d, elem, F(_)) == WithList(d, elem, LAMBDA n : [n EXCEPT !.body = F(@)])

\* move_list_item_at for an item that is not visible: buried when its target
\* was deleted, otherwise it waits in the list it came from.
MoveMissingItem(d, mv) ==
    IF /\ IsList(d, mv.from_list_elem)
       /\ mv.target \in Node(d, FindBlock(d, mv.from_list_elem)).body.tombstones
    THEN ChangeItems(d, mv.to_list_elem, LAMBDA s : SeqBury(s, Place(mv)))
    ELSE WithList(d, mv.from_list_elem, LAMBDA n : [n EXCEPT !.moves = @ \cup {mv}])

\* move_list_item_at for a visible item, at a path.
MoveVisibleItem(d, mv, p, item) ==
    IF Last(p) # mv.item_id /\ ~CausalWriteWins(Last(p), item.placed, mv.id, mv.observed)
    THEN ChangeItems(d, mv.to_list_elem, LAMBDA s : Buried(s, mv))
    ELSE ChangeItems(ChangeItems(d, p[Len(p) - 1], LAMBDA s : SeqDelete(s, Last(p))),
                     mv.to_list_elem,
                     LAMBDA s : SeqInsert(s, Place(mv), [item EXCEPT !.placed = mv.observed]))

MoveItemAlong(d, mv, p) ==
    IF p = <<>> THEN MoveMissingItem(d, mv) ELSE MoveVisibleItem(d, mv, p, Node(d, p))

MoveListItemAt(d, mv) == MoveItemAlong(d, mv, FindListItemById(d, mv.item_id))

\* resolve_pending_list_item_moves, with the list the item came into.
ResolveDueMoves(d, list, due) ==
    FoldLeft(MoveListItemAt, WithList(d, list, LAMBDA n : [n EXCEPT !.moves = @ \ due]), ById(due))

ResolvePendingIn(d, id, list) ==
    ResolveDueMoves(d, list, {mv \in Node(d, FindBlock(d, list)).moves : mv.item_id = id})

ResolvePendingAlong(d, id, p) == IF p = <<>> THEN d ELSE ResolvePendingIn(d, id, p[Len(p) - 1])

ResolvePendingListItemMoves(d, id) == ResolvePendingAlong(d, id, FindListItemById(d, id))

InsertListItemAt(d, list, op, task) ==
    IF ~IsList(d, list) THEN d
    ELSE ResolvePendingListItemMoves(
             ChangeItems(d, list, LAMBDA s : SeqInsert(s, Place(op), NewItem(op, task))), op.id)

\* delete_list_item_at: the current placement, else the operation's own unless
\* that holds another item.
DeleteItem(s, id, at) ==
    IF at \in DOMAIN s.value /\ s.value[at].id # id THEN s ELSE SeqDelete(s, at)

DeleteItemAlong(d, list, id, target, p) ==
    ChangeItems(d, IF p = <<>> THEN list ELSE p[Len(p) - 1],
                LAMBDA s : DeleteItem(s, id, IF p = <<>> THEN target ELSE Last(p)))

DeleteListItemAt(d, list, id, target) ==
    DeleteItemAlong(d, list, id, target, FindListItemById(d, id))

-----------------------------------------------------------------------------
(* Register writes.                                                         *)

WriteRegister(n, value, op, observed) ==
    IF CausalWriteWins(n.reg.op, n.reg.observed, op, observed)
    THEN [n EXCEPT !.reg = Register(value, op, observed)] ELSE n

\* set_list_style, set_code_fence, convert_text_block and replace_raw_block:
\* the write counts on a block of the kind it is for.
WriteBlock(d, elem, kind, value, op, observed) ==
    WithBlock(d, elem, LAMBDA n :
        IF n.kind = kind THEN WriteRegister(n, value, op, observed) ELSE n)

\* set_list_item_task.
SetListItemTask(d, id, task, op, observed) ==
    Update(d, FindListItemById(d, id), LAMBDA n : WriteRegister(n, task, op, observed))

-----------------------------------------------------------------------------
(* Frontmatter: the lines it was parsed from as keys and values, a register *)
(* per key, and the keys written since.                                     *)

\* Frontmatter::parse of structured text: seed registers.
ParseFrontmatter(lines) ==
    [present |-> TRUE, raw |-> lines, dirty |-> {},
     fields |-> [k \in {l.key : l \in ToSet(lines)} |->
                    [op |-> NoId, value |-> (CHOOSE l \in ToSet(lines) : l.key = k).value]]]

\* Frontmatter::set on a structured frontmatter, empty when there is none.
SetField(f, key, value, op) ==
    [f EXCEPT !.fields = PutLww(@, key :> value, op), !.dirty = @ \cup {key}]

SetFrontmatterField(d, key, value, op) ==
    [d EXCEPT !.frontmatter = SetField(IF @.present THEN @ ELSE ParseFrontmatter(<<>>),
                                       key, value, op)]

\* Frontmatter::render: written keys in place, or dropped when they have no
\* value (""), then the keys the text did not have.
RenderFrontmatter(f) ==
    LET now(l) == IF l.key \in f.dirty THEN [l EXCEPT !.value = f.fields[l.key].value] ELSE l
        old == {l.key : l \in ToSet(f.raw)}
        added == SetToSeq({[key |-> k, value |-> f.fields[k].value] : k \in f.dirty \ old})
    IN  SelectSeq([i \in DOMAIN f.raw |-> now(f.raw[i])] \o added, LAMBDA l : l.value # "")
=============================================================================
