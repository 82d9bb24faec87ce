-------------------------------- MODULE Marks --------------------------------
(***************************************************************************)
(* Registers and inline marks as values: causal_write_wins and LwwRegister, *)
(* MarkSet of src/core/mark.rs.                                             *)
(*                                                                         *)
(* A state vector is a function on the peers it mentions, an attribute map  *)
(* a function on its keys.  A MarkSet has the intervals ever set and the    *)
(* newest remove of each; an anchor is a text unit with a bias.             *)
(***************************************************************************)
EXTENDS Rga

NoVector == <<>>

Seen(observed, peer) == IF peer \in DOMAIN observed THEN observed[peer] ELSE 0

\* Mutant of CausalWriteWins: last writer wins by id.
WriteWinsById(current, current_observed, incoming, observed) == ~IdLess(incoming, current)

\* Mutant of CausalWriteWins: between concurrent writes the last to arrive wins.
WriteWinsByArrival(current, current_observed, incoming, observed) ==
    Seen(current_observed, incoming.peer) < incoming.counter

\* causal_write_wins, TableCell::set and set_column_alignment_observed: a write
\* that observed the current one wins, one the current write observed loses,
\* concurrent ones go by id.
CausalWriteWins(current, current_observed, incoming, observed) ==
    \/ Seen(observed, current.peer) >= current.counter
    \/ /\ Seen(current_observed, incoming.peer) < incoming.counter
       /\ ~IdLess(incoming, current)

\* LwwRegister::set on the entries of a map, created when they are missing.
PutLww(map, values, op) ==
    [k \in DOMAIN map \cup DOMAIN values |->
        IF k \in DOMAIN values /\ (k \in DOMAIN map => ~IdLess(op, map[k].op))
        THEN [value |-> values[k], op |-> op] ELSE map[k]]

-----------------------------------------------------------------------------
NewMarks == [intervals |-> <<>>, removes |-> <<>>]

\* Two maps as one, the newer of two entries kept and the first one on a tie.
MergeNewest(map, other) ==
    [k \in DOMAIN map \cup DOMAIN other |->
        IF k \in DOMAIN map /\ (k \in DOMAIN other => ~IdLess(map[k].op, other[k].op))
        THEN map[k] ELSE other[k]]

\* MarkSet::set_mark.
SetMark(m, id, kind, start, end, attrs, op) ==
    LET old == IF id \in DOMAIN m.intervals THEN m.intervals[id]
               ELSE [kind |-> kind, start |-> start, end |-> end,
                     attrs |-> <<>>, op |-> op]
        placed == IF IdLess(op, old.op) THEN old
                  ELSE [old EXCEPT !.kind = kind, !.start = start, !.end = end, !.op = op]
    IN  [m EXCEPT !.intervals =
            (id :> [placed EXCEPT !.attrs = PutLww(@, attrs, op)]) @@ @]

\* MarkSet::remove_mark.
RemoveMark(m, id, observed, op) ==
    [m EXCEPT !.removes = MergeNewest(@, id :> [observed |-> observed, op |-> op])]

\* MarkSet::merge_from.
MergeFrom(m, other) ==
    [intervals |-> MergeNewest(m.intervals, other.intervals),
     removes |-> MergeNewest(m.removes, other.removes)]

\* MarkSet::is_active: a remove only counts when it observed the interval.
IsActive(m, id) ==
    /\ id \in DOMAIN m.intervals
    /\ id \in DOMAIN m.removes => Seen(m.removes[id].observed, id.peer) < id.counter

ActiveIntervals(m) == {id \in DOMAIN m.intervals : IsActive(m, id)}

-----------------------------------------------------------------------------
(* Ranges.  order is the sequence of visible units, positions count from 0. *)

Anchor(unit, bias) == [unit |-> unit, bias |-> bias]

\* resolve_anchor: an anchor on a unit that is not visible resolves as if it
\* were on the first one.
ResolveAnchor(anchor, order) ==
    LET at == {i \in DOMAIN order : order[i] = anchor.unit}
        base == IF at = {} THEN 0 ELSE Min(at) - 1
    IN  IF anchor.bias = "before" THEN base ELSE Min({base + 1, Len(order)})

\* resolved_intervals: the positions an interval covers, from .. to - 1.
Covered(interval, order) ==
    LET a == ResolveAnchor(interval.start, order)
        b == ResolveAnchor(interval.end, order)
    IN  Min({a, b}) .. Max({a, b}) - 1

\* render_spans, before runs of equal marks are joined: the marks at each
\* position.
RenderSpans(m, order) ==
    [i \in 0 .. Len(order) - 1 |->
        {id \in ActiveIntervals(m) : i \in Covered(m.intervals[id], order)}]
=============================================================================
