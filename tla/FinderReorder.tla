---------------------------- MODULE FinderReorder ----------------------------
(***************************************************************************)
(* How the finder's script (templates/finder.js, lisPositions and          *)
(* reorderRows) brings the list on the page from one order of its rows to  *)
(* another while it moves few of them.  A row is any value; a list is the  *)
(* sequence of the rows shown.                                             *)
(***************************************************************************)
EXTENDS Integers, FiniteSets, SequencesExt

None == -1

(* Where a row was among the previous ones: a Map keeps the last index.    *)
PreviousIndex(previous, row) ==
    LET at == {i \in DOMAIN previous : previous[i] = row}
    IN  IF at = {} THEN None ELSE CHOOSE i \in at : \A j \in at : j <= i

PreviousIndexes(previous, next) == [i \in DOMAIN next |-> PreviousIndex(previous, next[i])]

(* The patience tails: tails[k] ends the best increasing run of length k.  *)
NoTails(values) == [tails |-> <<>>, before |-> [i \in DOMAIN values |-> 0]]

PlaceIndex(values, acc, i) ==
    LET smaller == {k \in DOMAIN acc.tails : values[acc.tails[k]] < values[i]}
        low == Cardinality(smaller)
    IN  IF values[i] < 0 THEN acc
        ELSE [tails |-> IF low < Len(acc.tails) THEN [acc.tails EXCEPT ![low + 1] = i]
                        ELSE Append(acc.tails, i),
              before |-> [acc.before EXCEPT ![i] =
                             IF low > 0 THEN acc.tails[low] ELSE 0]]

Tails(values) ==
    LET placed[i \in 0 .. Len(values)] ==
            IF i = 0 THEN NoTails(values) ELSE PlaceIndex(values, placed[i - 1], i)
    IN  placed[Len(values)]

TailPositions(values) == Range(Tails(values).tails)      \* mutant of LisPositions

LisPositions(values) ==
    LET run == Tails(values)
        walk[i \in 0 .. Len(values)] == IF i = 0 THEN {} ELSE {i} \cup walk[run.before[i]]
    IN  IF run.tails = <<>> THEN {} ELSE walk[Last(run.tails)]

(* insertBefore takes the node from where it is; without an anchor the     *)
(* node goes last.                                                         *)
Position(list, row) == CHOOSE i \in DOMAIN list : list[i] = row

InsertBefore(list, row, anchor) ==
    LET without == RemoveAt(list, Position(list, row))
    IN  IF anchor = <<>> THEN Append(without, row)
        ELSE InsertAt(without, Position(without, anchor[1]), row)

MovesTooMany(previous, next) ==
    LET moved == Len(next) - Cardinality(LisPositions(PreviousIndexes(previous, next)))
    IN  4 * moved > Len(next)

(* The loop runs from the last row to the first, moved[k] is the list      *)
(* after k rows; the anchor is the row treated before.                     *)
MoveRow(list, next, keep, i) ==
    IF i \in keep THEN list
    ELSE InsertBefore(list, next[i], IF i = Len(next) THEN <<>> ELSE <<next[i + 1]>>)

MoveRows(list, previous, next) ==
    LET keep == LisPositions(PreviousIndexes(previous, next))
        moved[k \in 0 .. Len(next)] ==
            IF k = 0 THEN list ELSE MoveRow(moved[k - 1], next, keep, Len(next) - k + 1)
    IN  moved[Len(next)]

ReorderRows(list, previous, next) ==
    IF MovesTooMany(previous, next) THEN next ELSE MoveRows(list, previous, next)
=============================================================================
