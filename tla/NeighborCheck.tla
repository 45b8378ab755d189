---------------------------- MODULE NeighborCheck ----------------------------
(***************************************************************************)
(* The sum that stands for a table of neighbours, prepared in              *)
(* code/dynamic-neighbors so that devices could compare their tables       *)
(* without sending them.  Nothing calls it yet; the table it reads has     *)
(* NEIGHBORS_MAX_COUNT slots, node.neighbor has NEIGHBORS_COUNT.  The sum  *)
(* tells how many neighbours have each status, not which ones.             *)
(***************************************************************************)
EXTENDS Integers, FiniteSets

CONSTANT TableLength   \* NEIGHBORS_MAX_COUNT

VARIABLE neighbor      \* neighbor[].status, the argument

Status == {"NOT_INITIALIZED", "INACTIVE", "ACTIVE"}

Slot == 0 .. TableLength - 1
Table == [Slot -> Status]

Count(table, status) == Cardinality({s \in Slot : table[s] = status})

\* Faulty variant: the sum of the numbers of the statuses.
SumOfStatus(table) == Count(table, "INACTIVE") + 2 * Count(table, "ACTIVE")

get_neighbor_check(table) ==
  Count(table, "NOT_INITIALIZED") + 100 * Count(table, "INACTIVE")
    + 10000 * Count(table, "ACTIVE")

Init == neighbor \in Table

\* The handler of the protocol marks a neighbour.
Mark(s) ==
  \E status \in Status \ {neighbor[s]} : neighbor' = [neighbor EXCEPT ![s] = status]

Next == \E s \in Slot : Mark(s)

Spec == Init /\ [][Next]_neighbor

-------------------------------------------------------------------------------
(* Properties *)

\* Tables of the same sum have as many neighbours of each status: no status
\* carries over into the place of the next one.
CheckTellsCounts ==
  \A table \in Table :
    get_neighbor_check(table) = get_neighbor_check(neighbor) =>
      \A status \in Status : Count(table, status) = Count(neighbor, status)
===============================================================================
