-------------------------- MODULE NeighborCheckProofs --------------------------
(***************************************************************************)
(* Theorems about NeighborCheck, for tables of any length, as far as the   *)
(* sum has room for them.                                                  *)
(***************************************************************************)
EXTENDS NeighborCheck, FiniteSetTheorems, TLAPS

\* The counters of the sum have two decimal places each.
TwoPlaces == TableLength \in 1 .. 99

-------------------------------------------------------------------------------
(* The sum *)

LEMMA CountBound ==
  ASSUME TwoPlaces, NEW table \in Table, NEW status
  PROVE  Count(table, status) \in 0 .. 99
<1>1. IsFiniteSet(Slot) /\ Cardinality(Slot) = TableLength
  BY FS_Interval DEF TwoPlaces, Slot
<1>2. {s \in Slot : table[s] = status} \in SUBSET Slot
  OBVIOUS
<1>3. /\ Count(table, status) <= TableLength
      /\ Count(table, status) \in Nat
  BY <1>1, <1>2, FS_Subset, FS_CardinalityType DEF Count
<1> QED
  BY <1>3 DEF TwoPlaces

LEMMA SumsTellCounts ==
  ASSUME TwoPlaces, NEW a \in Table, NEW b \in Table,
         get_neighbor_check(a) = get_neighbor_check(b)
  PROVE  \A status \in Status : Count(a, status) = Count(b, status)
<1>1. \A status : Count(a, status) \in 0 .. 99 /\ Count(b, status) \in 0 .. 99
  BY CountBound
<1> DEFINE x0 == Count(a, "NOT_INITIALIZED")
           x1 == Count(a, "INACTIVE")
           x2 == Count(a, "ACTIVE")
           y0 == Count(b, "NOT_INITIALIZED")
           y1 == Count(b, "INACTIVE")
           y2 == Count(b, "ACTIVE")
<1>2. x0 + 100 * x1 + 10000 * x2 = y0 + 100 * y1 + 10000 * y2
  BY DEF get_neighbor_check
<1>3. /\ x0 \in 0 .. 99 /\ x1 \in 0 .. 99 /\ x2 \in 0 .. 99
      /\ y0 \in 0 .. 99 /\ y1 \in 0 .. 99 /\ y2 \in 0 .. 99
  BY <1>1
<1> HIDE DEF x0, x1, x2, y0, y1, y2
<1>4. x0 = y0 /\ x1 = y1 /\ x2 = y2
  BY ONLY <1>2, <1>3
<1> QED
  BY <1>4 DEF Status, x0, x1, x2, y0, y1, y2

-------------------------------------------------------------------------------
(* What a sum tells *)

\* Two tables of the same sum have as many neighbours of each status, for every
\* length of the table below a hundred: the sum packs the counters, it does not
\* mix them.
THEOREM ChecksTellCounts == ASSUME TwoPlaces PROVE Spec => []CheckTellsCounts
<1>1. Init => neighbor \in Table
  BY DEF Init
<1>2. neighbor \in Table /\ [Next]_neighbor => (neighbor \in Table)'
  BY DEF Next, Mark, Table
<1>3. neighbor \in Table => CheckTellsCounts
  BY SumsTellCounts DEF CheckTellsCounts
<1> QED
  BY <1>1, <1>2, <1>3, PTL DEF Spec
=============================================================================
