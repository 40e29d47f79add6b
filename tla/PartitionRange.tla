---------------------------- MODULE PartitionRange ----------------------------
(***************************************************************************)
(* get_partition_range (pkg/data_cache/src/head/head_service.rs): the rows *)
(* of the cache that one of num_partitions clients reads.                  *)
(***************************************************************************)
EXTENDS Integers

NoRange == [start |-> -1, end |-> -1]    \* None

DivCeil(a, b) == IF a % b = 0 THEN a \div b ELSE (a \div b) + 1

AtMost(a, b) == IF a <= b THEN a ELSE b

\* Mutant: the division rounds down.
RangeRoundedDown(total, parts, p) ==
  LET per == total \div parts IN
  IF total = 0 \/ p * per >= total THEN NoRange
  ELSE [start |-> p * per, end |-> AtMost(p * per + per, total) - 1]

\* Both ends are inclusive.
GetPartitionRange(total, parts, p) ==
  LET per == DivCeil(total, parts)
      start == p * per
  IN IF total = 0 \/ parts = 0 \/ p >= parts \/ start >= total THEN NoRange
     ELSE [start |-> start, end |-> AtMost(start + per, total) - 1]

InRange(i, range) == range # NoRange /\ range.start <= i /\ i <= range.end
=============================================================================
