------------------------------- MODULE Lists -------------------------------
(***************************************************************************)
(* Three operators on lists, with the names and the meaning they have in   *)
(* the community module SequencesExt.  That module also brings in Bags and *)
(* TLC, whose definitions every proof obligation would carry along.        *)
(***************************************************************************)
EXTENDS Integers, Sequences, FiniteSets, FiniteSetsExt

\* The orders in which a list may have the elements of a finite set.
SetToSeqs(S) ==
  {order \in [1 .. Cardinality(S) -> S] :
     \A i, j \in 1 .. Cardinality(S) : i # j => order[i] # order[j]}

\* A loop over a list: op(... op(op(base, list[1]), list[2]) ...).
FoldLeft(op(_, _), base, list) ==
  MapThenFoldSet(LAMBDA x, acc : op(acc, x), base, LAMBDA i : list[i], Max, DOMAIN list)

\* The lists in a list of lists, one after another.
FlattenSeq(lists) ==
  IF Len(lists) = 0 THEN lists
  ELSE LET upTo[i \in 1 .. Len(lists)] ==
             IF i = 1 THEN lists[i] ELSE upTo[i - 1] \o lists[i]
       IN upTo[Len(lists)]
=============================================================================
