--------------------------- MODULE DataCacheProofs ---------------------------
(***************************************************************************)
(* The data cache for tables of any size, any number of workers and        *)
(* clients and any batch size: get_partition_range divides the rows "with  *)
(* no gaps or overlaps", partition_tasks balances the groups, and every    *)
(* row reaches one client once.                                            *)
(***************************************************************************)
EXTENDS DataCache, InductionLemmas

-----------------------------------------------------------------------------
(***************************************************************************)
(* get_partition_range.                                                    *)
(***************************************************************************)
(* div_ceil: enough rows per partition for all of them.                    *)
LEMMA DivCeilEnough ==
  ASSUME NEW a \in Nat, NEW b \in Nat \ {0}
  PROVE  DivCeil(a, b) \in Nat /\ a <= b * DivCeil(a, b)
<1>1. CASE a % b = 0
  BY <1>1, Division DEF DivCeil
<1>2. CASE a % b # 0
  <2>1. b * ((a \div b) + 1) = b * (a \div b) + b
    BY Division
  <2> QED BY <1>2, <2>1, Division DEF DivCeil
<1> QED BY <1>1, <1>2

(* What a client that is not refused reads.                                *)
LEMMA RangeOfPartition ==
  ASSUME NEW total \in Nat, NEW parts \in Nat \ {0}, NEW p \in 0 .. parts - 1,
         NEW i \in Nat
  PROVE  InRange(i, GetPartitionRange(total, parts, p)) <=>
           /\ i < total
           /\ p * DivCeil(total, parts) <= i
           /\ i < p * DivCeil(total, parts) + DivCeil(total, parts)
<1> DEFINE per == DivCeil(total, parts)
           start == p * per
<1> SUFFICES InRange(i, GetPartitionRange(total, parts, p)) <=>
               i < total /\ start <= i /\ i < start + per
  OBVIOUS
<1>1. per \in Nat /\ start \in Nat
  BY DivCeilEnough
<1>2. CASE total = 0 \/ start >= total
  <2>1. GetPartitionRange(total, parts, p) = NoRange
    BY <1>2 DEF GetPartitionRange
  <2> QED BY <1>1, <1>2, <2>1 DEF InRange
<1>3. CASE ~(total = 0 \/ start >= total)
  <2>1. GetPartitionRange(total, parts, p) =
          [start |-> start, end |-> AtMost(start + per, total) - 1]
    BY <1>3 DEF GetPartitionRange
  <2>2. GetPartitionRange(total, parts, p) # NoRange
    BY <1>1, <2>1 DEF NoRange
  <2> HIDE DEF per, start
  <2> QED BY <1>1, <2>1, <2>2 DEF InRange, AtMost
<1> QED BY <1>2, <1>3

(* No row is in the range of two clients: the ranges get_partition_range   *)
(* returns for the partitions of one table do not overlap.                 *)
THEOREM NoOverlap ==
  ASSUME NEW total \in Nat, NEW parts \in Nat \ {0},
         NEW p \in 0 .. parts - 1, NEW q \in 0 .. parts - 1, NEW i \in Nat,
         InRange(i, GetPartitionRange(total, parts, p)),
         InRange(i, GetPartitionRange(total, parts, q))
  PROVE  p = q
<1> DEFINE per == DivCeil(total, parts)
<1>1. per \in Nat
  BY DivCeilEnough
<1>2. p * per <= i /\ i < p * per + per /\ q * per <= i /\ i < q * per + per
  BY RangeOfPartition
<1> HIDE DEF per
<1>3. ASSUME p < q PROVE FALSE
  <2>1. (p + 1) * per <= q * per
    BY <1>1, <1>3, MultiplicationMonotone
  <2>2. (p + 1) * per = p * per + per
    BY <1>1
  <2> QED BY <1>1, <1>2, <2>1, <2>2
<1>4. ASSUME q < p PROVE FALSE
  <2>1. (q + 1) * per <= p * per
    BY <1>1, <1>4, MultiplicationMonotone
  <2>2. (q + 1) * per = q * per + per
    BY <1>1
  <2> QED BY <1>1, <1>2, <2>1, <2>2
<1> QED BY <1>3, <1>4

(* Every row is in the range of some client: the ranges get_partition_range *)
(* returns leave no gap, however the rows divide among the partitions.     *)
THEOREM NoGap ==
  ASSUME NEW total \in Nat, NEW parts \in Nat \ {0}, NEW i \in 0 .. total - 1
  PROVE  \E p \in 0 .. parts - 1 : InRange(i, GetPartitionRange(total, parts, p))
<1> DEFINE per == DivCeil(total, parts)
           p == i \div per
<1>1. per \in Nat /\ total <= parts * per
  BY DivCeilEnough
<1> HIDE DEF per
<1>2. per # 0
  <2>1. per = 0 => parts * per = 0
    OBVIOUS
  <2> QED BY <1>1, <2>1
<1>3. p \in Nat /\ i % per \in 0 .. per - 1 /\ i = (per * p) + (i % per)
  <2>1. i \in Nat /\ per \in Nat \ {0}
    BY <1>1, <1>2
  <2> QED BY Zenon, <2>1, Division
<1> HIDE DEF p
<1>4. p < parts
  <2>1. SUFFICES ASSUME parts <= p PROVE FALSE
    BY <1>3
  <2>2. parts * per <= p * per
    BY Zenon, <1>1, <1>3, <2>1, MultiplicationMonotone
  <2> QED BY <1>1, <1>3, <2>2
<1>5. p \in 0 .. parts - 1 /\ p * per <= i /\ i < p * per + per /\ i < total
  BY <1>1, <1>3, <1>4
<1>6. InRange(i, GetPartitionRange(total, parts, p))
  BY <1>5, RangeOfPartition DEF per
<1> QED BY <1>5, <1>6

-----------------------------------------------------------------------------
(***************************************************************************)
(* Groups of files: what partition_tasks promises, of record counts rws.   *)
(***************************************************************************)
FileRows(rws, g) == Total(rws, Range(g))

Grouped(rws, groups) ==
  /\ groups \in [Workers -> Seq(DOMAIN rws)]
  /\ \A v, w \in Workers : \A i \in DOMAIN groups[v], j \in DOMAIN groups[w] :
       groups[v][i] = groups[w][j] => v = w /\ i = j

Complete(rws, groups) == \A f \in DOMAIN rws : \E w \in Workers : f \in Range(groups[w])

Balanced(rws, groups) ==
  \A v, w \in Workers :
    FileRows(rws, groups[v]) <= FileRows(rws, groups[w]) + Max(Range(rws) \union {0})

LEMMA SeqElements ==
  ASSUME NEW S, NEW g \in Seq(S)
  PROVE  /\ Len(g) \in Nat /\ DOMAIN g = 1 .. Len(g) /\ Range(g) = {g[i] : i \in 1 .. Len(g)}
         /\ Range(g) \subseteq S /\ IsFiniteSet(Range(g))
<1>1. Len(g) \in Nat /\ DOMAIN g = 1 .. Len(g)
  OBVIOUS
<1>2. Range(g) = {g[i] : i \in 1 .. Len(g)}
  BY <1>1 DEF Range
<1>3. IsFiniteSet(Range(g))
  <2>1. IsFiniteSet(1 .. Len(g))
    BY <1>1, FS_Interval
  <2> QED BY <1>2, <2>1, FiniteRange
<1> QED BY <1>1, <1>2, <1>3

LEMMA FileRowsType ==
  ASSUME NEW rws \in Seq(Nat), NEW g \in Seq(DOMAIN rws)
  PROVE  FileRows(rws, g) \in Nat
<1>1. IsFiniteSet(Range(g)) /\ Range(g) \subseteq DOMAIN rws
  BY SeqElements
<1>2. \A f \in Range(g) : rws[f] \in Nat
  BY <1>1
<1> QED BY Zenon, <1>1, <1>2, TotalType DEF FileRows

LEMMA FileInGroup ==
  ASSUME NEW rws \in Seq(Nat), NEW g \in Seq(DOMAIN rws), NEW f \in Range(g)
  PROVE  rws[f] <= FileRows(rws, g)
<1> DEFINE S == Range(g)
<1>1. IsFiniteSet(S) /\ S \subseteq DOMAIN rws
  BY SeqElements
<1>2. \A x \in S : rws[x] \in Nat
  BY <1>1
<1> HIDE DEF S
<1>3. f \in S
  BY DEF S
<1>4. Total(rws, S \ {f}) \in Nat /\ Total(rws, S) = rws[f] + Total(rws, S \ {f})
  BY Zenon, <1>1, <1>2, <1>3, TotalStep
<1>5. rws[f] \in Nat
  BY <1>2, <1>3
<1> QED BY <1>4, <1>5 DEF FileRows, S

(* The rows of a group are those of its files, in whatever order they are. *)
LEMMA SizeIsFileRows ==
  ASSUME rows \in Seq(Nat), NEW g \in Seq(Files),
         \A i, j \in DOMAIN g : g[i] = g[j] => i = j
  PROVE  Size(g) = FileRows(rows, g)
<1> DEFINE n == Len(g)
           S == DOMAIN g
           f == [i \in S |-> rows[g[i]]]
           Loop(iter) ==
             iter = [T \in SUBSET S |->
                       IF T = {} THEN 0
                       ELSE rows[g[CHOOSE x \in T : TRUE]] + iter[T \ {CHOOSE x \in T : TRUE}]]
           it == CHOOSE iter : Loop(iter)
<1>1. n \in Nat /\ S = 1 .. n /\ IsFiniteSet(S) /\ \A x \in S : g[x] \in Files
  BY FS_Interval
<1>2. \A x \in S : f[x] \in Nat /\ f[x] = rows[g[x]]
  BY <1>1 DEF Files
<1>3. \A iter : SumLoop(iter, S, f) <=> Loop(iter)
  <2> SUFFICES ASSUME NEW iter
               PROVE  \A T \in SUBSET S : 
                        (IF T = {} THEN 0
                         ELSE f[CHOOSE x \in T : TRUE] + iter[T \ {CHOOSE x \in T : TRUE}]) =
                        (IF T = {} THEN 0
                         ELSE rows[g[CHOOSE x \in T : TRUE]] + iter[T \ {CHOOSE x \in T : TRUE}])
    BY ZenonT(30) DEF SumLoop
  <2> TAKE T \in SUBSET S
  <2>1. CASE T # {}
    <3>1. (CHOOSE x \in T : TRUE) \in S
      BY <2>1
    <3> QED BY <1>2, <3>1
  <2> QED BY <2>1
<1>4. SumLoop(it, S, f)
  <2> HIDE DEF Loop, f, S
  <2>1. \E iter : Loop(iter)
    BY Zenon, <1>1, <1>2, <1>3, SumLoopExists
  <2> QED BY <1>3, <2>1
<1>5. Size(g) = it[S]
  BY DEF Size, MapThenSumSet, MapThenFoldSet
<1>6. it[S] = Total(f, S)
  <2> HIDE DEF it, f, S
  <2> QED BY <1>1, <1>2, <1>4, TotalIsLoop
<1>7. Total(f, 1 .. n) = Total(rows, {g[i] : i \in 1 .. n})
  <2>1. Through(f, rows, g, n) /\ Distinct(g, n)
    BY Zenon, <1>1, <1>2 DEF Through, Distinct
  <2> HIDE DEF f, n
  <2> QED BY Zenon, <1>1, <2>1, TotalOfDistinct
<1> QED BY Zenon, <1>1, <1>5, <1>6, <1>7, SeqElements DEF FileRows

LEMMA CacheConstants ==
  /\ NumWorkers \in Nat \ {0} /\ BatchRows \in Nat \ {0}
  /\ 0 \in Workers /\ Workers \subseteq Nat /\ IsFiniteSet(Workers)
BY CacheAssumption, FS_Interval DEF Workers

LEMMA SmallestGroup ==
  ASSUME rows \in Seq(Nat), NEW groups, Grouped(rows, groups)
  PROVE  /\ Smallest(groups) \in Workers
         /\ \A v \in Workers :
              FileRows(rows, groups[Smallest(groups)]) <= FileRows(rows, groups[v])
<1> DEFINE rowsOf == [w \in Workers |-> FileRows(rows, groups[w])]
           N == {rowsOf[w] : w \in Workers}
           S == {w \in Workers : \A v \in Workers : Size(groups[w]) <= Size(groups[v])}
<1>1. \A w \in Workers : Size(groups[w]) = rowsOf[w] /\ rowsOf[w] \in Nat
  <2> TAKE w \in Workers
  <2>1. groups[w] \in Seq(Files) /\ \A i, j \in DOMAIN groups[w] : groups[w][i] = groups[w][j] => i = j
    BY DEF Grouped, Files
  <2> QED BY Zenon, <2>1, SizeIsFileRows, FileRowsType DEF Files
<1>2. \A w \in Workers : rowsOf[w] = FileRows(rows, groups[w])
  OBVIOUS
<1> HIDE DEF rowsOf
<1>3. PICK m \in N : \A k \in N : m <= k
  <2>1. N \in SUBSET Nat /\ N # {}
    BY Zenon, <1>1, CacheConstants
  <2> HIDE DEF N
  <2> QED BY Zenon, <2>1, LeastNatural
<1>4. PICK u \in Workers : \A v \in Workers : rowsOf[u] <= rowsOf[v]
  BY <1>3
<1>5. S = {w \in Workers : \A v \in Workers : rowsOf[w] <= rowsOf[v]}
  BY <1>1
<1>6. S # {} /\ S \in SUBSET Nat
  BY Zenon, <1>4, <1>5, CacheConstants
<1>7. Smallest(groups) \in S
  <2>1. Smallest(groups) = Min(S)
    BY DEF Smallest
  <2> HIDE DEF S
  <2> QED BY Zenon, <1>6, <2>1, MinOfNaturals
<1> QED BY Zenon, <1>2, <1>5, <1>7

(* No file has more rows than the bound of Balanced.                       *)
LEMMA LargestFile ==
  ASSUME NEW rws \in Seq(Nat)
  PROVE  /\ Max(Range(rws) \union {0}) \in Nat
         /\ \A f \in DOMAIN rws : rws[f] <= Max(Range(rws) \union {0})
<1> DEFINE S == Range(rws) \union {0}
<1>1. IsFiniteSet(S) /\ S \subseteq Nat /\ S \in SUBSET Int /\ S # {}
  <2>1. IsFiniteSet(Range(rws)) /\ Range(rws) \subseteq Nat
    BY Zenon, SeqElements
  <2> QED BY <2>1, FS_AddElement
<1>2. \A f \in DOMAIN rws : rws[f] \in S
  BY DEF Range
<1>3. Max(S) \in S /\ \A x \in S : x <= Max(S)
  <2> HIDE DEF S
  <2> QED BY Zenon, <1>1, MaxOfFinite
<1> QED BY Zenon, <1>1, <1>2, <1>3

(* A file is added to the smallest group.                                  *)
Unplaced(x, groups) == \A w \in Workers : x \notin Range(groups[w])
Extends(more, groups, m, x) == more = [groups EXCEPT ![m] = Append(groups[m], x)]
Gains(more, groups, m, x) ==
  \A w \in Workers : Range(more[w]) = Range(groups[w]) \union (IF w = m THEN {x} ELSE {})

LEMMA OneMoreFile ==
  ASSUME rows \in Seq(Nat), NEW groups, Grouped(rows, groups), Balanced(rows, groups),
         NEW x \in Files, Unplaced(x, groups),
         NEW more, Extends(more, groups, Smallest(groups), x)
  PROVE  /\ Grouped(rows, more) /\ Balanced(rows, more)
         /\ Gains(more, groups, Smallest(groups), x)
<1>0. \A w \in Workers : x \notin Range(groups[w])
  BY DEF Unplaced
<1> DEFINE m == Smallest(groups)
<1>1. m \in Workers /\ \A v \in Workers : FileRows(rows, groups[m]) <= FileRows(rows, groups[v])
  BY Zenon, SmallestGroup
<1> HIDE DEF m
<1>2. /\ groups \in [Workers -> Seq(DOMAIN rows)]
      /\ \A v, w \in Workers : \A i \in DOMAIN groups[v], j \in DOMAIN groups[w] :
           groups[v][i] = groups[w][j] => v = w /\ i = j
  BY DEF Grouped
<1>3. /\ more \in [Workers -> Seq(DOMAIN rows)]
      /\ more[m] = Append(groups[m], x)
      /\ \A w \in Workers : w # m => more[w] = groups[w]
  <2>1. more = [groups EXCEPT ![m] = Append(groups[m], x)]
    BY DEF m, Extends
  <2>2. Append(groups[m], x) \in Seq(DOMAIN rows)
    BY <1>1, <1>2 DEF Files
  <2> QED BY Zenon, <1>1, <1>2, <2>1, <2>2
<1> DEFINE n == Len(groups[m])
<1>4. /\ n \in Nat /\ DOMAIN groups[m] = 1 .. n /\ DOMAIN more[m] = 1 .. n + 1
      /\ more[m][n + 1] = x /\ \A i \in 1 .. n : more[m][i] = groups[m][i]
  <2>1. groups[m] \in Seq(DOMAIN rows)
    BY <1>1, <1>2
  <2> QED BY SMTT(30), <1>3, <2>1
<1>5. Range(more[m]) = Range(groups[m]) \union {x}
  <2>1. 1 .. n + 1 = (1 .. n) \union {n + 1}
    BY <1>4
  <2> HIDE DEF n
  <2>2. Range(more[m]) = {more[m][i] : i \in 1 .. n} \union {more[m][n + 1]}
    BY SMTT(30), <1>4, <2>1 DEF Range
  <2>3. {more[m][i] : i \in 1 .. n} = {groups[m][i] : i \in 1 .. n}
    BY Zenon, <1>4
  <2> QED BY Zenon, <1>4, <2>2, <2>3 DEF Range
<1>6. Grouped(rows, more)
  <2>1. ASSUME NEW v \in Workers, NEW w \in Workers, NEW i \in DOMAIN more[v], NEW j \in DOMAIN more[w],
               more[v][i] = more[w][j]
        PROVE  v = w /\ i = j
    <3>1. \A u \in Workers : \A k \in DOMAIN more[u] :
            \/ k \in DOMAIN groups[u] /\ more[u][k] = groups[u][k] /\ groups[u][k] # x
            \/ u = m /\ k = n + 1 /\ more[u][k] = x
      <4> TAKE u \in Workers
      <4>1. CASE u # m
        BY Zenon, <1>0, <1>3, <4>1 DEF Range
      <4>2. CASE u = m
        <5>1. \A k \in 1 .. n : groups[m][k] # x
          BY Zenon, <1>0, <1>1, <1>4 DEF Range
        <5>2. 1 .. n + 1 = (1 .. n) \union {n + 1}
          BY <1>4
        <5> HIDE DEF n
        <5> QED BY Zenon, <1>4, <4>2, <5>1, <5>2
      <4> QED BY Zenon, <4>1, <4>2
    <3>2. \/ i \in DOMAIN groups[v] /\ more[v][i] = groups[v][i] /\ groups[v][i] # x
          \/ v = m /\ i = n + 1 /\ more[v][i] = x
      BY Zenon, <3>1
    <3>3. \/ j \in DOMAIN groups[w] /\ more[w][j] = groups[w][j] /\ groups[w][j] # x
          \/ w = m /\ j = n + 1 /\ more[w][j] = x
      BY Zenon, <3>1
    <3>4. CASE i \in DOMAIN groups[v] /\ more[v][i] = groups[v][i] /\ groups[v][i] # x
      <4>1. j \in DOMAIN groups[w] /\ groups[v][i] = groups[w][j]
        BY Zenon, <2>1, <3>3, <3>4
      <4> QED BY <1>2, <3>4, <4>1
    <3>5. CASE v = m /\ i = n + 1 /\ more[v][i] = x
      BY Zenon, <2>1, <3>3, <3>5
    <3> QED BY Zenon, <3>2, <3>4, <3>5
  <2> QED BY Zenon, <1>3, <2>1 DEF Grouped
<1>7. FileRows(rows, more[m]) = rows[x] + FileRows(rows, groups[m])
  <2> DEFINE S == Range(more[m])
  <2>1. IsFiniteSet(S) /\ S \subseteq DOMAIN rows /\ x \in S
    BY Zenon, <1>1, <1>3, <1>5, SeqElements
  <2>2. \A f \in S : rows[f] \in Nat
    BY <2>1
  <2>3. S \ {x} = Range(groups[m])
    BY Zenon, <1>0, <1>1, <1>5
  <2>4. Total(rows, S) = rows[x] + Total(rows, S \ {x})
    <3> HIDE DEF S
    <3> QED BY Zenon, <2>1, <2>2, TotalStep
  <2> QED BY Zenon, <2>3, <2>4 DEF FileRows
<1>8. Balanced(rows, more)
  <2> DEFINE M == Max(Range(rows) \union {0})
  <2>1. M \in Nat /\ rows[x] <= M /\ rows[x] \in Nat
    <3>1. x \in DOMAIN rows
      BY DEF Files
    <3> HIDE DEF M
    <3>2. M \in Nat /\ \A f \in DOMAIN rows : rows[f] <= M
      BY Zenon, LargestFile DEF M
    <3> QED BY <3>1, <3>2
  <2>2. \A w \in Workers : FileRows(rows, groups[w]) \in Nat
    BY Zenon, <1>2, FileRowsType
  <2>3. \A v, w \in Workers : FileRows(rows, groups[v]) <= FileRows(rows, groups[w]) + M
    BY Zenon DEF Balanced
  <2> HIDE DEF M
  <2>4. \A w \in Workers : FileRows(rows, more[w]) =
          IF w = m THEN rows[x] + FileRows(rows, groups[m]) ELSE FileRows(rows, groups[w])
    BY Zenon, <1>3, <1>7
  <2>5. ASSUME NEW v \in Workers, NEW w \in Workers
        PROVE  FileRows(rows, more[v]) <= FileRows(rows, more[w]) + M
    <3> DEFINE gv == FileRows(rows, groups[v])
               gw == FileRows(rows, groups[w])
               gm == FileRows(rows, groups[m])
               mv == FileRows(rows, more[v])
               mw == FileRows(rows, more[w])
               r == rows[x]
    <3>1. /\ gv \in Nat /\ gw \in Nat /\ gm \in Nat
          /\ gm <= gw /\ gv <= gw + M
      BY Zenon, <1>1, <2>2, <2>3
    <3>2. /\ mv = r + gm \/ mv = gv
          /\ (mw = r + gm /\ gw = gm) \/ mw = gw
      BY Zenon, <2>4
    <3>3. r \in Nat /\ r <= M /\ M \in Nat
      BY Zenon, <2>1
    <3> HIDE DEF gv, gw, gm, mv, mw, r
    <3>4. mv <= mw + M
      BY <3>1, <3>2, <3>3
    <3> QED BY Zenon, <3>4 DEF mv, mw
  <2> QED BY Zenon, <2>5 DEF Balanced, M
<1> QED BY Zenon, <1>3, <1>5, <1>6, <1>8 DEF m, Gains

LEMMA NoFileYet ==
  ASSUME NEW rws \in Seq(Nat)
  PROVE  /\ Grouped(rws, [w \in Workers |-> <<>>])
         /\ Balanced(rws, [w \in Workers |-> <<>>])
<1> DEFINE empty == [w \in Workers |-> <<>>]
<1>1. Grouped(rws, empty)
  BY DEF Grouped
<1>2. FileRows(rws, <<>>) = 0
  <2>1. Range(<<>>) = {}
    BY DEF Range
  <2> QED BY Zenon, <2>1, TotalEmpty DEF FileRows
<1>3. Balanced(rws, empty)
  BY SMTT(30), <1>2, LargestFile DEF Balanced
<1> QED BY Zenon, <1>1, <1>3

(* partition_tasks puts every file it is given into one group, once, and   *)
(* balances the groups.                                                    *)
LEMMA PartitionTasksGroups ==
  ASSUME rows \in Seq(Nat), NEW files \in SUBSET Files, NEW order \in Orders(files)
  PROVE  /\ Grouped(rows, PartitionTasks(order)) /\ Balanced(rows, PartitionTasks(order))
         /\ \A f \in files : \E w \in Workers : f \in Range(PartitionTasks(order)[w])
<1> DEFINE n == Len(order)
           D == 1 .. n
           V == [Workers -> Seq(Files)]
           empty == [w \in Workers |-> <<>>]
           Round(i, v) == CHOOSE h \in {[g EXCEPT ![Smallest(g)] = Append(g[Smallest(g)], order[i])] :
                                          g \in {v}} : TRUE
           Loop(iter) == iter = [T \in SUBSET DOMAIN order |->
                                   IF T = {} THEN empty ELSE Round(Max(T), iter[T \ {Max(T)}])]
           it == CHOOSE iter : Loop(iter)
           Placed(k) == \A w \in Workers : Range(it[1 .. k][w]) \subseteq {order[i] : i \in 1 .. k}
           All(k) == \A i \in 1 .. k : \E w \in Workers : order[i] \in Range(it[1 .. k][w])
           Good(k) == /\ Grouped(rows, it[1 .. k]) /\ Balanced(rows, it[1 .. k])
                      /\ Placed(k) /\ All(k)
<1>1. /\ n \in Nat /\ DOMAIN order = D /\ order \in Seq(files) /\ IsFiniteSet(files)
      /\ files = {order[i] : i \in D} /\ \A i, j \in D : order[i] = order[j] => i = j
  <2>1. IsFiniteSet(files)
    <3>1. IsFiniteSet(Files)
      BY FS_Interval DEF Files
    <3> QED BY Zenon, <3>1, FS_Subset
  <2>2. order \in SetToSeqs(files)
    BY DEF Orders
  <2> QED BY <2>1, <2>2, SeqsOfSet
<1>2. \A i \in D : order[i] \in files /\ order[i] \in Files
  BY Zenon, <1>1
<1>3. \A i, v : Round(i, v) = [v EXCEPT ![Smallest(v)] = Append(v[Smallest(v)], order[i])]
  OBVIOUS
<1> HIDE DEF Round
<1>4. \E iter : Loop(iter)
  <2> DEFINE step == [i \in D |-> [v \in V |-> Round(i, v)]]
             pick == [T \in SUBSET D |-> Max(T)]
  <2>1. step \in [D -> [V -> V]]
    <3>1. ASSUME NEW i \in D, NEW v \in V PROVE Round(i, v) \in V
      <4> DEFINE m == Smallest(v)
      <4>1. Round(i, v) = [v EXCEPT ![m] = Append(v[m], order[i])]
        BY Zenon, <1>3
      <4> HIDE DEF m
      <4>2. m \in Workers => Append(v[m], order[i]) \in Seq(Files)
        BY <1>2
      <4> QED BY Zenon, <4>1, <4>2
    <3> QED BY Zenon, <3>1
  <2>2. \A T \in SUBSET D : T # {} => Max(T) \in T
    BY Zenon, <1>1, MaxOfSubset
  <2>3. Picks(pick, D)
    BY Zenon, <2>2 DEF Picks
  <2>4. IsFiniteSet(D)
    BY <1>1, FS_Interval
  <2>5. \A i \in D, v \in V : step[i][v] = Round(i, v)
    OBVIOUS
  <2>6. \A T \in SUBSET D : pick[T] = Max(T)
    OBVIOUS
  <2>7. empty \in V
    OBVIOUS
  <2> HIDE DEF step, pick, D, V, empty
  <2>8. PICK f \in [SUBSET D -> V] : IsFold(f, D, empty, step, pick)
    BY Zenon, <2>1, <2>3, <2>4, <2>7, FoldExists
  <2>9. \A T \in SUBSET D :
          f[T] = IF T = {} THEN empty ELSE Round(Max(T), f[T \ {Max(T)}])
    <3> SUFFICES ASSUME NEW T \in SUBSET D, T # {}
                 PROVE  step[pick[T]][f[T \ {pick[T]}]] = Round(Max(T), f[T \ {Max(T)}])
      BY Zenon, <2>8 DEF IsFold
    <3>1. Max(T) \in D /\ f[T \ {Max(T)}] \in V
      BY <2>2
    <3>2. step[Max(T)][f[T \ {Max(T)}]] = Round(Max(T), f[T \ {Max(T)}])
      BY <2>5, <3>1, Zenon
    <3>3. pick[T] = Max(T)
      BY Zenon, <2>6
    <3> QED BY Zenon, <3>2, <3>3
  <2>10. f = [T \in SUBSET D |-> IF T = {} THEN empty ELSE Round(Max(T), f[T \ {Max(T)}])]
    BY Zenon, <2>9
  <2> QED BY Zenon, <1>1, <2>10 DEF D
<1>5. Loop(it)
  <2> HIDE DEF Loop
  <2> QED BY Zenon, <1>4
<1>6. PartitionTasks(order) = it[D]
  BY Zenon, <1>1 DEF PartitionTasks, FoldLeft, MapThenFoldSet, Round
<1>7. /\ it[1 .. 0] = empty
      /\ \A k \in 1 .. n : it[1 .. k] = Round(k, it[1 .. (k - 1)])
  <2> HIDE DEF it, empty
  <2>0. \A T \in SUBSET DOMAIN order :
          it[T] = IF T = {} THEN empty ELSE Round(Max(T), it[T \ {Max(T)}])
    BY Zenon, <1>5
  <2>1. it[{}] = empty /\ 1 .. 0 = {}
    <3>1. {} \in SUBSET DOMAIN order /\ 1 .. 0 = {}
      OBVIOUS
    <3> QED BY Zenon, <2>0, <3>1
  <2>2. ASSUME NEW k \in 1 .. n PROVE it[1 .. k] = Round(k, it[1 .. (k - 1)])
    <3>1. Max(1 .. k) = k /\ (1 .. k) \ {k} = 1 .. (k - 1)
      BY <1>1, MaxOfInterval
    <3>2. 1 .. k \in SUBSET (DOMAIN order) /\ 1 .. k # {}
      <4>1. n \in Nat /\ DOMAIN order = 1 .. n
        BY Zenon, <1>1
      <4>2. 1 .. k \subseteq 1 .. n /\ 1 \in 1 .. k
        BY <4>1
      <4> QED BY <4>1, <4>2, Zenon
    <3>3. it[1 .. k] = Round(Max(1 .. k), it[(1 .. k) \ {Max(1 .. k)}])
      BY <2>0, <3>2, Zenon
    <3> QED BY Zenon, <3>1, <3>3
  <2> QED BY Zenon, <2>1, <2>2
<1> HIDE DEF it
<1>8. Good(0)
  <2>1. Range(<<>>) = {}
    BY DEF Range
  <2> QED BY <1>7, <2>1, NoFileYet
<1>9. ASSUME NEW k \in 1 .. n, Good(k - 1) PROVE Good(k)
  <2> DEFINE groups == it[1 .. (k - 1)]
             more == it[1 .. k]
             x == order[k]
  <2>1. k \in D /\ x \in Files /\ 1 .. k = (1 .. k - 1) \union {k}
    BY <1>1, <1>2
  <2>2. Unplaced(x, groups)
    <3>1. x \notin {order[i] : i \in 1 .. k - 1}
      <4>1. 1 .. k - 1 \subseteq D /\ k \notin 1 .. k - 1
        BY <1>1
      <4> HIDE DEF D
      <4> QED BY <1>1, <2>1, <4>1
    <3> QED BY Zenon, <1>9, <3>1 DEF Unplaced
  <2>3. Extends(more, groups, Smallest(groups), x)
    BY Zenon, <1>3, <1>7 DEF Extends
  <2>4. Smallest(groups) \in Workers
    BY Zenon, <1>9, SmallestGroup
  <2> HIDE DEF groups, more, x
  <2>5. Grouped(rows, more) /\ Balanced(rows, more) /\ Gains(more, groups, Smallest(groups), x)
    <3>1. Grouped(rows, groups) /\ Balanced(rows, groups)
      BY <1>9 DEF groups
    <3> QED BY Zenon, <2>1, <2>2, <2>3, <3>1, OneMoreFile
  <2>6. Placed(k)
    <3>1. {order[i] : i \in 1 .. k} = {order[i] : i \in 1 .. k - 1} \union {x}
      BY Zenon, <2>1 DEF x
    <3>2. \A w \in Workers : Range(groups[w]) \subseteq {order[i] : i \in 1 .. k - 1}
      BY Zenon, <1>9 DEF groups
    <3>3. \A w \in Workers : Range(more[w]) \subseteq {order[i] : i \in 1 .. k - 1} \union {x}
      BY Zenon, <2>5, <3>2 DEF Gains
    <3> QED BY Zenon, <3>1, <3>3 DEF more
  <2>7. All(k)
    <3>1. \A i \in 1 .. k - 1 : \E w \in Workers : order[i] \in Range(groups[w])
      BY Zenon, <1>9 DEF groups
    <3>2. \A i \in 1 .. k - 1 : \E w \in Workers : order[i] \in Range(more[w])
      BY Zenon, <2>5, <3>1 DEF Gains
    <3>3. \E w \in Workers : order[k] \in Range(more[w])
      BY Zenon, <2>4, <2>5 DEF x, Gains
    <3> QED BY Zenon, <2>1, <3>2, <3>3 DEF more
  <2> QED BY Zenon, <2>5, <2>6, <2>7 DEF more
<1>10. Good(n)
  <2> DEFINE W == {k \in 0 .. n : Good(k)}
  <2> HIDE DEF Good
  <2>1. 0 \in W /\ \A k \in 1 .. n : k - 1 \in W => k \in W
    BY <1>1, <1>8, <1>9
  <2> HIDE DEF W, n
  <2>2. 0 .. n \subseteq W
    BY Zenon, <1>1, <2>1, IntervalInduction
  <2> QED BY <1>1, <2>2 DEF W
<1> QED BY <1>1, <1>6, <1>10

-----------------------------------------------------------------------------
(***************************************************************************)
(* The row numbers of the groups.                                          *)
(***************************************************************************)
StartOf(rws, groups, w) == Total([v \in Workers |-> FileRows(rws, groups[v])], 0 .. w - 1)

Numbered(rws, groups, total) ==
  /\ total \in Nat
  /\ \A w \in Workers : groups[w] # <<>> =>
       StartOf(rws, groups, w) + FileRows(rws, groups[w]) <= total

LEMMA GroupSize ==
  ASSUME rows \in Seq(Nat), NEW groups, Grouped(rows, groups), NEW w \in Workers
  PROVE  Size(groups[w]) = FileRows(rows, groups[w]) /\ FileRows(rows, groups[w]) \in Nat
<1>1. /\ groups[w] \in Seq(Files)
      /\ \A i, j \in DOMAIN groups[w] : groups[w][i] = groups[w][j] => i = j
  BY DEF Grouped, Files
<1> QED BY Zenon, <1>1, SizeIsFileRows, FileRowsType DEF Files

LEMMA StartIndexIsStartOf ==
  ASSUME rows \in Seq(Nat), NEW groups, Grouped(rows, groups), NEW w \in Workers
  PROVE  StartIndex(groups, w) = StartOf(rows, groups, w) /\ StartOf(rows, groups, w) \in Nat
<1> DEFINE S == 0 .. w - 1
           f == [v \in Workers |-> FileRows(rows, groups[v])]
           Loop(iter) ==
             iter = [T \in SUBSET S |->
                       IF T = {} THEN 0
                       ELSE Size(groups[CHOOSE x \in T : TRUE]) + iter[T \ {CHOOSE x \in T : TRUE}]]
           it == CHOOSE iter : Loop(iter)
<1>1. IsFiniteSet(S) /\ S \subseteq Workers
  <2>1. NumWorkers \in Nat /\ w \in Nat /\ w < NumWorkers
    BY CacheConstants DEF Workers
  <2>2. IsFiniteSet(S)
    BY <2>1, FS_Interval
  <2> QED BY <2>1, <2>2 DEF Workers
<1>2. \A x \in S : f[x] \in Nat /\ f[x] = Size(groups[x])
  BY Zenon, <1>1, GroupSize
<1> HIDE DEF S, f
<1>3. \A iter : SumLoop(iter, S, f) <=> Loop(iter)
  <2> SUFFICES ASSUME NEW iter
               PROVE  \A T \in SUBSET S : 
                        (IF T = {} THEN 0
                         ELSE f[CHOOSE x \in T : TRUE] + iter[T \ {CHOOSE x \in T : TRUE}]) =
                        (IF T = {} THEN 0
                         ELSE Size(groups[CHOOSE x \in T : TRUE]) + iter[T \ {CHOOSE x \in T : TRUE}])
    BY ZenonT(30), ZenonT(60) DEF SumLoop
  <2> TAKE T \in SUBSET S
  <2>1. CASE T # {}
    <3>1. (CHOOSE x \in T : TRUE) \in S
      BY <2>1
    <3>2. f[CHOOSE x \in T : TRUE] = Size(groups[CHOOSE x \in T : TRUE])
      BY <1>2, <3>1
    <3> QED BY <3>2
  <2> QED BY <2>1
<1>4. SumLoop(it, S, f)
  <2> HIDE DEF Loop, f, S
  <2>1. \E iter : Loop(iter)
    BY Zenon, <1>1, <1>2, <1>3, SumLoopExists
  <2> QED BY <1>3, <2>1
<1>5. StartIndex(groups, w) = it[S]
  BY DEF S, StartIndex, MapThenSumSet, MapThenFoldSet
<1>6. it[S] = Total(f, S) /\ Total(f, S) \in Nat
  <2> HIDE DEF it, f, S
  <2> QED BY <1>1, <1>2, <1>4, TotalIsLoop, TotalType
<1> QED BY Zenon, <1>5, <1>6 DEF StartOf, f, S

LEMMA EndOfGroup ==
  ASSUME rows \in Seq(Nat), NEW groups, Grouped(rows, groups), NEW w \in Workers
  PROVE  /\ EndIndex(groups, w) \in Nat
         /\ StartOf(rows, groups, w) + FileRows(rows, groups[w]) <= EndIndex(groups, w) + 1
<1> DEFINE k == FileRows(rows, groups[w])
           S == {k - 1, 0}
<1>1. Size(groups[w]) = k /\ k \in Nat
  BY GroupSize
<1>2. StartIndex(groups, w) = StartOf(rows, groups, w) /\ StartOf(rows, groups, w) \in Nat
  BY StartIndexIsStartOf
<1> HIDE DEF k
<1>3. IsFiniteSet(S) /\ S \in SUBSET Int /\ S # {} /\ 0 \in S /\ k - 1 \in S
  <2>1. S = {0} \union {k - 1} /\ IsFiniteSet({0})
    BY Zenon, FS_Singleton
  <2>2. IsFiniteSet({0} \union {k - 1})
    BY Zenon, <2>1, FS_AddElement
  <2>3. S \in SUBSET Int /\ S # {} /\ 0 \in S /\ k - 1 \in S
    BY <1>1
  <2>4. IsFiniteSet(S)
    <3> HIDE DEF S
    <3> QED BY Zenon, <2>1, <2>2
  <2> QED BY <2>3, <2>4
<1>4. Max(S) \in Int /\ Max(S) >= 0 /\ Max(S) >= k - 1
  <2>1. Max(S) \in S /\ \A x \in S : x <= Max(S)
    <3> HIDE DEF S
    <3> QED BY Zenon, <1>3, MaxOfFinite
  <2> QED BY <1>1, <2>1
<1>5. EndIndex(groups, w) = StartOf(rows, groups, w) + Max(S)
  BY Zenon, <1>1, <1>2 DEF EndIndex
<1> HIDE DEF S
<1> QED BY <1>1, <1>2, <1>4, <1>5 DEF k

LEMMA TotalRowCountNumbers ==
  ASSUME rows \in Seq(Nat), NEW groups, Grouped(rows, groups)
  PROVE  Numbered(rows, groups, TotalRowCount(groups))
<1> DEFINE e == [w \in Workers |-> EndIndex(groups, w)]
           A == Assigned(groups)
           S == {e[w] : w \in A} \union {0}
<1>1. A \subseteq Workers /\ IsFiniteSet(A)
  BY Zenon, CacheConstants, FS_Subset DEF Assigned
<1>2. \A w \in Workers : e[w] = EndIndex(groups, w) /\ e[w] \in Nat
  BY Zenon, EndOfGroup
<1>3. S = {EndIndex(groups, w) : w \in A} \union {0}
  BY Zenon, <1>1, <1>2
<1> HIDE DEF e, A
<1>4. IsFiniteSet(S) /\ S \in SUBSET Int /\ S # {} /\ S \subseteq Nat
  <2>1. IsFiniteSet({e[w] : w \in A})
    BY Zenon, <1>1, FiniteRange
  <2>2. IsFiniteSet(S)
    BY Zenon, <2>1, FS_AddElement
  <2> QED BY <1>1, <1>2, <2>2
<1>5. Max(S) \in Nat /\ \A x \in S : x <= Max(S)
  <2> HIDE DEF S
  <2>1. Max(S) \in S /\ \A x \in S : x <= Max(S)
    BY Zenon, <1>4, MaxOfFinite
  <2> QED BY Zenon, <1>4, <2>1
<1>6. TotalRowCount(groups) = Max(S) + 1
  BY Zenon, <1>3 DEF TotalRowCount, A
<1>7. ASSUME NEW w \in Workers, groups[w] # <<>>
      PROVE  StartOf(rows, groups, w) + FileRows(rows, groups[w]) <= Max(S) + 1
  <2>1. w \in A
    BY Zenon, <1>7 DEF A, Assigned
  <2>2. e[w] <= Max(S) /\ e[w] \in Nat
    BY Zenon, <1>2, <1>5, <2>1
  <2>3. StartOf(rows, groups, w) + FileRows(rows, groups[w]) <= e[w] + 1
    BY Zenon, <1>2, EndOfGroup
  <2>4. StartOf(rows, groups, w) \in Nat /\ FileRows(rows, groups[w]) \in Nat
    BY Zenon, StartIndexIsStartOf, GroupSize
  <2> HIDE DEF S
  <2> QED BY <1>5, <2>2, <2>3, <2>4
<1> HIDE DEF S
<1> QED BY <1>5, <1>6, <1>7 DEF Numbered

-----------------------------------------------------------------------------
(***************************************************************************)
(* Batches: bs holds every row of the files F once, in batches of at most  *)
(* BatchRows rows, none of them empty.                                     *)
(***************************************************************************)
Lengths(bs) == [b \in DOMAIN bs |-> Len(bs[b])]
Places(bs) == {x \in (DOMAIN bs) \X (1 .. BatchRows) : x[2] <= Len(bs[x[1]])}
At(bs, x) == bs[x[1]][x[2]]
RowsOfFiles(rws, F) == {y \in F \X Nat : 1 <= y[2] /\ y[2] <= rws[y[1]]}

BatchesOf(rws, bs, F) ==
  /\ bs \in Seq(Seq(Nat \X Nat)) /\ \A b \in DOMAIN bs : Len(bs[b]) \in 1 .. BatchRows
  /\ \A x \in Places(bs) : At(bs, x) \in RowsOfFiles(rws, F)
  /\ \A y \in RowsOfFiles(rws, F) : \E x \in Places(bs) : At(bs, x) = y
  /\ \A x, y \in Places(bs) : At(bs, x) = At(bs, y) => x = y
  /\ Total(Lengths(bs), 1 .. Len(bs)) = Total(rws, F)

LEMMA DivCeilTight ==
  ASSUME NEW a \in Nat, NEW b \in Nat \ {0}, NEW i \in 1 .. DivCeil(a, b)
  PROVE  (i - 1) * b \in Nat /\ (i - 1) * b < a
<1> DEFINE q == a \div b
           r == a % b
<1>1. q \in Nat /\ r \in 0 .. b - 1 /\ a = q * b + r
  BY Division
<1>2. CASE r = 0
  <2>1. i - 1 <= q - 1 /\ q - 1 \in Nat /\ i - 1 \in Nat
    BY <1>1, <1>2 DEF DivCeil
  <2> HIDE DEF q, r
  <2>2. (i - 1) * b <= (q - 1) * b /\ (i - 1) * b \in Nat /\ (q - 1) * b \in Nat
    BY Zenon, <2>1, MultiplicationMonotone
  <2>3. (q - 1) * b = q * b - b /\ q * b \in Nat
    BY <1>1
  <2> QED BY <1>1, <1>2, <2>2, <2>3
<1>3. CASE r # 0
  <2>1. i - 1 <= q /\ i - 1 \in Nat
    BY <1>1, <1>3 DEF DivCeil
  <2> HIDE DEF q, r
  <2>2. (i - 1) * b <= q * b /\ (i - 1) * b \in Nat /\ q * b \in Nat
    BY Zenon, <1>1, <2>1, MultiplicationMonotone
  <2> QED BY <1>1, <1>3, <2>2
<1> QED BY Zenon, <1>2, <1>3

(* The batches of one file.                                                *)
Batches(f) == [i \in 1 .. DivCeil(rows[f], BatchRows) |-> Batch(f, i)]

LEMMA FileBatches ==
  ASSUME rows \in Seq(Nat), NEW f \in Files
  PROVE  BatchesOf(rows, Batches(f), {f})
<1> DEFINE R == rows[f]
           B == BatchRows
           n == DivCeil(R, B)
           M(i) == (i - 1) * B
           L(i) == AtMost(B, R - M(i))
           bs == Batches(f)
<1>1. R \in Nat /\ B \in Nat \ {0} /\ n \in Nat /\ R <= B * n /\ f \in Nat
  <2>1. R \in Nat /\ B \in Nat \ {0} /\ f \in Nat
    BY CacheConstants DEF Files
  <2> HIDE DEF R, B
  <2> QED BY Zenon, <2>1, DivCeilEnough
<1>2. bs = [i \in 1 .. n |-> [j \in 1 .. L(i) |-> <<f, M(i) + j>>]]
  BY Zenon DEF Batches, Batch
<1> HIDE DEF R, B, n, bs
<1>3. ASSUME NEW i \in 1 .. n
      PROVE  /\ M(i) \in Nat /\ M(i) < R /\ M(i + 1) = M(i) + B
             /\ L(i) \in 1 .. B /\ M(i) + L(i) <= R
             /\ M(i) + L(i) = AtMost(M(i + 1), R)
  <2>1. M(i) \in Nat /\ M(i) < R
    BY Zenon, <1>1, DivCeilTight DEF n
  <2>2. M(i + 1) = M(i) + B
    BY <1>1
  <2> HIDE DEF M
  <2> QED BY SMTT(30), <1>1, <2>1, <2>2 DEF AtMost
<1>4. ASSUME NEW i \in 1 .. n
      PROVE  /\ bs[i] \in Seq(Nat \X Nat) /\ Len(bs[i]) = L(i)
             /\ \A j \in 1 .. L(i) : bs[i][j] = <<f, M(i) + j>>
  <2> DEFINE l == L(i)
             m == M(i)
  <2>1. l \in Nat /\ m \in Nat
    BY <1>3
  <2>2. bs[i] = [j \in 1 .. l |-> <<f, m + j>>]
    BY Zenon, <1>2
  <2> HIDE DEF l, m
  <2>3. bs[i] \in [1 .. l -> Nat \X Nat]
    BY <1>1, <2>1, <2>2
  <2>4. bs[i] \in Seq(Nat \X Nat)
    BY SMTT(30), <2>1, <2>3
  <2>6. Len(bs[i]) = l
    BY <2>1, <2>3, <2>4
  <2>5. \A j \in 1 .. l : bs[i][j] = <<f, m + j>>
    BY <2>2
  <2> QED BY Zenon, <2>4, <2>5, <2>6 DEF l, m
<1>5. DOMAIN bs = 1 .. n /\ bs \in Seq(Seq(Nat \X Nat)) /\ Len(bs) = n
  <2>1. DOMAIN bs = 1 .. n
    BY Zenon, <1>2
  <2>2. bs = [i \in 1 .. n |-> bs[i]]
    BY Zenon, <1>2
  <2>3. bs \in [1 .. n -> Seq(Nat \X Nat)]
    BY Zenon, <1>4, <2>2
  <2>4. bs \in Seq(Seq(Nat \X Nat))
    BY <1>1, <2>3
  <2> QED BY <1>1, <2>1, <2>4
<1> HIDE DEF L, M
<1>6. \A x \in Places(bs) :
        /\ x = <<x[1], x[2]>> /\ x[1] \in 1 .. n /\ x[2] \in 1 .. L(x[1])
        /\ At(bs, x) = <<f, M(x[1]) + x[2]>>
  <2> TAKE x \in Places(bs)
  <2>1. x \in (1 .. n) \X (1 .. B) /\ x[2] <= Len(bs[x[1]])
    <3>1. DOMAIN bs = 1 .. n
      BY Zenon, <1>5
    <3>2. x \in (DOMAIN bs) \X (1 .. BatchRows) /\ x[2] <= Len(bs[x[1]])
      BY Zenon DEF Places
    <3> QED BY Zenon, <3>1, <3>2 DEF B
  <2>2. x = <<x[1], x[2]>> /\ x[1] \in 1 .. n /\ x[2] \in 1 .. B
    BY <2>1
  <2>3. x[2] \in 1 .. L(x[1])
    <3>1. Len(bs[x[1]]) = L(x[1]) /\ L(x[1]) \in Int
      BY <1>3, <1>4, <2>2
    <3> QED BY <1>1, <2>1, <2>2, <3>1
  <2>4. bs[x[1]][x[2]] = <<f, M(x[1]) + x[2]>>
    BY Zenon, <1>4, <2>2, <2>3
  <2> QED BY Zenon, <2>2, <2>3, <2>4 DEF At
<1>7. \A x \in Places(bs) : At(bs, x) \in RowsOfFiles(rows, {f})
  <2> TAKE x \in Places(bs)
  <2> DEFINE k == M(x[1]) + x[2]
  <2>1. x[1] \in 1 .. n /\ x[2] \in 1 .. L(x[1]) /\ At(bs, x) = <<f, k>>
    BY Zenon, <1>6
  <2>2. k \in Nat /\ 1 <= k /\ k <= R
    <3>1. M(x[1]) \in Nat /\ L(x[1]) \in 1 .. B /\ M(x[1]) + L(x[1]) <= R
      BY Zenon, <1>3, <2>1
    <3> QED BY SMTT(30), <1>1, <2>1, <3>1
  <2> HIDE DEF k
  <2> QED BY <2>1, <2>2 DEF RowsOfFiles, R
<1>8. ASSUME NEW y \in RowsOfFiles(rows, {f}) PROVE \E x \in Places(bs) : At(bs, x) = y
  <2> DEFINE k == y[2]
             q == (k - 1) \div B
             r == (k - 1) % B
  <2>1. y = <<f, k>> /\ k \in 1 .. R
    BY <1>1 DEF RowsOfFiles, R
  <2>2. q \in Nat /\ r \in 0 .. B - 1 /\ k - 1 = q * B + r
    <3>1. k - 1 \in Nat
      BY <1>1, <2>1
    <3>2. q \in Nat /\ r \in 0 .. B - 1 /\ k - 1 = B * q + r
      <4> HIDE DEF k
      <4> QED BY Zenon, <1>1, <3>1, Division
    <3>3. B * q = q * B
      BY <1>1, <3>2
    <3> QED BY Zenon, <3>2, <3>3
  <2> HIDE DEF k, q, r
  <2>3. q < n
    <3>1. SUFFICES ASSUME n <= q PROVE FALSE
      BY <1>1, <2>2
    <3>2. n * B <= q * B /\ n * B \in Nat /\ q * B \in Nat
      BY Zenon, <1>1, <2>2, <3>1, MultiplicationMonotone
    <3>3. B * n = n * B
      BY <1>1
    <3> QED BY <1>1, <2>1, <2>2, <3>2, <3>3
  <2>4. q + 1 \in 1 .. n /\ r + 1 \in 1 .. B /\ M(q + 1) = q * B
    <3>1. (q + 1) - 1 = q
      BY <2>2
    <3> QED BY <1>1, <2>2, <2>3, <3>1 DEF M
  <2>5. r + 1 <= L(q + 1)
    <3>1. q * B \in Nat /\ q * B < R /\ L(q + 1) = AtMost(B, R - q * B)
      BY Zenon, <1>3, <2>4 DEF L
    <3> QED BY <1>1, <2>1, <2>2, <2>4, <3>1 DEF AtMost
  <2>6. <<q + 1, r + 1>> \in Places(bs)
    <3>1. r + 1 <= Len(bs[q + 1])
      BY Zenon, <1>4, <2>4, <2>5
    <3>2. <<q + 1, r + 1>> \in (DOMAIN bs) \X (1 .. BatchRows)
      <4>1. DOMAIN bs = 1 .. n
        BY Zenon, <1>5
      <4>2. q + 1 \in DOMAIN bs /\ r + 1 \in 1 .. BatchRows
        BY Zenon, <2>4, <4>1 DEF B
      <4> QED BY Zenon, <4>2
    <3> QED BY Zenon, <3>1, <3>2 DEF Places
  <2>7. At(bs, <<q + 1, r + 1>>) = <<f, q * B + (r + 1)>>
    BY Zenon, <1>6, <2>4, <2>6
  <2>8. q * B + (r + 1) = k
    BY <1>1, <2>1, <2>2
  <2> QED BY Zenon, <2>1, <2>6, <2>7, <2>8
<1>9. ASSUME NEW x \in Places(bs), NEW y \in Places(bs), At(bs, x) = At(bs, y) PROVE x = y
  <2>0. \A z \in Places(bs) : z = <<z[1], z[2]>> /\ z[1] - 1 \in Nat /\ z[2] \in 1 .. B
    <3> TAKE z \in Places(bs)
    <3>1. z = <<z[1], z[2]>> /\ z[1] \in 1 .. n /\ z[2] \in 1 .. L(z[1])
      BY Zenon, <1>6
    <3>2. L(z[1]) \in 1 .. B
      BY Zenon, <1>3, <3>1
    <3> QED BY SMTT(30), <1>1, <3>1, <3>2
  <2>1. /\ x = <<x[1], x[2]>> /\ x[1] - 1 \in Nat /\ x[2] \in 1 .. B
        /\ y = <<y[1], y[2]>> /\ y[1] - 1 \in Nat /\ y[2] \in 1 .. B
    BY Zenon, <2>0
  <2>2. (x[1] - 1) * B + x[2] = (y[1] - 1) * B + y[2]
    BY <1>6, <1>9 DEF M
  <2>3. x[1] - 1 = y[1] - 1 /\ x[2] = y[2]
    BY SMTT(30), <1>1, <2>1, <2>2, OnePlace
  <2>4. x[1] = y[1]
    <3>1. x[1] \in Int /\ y[1] \in Int
      BY <1>6
    <3> QED BY <2>3, <3>1
  <2> QED BY Zenon, <2>1, <2>3, <2>4
<1>10. Total(Lengths(bs), 1 .. n) = R
  <2> DEFINE W == {i \in 0 .. n : Total(Lengths(bs), 1 .. i) = AtMost(M(i + 1), R)}
  <2>1. \A i \in 1 .. n : Lengths(bs)[i] = L(i) /\ L(i) \in Nat
    BY <1>3, <1>4, <1>5 DEF Lengths
  <2>2. 0 \in W
    <3>1. 1 .. 0 = {} /\ M(0 + 1) = 0
      BY <1>1 DEF M
    <3> QED BY <1>1, <3>1, TotalEmpty DEF AtMost
  <2>3. ASSUME NEW i \in 1 .. n, i - 1 \in W PROVE i \in W
    <3>1. Total(Lengths(bs), 1 .. i) = L(i) + Total(Lengths(bs), 1 .. i - 1)
      <4>1. \A k \in 1 .. i : Lengths(bs)[k] \in Nat
        BY <1>1, <2>1
      <4>2. Lengths(bs)[i] = L(i)
        BY Zenon, <2>1
      <4> QED BY <4>1, <4>2, TotalLast
    <3>2. Total(Lengths(bs), 1 .. i - 1) = M(i)
      <4>1. Total(Lengths(bs), 1 .. i - 1) = AtMost(M((i - 1) + 1), R) /\ (i - 1) + 1 = i
        BY <2>3
      <4>2. M(i) < R /\ M(i) \in Nat
        BY Zenon, <1>3
      <4> QED BY <1>1, <4>1, <4>2 DEF AtMost
    <3>3. L(i) + M(i) = AtMost(M(i + 1), R)
      <4>1. M(i) + L(i) = AtMost(M(i + 1), R) /\ M(i) \in Nat /\ L(i) \in Nat
        BY <1>1, <1>3
      <4> QED BY <4>1
    <3> QED BY <1>1, <3>1, <3>2, <3>3
  <2>4. n \in W
    <3> HIDE DEF W
    <3>1. 0 .. n \subseteq W
      BY Zenon, <1>1, <2>2, <2>3, IntervalInduction
    <3> QED BY <1>1, <3>1
  <2>5. M(n + 1) = B * n /\ M(n + 1) \in Nat
    <3>1. (n + 1) - 1 = n
      BY <1>1
    <3> QED BY <1>1, <3>1 DEF M
  <2> QED BY <1>1, <2>4, <2>5 DEF AtMost
<1>11. Total(rows, {f}) = R
  BY Zenon, <1>1, TotalOne DEF R
<1>12. \A b \in DOMAIN bs : Len(bs[b]) \in 1 .. BatchRows
  BY <1>3, <1>4, <1>5 DEF B
<1> QED BY Zenon, <1>5, <1>7, <1>8, <1>9, <1>10, <1>11, <1>12 DEF BatchesOf, bs

(* The batches of some files: their names, and their rows.                 *)
LEMMA BatchNames ==
  ASSUME rows \in Seq(Nat), NEW F \in SUBSET Files
  PROVE  /\ \A f \in F : /\ Len(Batches(f)) \in Nat
                          /\ DOMAIN Batches(f) = 1 .. Len(Batches(f))
                          /\ \A i \in 1 .. Len(Batches(f)) : Batches(f)[i] = Batch(f, i)
         /\ BatchIds(F) = UNION {{f} \X (1 .. Len(Batches(f))) : f \in F}
<1>1. ASSUME NEW f \in F
      PROVE  /\ Len(Batches(f)) \in Nat
             /\ DOMAIN Batches(f) = 1 .. Len(Batches(f))
             /\ 1 .. Len(Batches(f)) = 1 .. DivCeil(rows[f], BatchRows)
             /\ \A i \in 1 .. Len(Batches(f)) : Batches(f)[i] = Batch(f, i)
  <2> DEFINE bs == Batches(f)
             D == 1 .. DivCeil(rows[f], BatchRows)
  <2>1. bs \in Seq(Seq(Nat \X Nat))
    BY Zenon, FileBatches DEF BatchesOf
  <2>2. DOMAIN bs = D /\ \A i \in D : bs[i] = Batch(f, i)
    BY Zenon DEF Batches
  <2> HIDE DEF bs, D
  <2>3. Len(bs) \in Nat /\ DOMAIN bs = 1 .. Len(bs)
    BY <2>1
  <2> QED BY Zenon, <2>2, <2>3 DEF bs, D
<1>2. BatchIds(F) = UNION {{f} \X (1 .. Len(Batches(f))) : f \in F}
  BY Zenon, <1>1 DEF BatchIds
<1> QED BY Zenon, <1>1, <1>2

LEMMA BatchTotals ==
  ASSUME rows \in Seq(Nat), NEW F \in SUBSET Files, NEW h,
         \A f \in F : \A i \in 1 .. Len(Batches(f)) : h[<<f, i>>] = Len(Batch(f, i))
  PROVE  /\ IsFiniteSet(BatchIds(F)) /\ \A b \in BatchIds(F) : h[b] \in Nat
         /\ Total(h, BatchIds(F)) = Total(rows, F)
<1> DEFINE n == Cardinality(F)
           Ok(G) == /\ IsFiniteSet(BatchIds(G)) /\ \A b \in BatchIds(G) : h[b] \in Nat
                    /\ Total(h, BatchIds(G)) = Total(rows, G)
           W == {k \in 0 .. n : \A G \in SUBSET F : Cardinality(G) <= k => Ok(G)}
<1>1. IsFiniteSet(F)
  <2>1. IsFiniteSet(Files)
    BY FS_Interval DEF Files
  <2> QED BY Zenon, <2>1, FS_Subset
<1>2. /\ n \in Nat
      /\ \A G \in SUBSET F : IsFiniteSet(G) /\ Cardinality(G) \in 0 .. n
      /\ \A G \in SUBSET F : Cardinality(G) <= 0 => G = {}
      /\ \A G \in SUBSET F : \A f \in G :
           G \ {f} \in SUBSET F /\ Cardinality(G \ {f}) = Cardinality(G) - 1
  BY Zenon, <1>1, Cardinalities
<1>3. Ok({})
  <2>1. BatchIds({}) = {}
    BY Zenon DEF BatchIds
  <2> QED BY Zenon, <2>1, TotalEmpty, FS_EmptySet
<1>4. ASSUME NEW G \in SUBSET F, NEW f \in G, Ok(G \ {f}) PROVE Ok(G)
  <2> DEFINE bs == Batches(f)
             m == Len(bs)
             s == [i \in 1 .. m |-> <<f, i>>]
             A == BatchIds(G \ {f})
  <2>1. /\ m \in Nat /\ DOMAIN bs = 1 .. m /\ \A i \in 1 .. m : bs[i] = Batch(f, i)
        /\ BatchIds(G) = UNION {{g} \X (1 .. Len(Batches(g))) : g \in G}
        /\ A = UNION {{g} \X (1 .. Len(Batches(g))) : g \in G \ {f}}
    BY Zenon, BatchNames
  <2>2. BatchIds(G) = A \union {s[i] : i \in 1 .. m} /\ \A i \in 1 .. m : s[i] \notin A
    <3>1. \A i \in 1 .. m : s[i] = <<f, i>>
      BY Zenon
    <3>2. {s[i] : i \in 1 .. m} = {f} \X (1 .. m)
      BY <3>1
    <3>3. \A i \in 1 .. m : s[i] \notin A
      <4> SUFFICES ASSUME NEW i \in 1 .. m, s[i] \in A PROVE FALSE
        BY Zenon
      <4>1. PICK g \in G \ {f} : s[i] \in {g} \X (1 .. Len(Batches(g)))
        BY Zenon, <2>1
      <4>2. <<f, i>> \in {g} \X (1 .. Len(Batches(g)))
        BY Zenon, <3>1, <4>1
      <4>3. f = g
        BY <4>2
      <4> QED BY Zenon, <4>3
    <3>4. BatchIds(G) = A \union ({f} \X (1 .. m))
      <4>1. ASSUME NEW b \in BatchIds(G) PROVE b \in A \/ b \in {f} \X (1 .. m)
        <5>1. PICK g \in G : b \in {g} \X (1 .. Len(Batches(g)))
          BY Zenon, <2>1
        <5>2. CASE g = f
          BY Zenon, <5>1, <5>2
        <5>3. CASE g # f
          <6>1. g \in G \ {f}
            BY Zenon, <5>3
          <6> QED BY Zenon, <2>1, <5>1, <6>1
        <5> QED BY Zenon, <5>2, <5>3
      <4>2. A \subseteq BatchIds(G)
        BY Zenon, <2>1
      <4>3. {f} \X (1 .. m) \subseteq BatchIds(G)
        BY Zenon, <2>1
      <4> HIDE DEF A, m
      <4> QED BY Zenon, <4>1, <4>2, <4>3
    <3> QED BY Zenon, <3>2, <3>3, <3>4
  <2>3. /\ BatchesOf(rows, bs, {f}) /\ rows[f] \in Nat
        /\ \A g \in G : rows[g] \in Nat
    <3>1. \A g \in G : rows[g] \in Nat
      BY DEF Files
    <3> QED BY Zenon, <3>1, FileBatches
  <2>4. Total(Lengths(bs), 1 .. m) = rows[f] /\ \A i \in 1 .. m : Len(bs[i]) \in Nat
    <3>1. Total(Lengths(bs), 1 .. m) = Total(rows, {f}) /\ \A i \in 1 .. m : Len(bs[i]) \in 1 .. BatchRows
      BY Zenon, <2>1, <2>3 DEF BatchesOf
    <3>2. \A k \in 1 .. BatchRows : k \in Nat
      BY CacheConstants
    <3> QED BY Zenon, <2>3, <3>1, <3>2, TotalOne
  <2>5. Through(Lengths(bs), h, s, m) /\ Distinct(s, m)
    <3>1. \A i \in 1 .. m : s[i] = <<f, i>>
      BY Zenon
    <3>2. \A i \in 1 .. m : Lengths(bs)[i] = Len(bs[i])
      BY Zenon, <2>1 DEF Lengths
    <3>3. \A i \in 1 .. m : h[s[i]] = Len(bs[i])
      BY Zenon, <2>1, <3>1
    <3>4. \A i, j \in 1 .. m : s[i] = s[j] => i = j
      BY <3>1
    <3> HIDE DEF s, m
    <3> QED BY Zenon, <2>4, <3>2, <3>3, <3>4 DEF Through, Distinct
  <2>6. /\ IsFiniteSet(A) /\ \A b \in A : h[b] \in Nat
        /\ Total(h, A) = Total(rows, G \ {f})
    BY Zenon, <1>4
  <2>7. /\ IsFiniteSet(BatchIds(G))
        /\ Total(h, BatchIds(G)) = Total(h, A) + Total(Lengths(bs), 1 .. m)
    <3> DEFINE p == Lengths(bs)
    <3>1. m \in Nat /\ Through(p, h, s, m) /\ Distinct(s, m)
      BY Zenon, <2>1, <2>5
    <3>3. IsFiniteSet(A) /\ Outside(A, h, s, m)
      BY Zenon, <2>2, <2>6 DEF Outside
    <3>4. BatchIds(G) = A \union {s[i] : i \in 1 .. m}
      BY Zenon, <2>2
    <3> HIDE DEF A, s, m, p, bs
    <3>5. /\ IsFiniteSet(A \union {s[i] : i \in 1 .. m})
          /\ Total(h, A \union {s[i] : i \in 1 .. m}) = Total(h, A) + Total(p, 1 .. m)
      BY <3>1, <3>3, TotalAdded
    <3> QED BY Zenon, <3>4, <3>5 DEF p
  <2>8. \A b \in BatchIds(G) : h[b] \in Nat
    BY Zenon, <2>2, <2>5, <2>6 DEF Through
  <2>9. /\ Total(rows, G) = rows[f] + Total(rows, G \ {f})
        /\ Total(rows, G \ {f}) \in Nat
    BY Zenon, <1>2, <2>3, TotalStep
  <2> HIDE DEF A, m, bs
  <2>10. Total(h, BatchIds(G)) = Total(rows, G)
    BY <2>3, <2>4, <2>6, <2>7, <2>9
  <2> QED BY Zenon, <2>7, <2>8, <2>10
<1> HIDE DEF Ok, n
<1>5. 0 \in W
  <2>1. \A G \in SUBSET F : Cardinality(G) <= 0 => Ok(G)
    BY Zenon, <1>2, <1>3
  <2>2. 0 \in 0 .. n
    BY <1>2
  <2> QED BY Zenon, <2>1, <2>2
<1>6. ASSUME NEW k \in 1 .. n, k - 1 \in W PROVE k \in W
  <2> SUFFICES ASSUME NEW G \in SUBSET F, Cardinality(G) <= k PROVE Ok(G)
    BY <1>2
  <2>1. CASE G = {}
    BY Zenon, <1>3, <2>1
  <2>2. CASE G # {}
    <3>1. PICK f \in G : TRUE
      BY Zenon, <2>2
    <3>2. G \ {f} \in SUBSET F /\ Cardinality(G \ {f}) <= k - 1
      BY <1>2, <3>1
    <3>3. Ok(G \ {f})
      BY Zenon, <1>6, <3>2
    <3> QED BY Zenon, <1>4, <3>3
  <2> QED BY Zenon, <2>1, <2>2
<1>7. n \in W
  <2> HIDE DEF W
  <2>1. 0 .. n \subseteq W
    BY Zenon, <1>2, <1>5, <1>6, IntervalInduction
  <2> QED BY <1>2, <2>1
<1>8. Ok(F)
  <2>1. Cardinality(F) <= n
    BY <1>2 DEF n
  <2> QED BY Zenon, <1>7, <2>1
<1> QED BY Zenon, <1>8 DEF Ok

(* What a worker loads: the batches of its files, in whatever order.       *)
LEMMA AllBatches ==
  ASSUME rows \in Seq(Nat), NEW F \in SUBSET Files, NEW order \in SetToSeqs(BatchIds(F))
  PROVE  BatchesOf(rows, [i \in DOMAIN order |-> Batch(order[i][1], order[i][2])], F)
<1> DEFINE n == Len(order)
           I == BatchIds(F)
           bs == [i \in DOMAIN order |-> Batch(order[i][1], order[i][2])]
           h == [b \in I |-> Len(Batch(b[1], b[2]))]
           B(f) == Batches(f)
<1>1. \A f \in F : /\ Len(B(f)) \in Nat /\ DOMAIN B(f) = 1 .. Len(B(f))
                   /\ \A i \in 1 .. Len(B(f)) : B(f)[i] = Batch(f, i)
                   /\ BatchesOf(rows, B(f), {f})
  BY Zenon, BatchNames, FileBatches
<1>2. I = UNION {{f} \X (1 .. Len(B(f))) : f \in F}
  BY Zenon, BatchNames
<1>3. \A f \in F : \A i \in 1 .. Len(B(f)) : <<f, i>> \in I /\ h[<<f, i>>] = Len(Batch(f, i))
  <2> TAKE f \in F
  <2> TAKE i \in 1 .. Len(B(f))
  <2>1. <<f, i>> \in I
    <3>1. <<f, i>> \in {f} \X (1 .. Len(B(f)))
      OBVIOUS
    <3> HIDE DEF I
    <3> QED BY Zenon, <1>2, <3>1
  <2> HIDE DEF I
  <2> QED BY <2>1
<1>4. IsFiniteSet(I) /\ (\A b \in I : h[b] \in Nat) /\ Total(h, I) = Total(rows, F)
  <2> HIDE DEF h
  <2> QED BY Zenon, <1>3, BatchTotals
<1>5. /\ n \in Nat /\ DOMAIN order = 1 .. n /\ I = {order[i] : i \in 1 .. n}
      /\ \A i, j \in 1 .. n : order[i] = order[j] => i = j
  <2>1. IsFiniteSet(BatchIds(F))
    BY Zenon, <1>4
  <2> QED BY <2>1, SeqsOfSet
<1> HIDE DEF I, n
<1>6. \A k \in 1 .. n : order[k] \in I
  BY Zenon, <1>5
<1>7. ASSUME NEW k \in 1 .. n
      PROVE  /\ order[k] = <<order[k][1], order[k][2]>> /\ order[k][1] \in F
             /\ order[k][2] \in 1 .. Len(B(order[k][1]))
             /\ bs[k] = B(order[k][1])[order[k][2]]
  <2>1. /\ order[k] = <<order[k][1], order[k][2]>> /\ order[k][1] \in F
        /\ order[k][2] \in 1 .. Len(B(order[k][1]))
    <3>1. PICK f \in F : order[k] \in {f} \X (1 .. Len(B(f)))
      BY Zenon, <1>2, <1>6
    <3> HIDE DEF B
    <3> QED BY <3>1
  <2>2. bs[k] = Batch(order[k][1], order[k][2])
    BY Zenon, <1>5
  <2> QED BY Zenon, <1>1, <2>1, <2>2
<1>8. ASSUME NEW k \in 1 .. n
      PROVE  bs[k] \in Seq(Nat \X Nat) /\ Len(bs[k]) \in 1 .. BatchRows
  <2> DEFINE f == order[k][1]
  <2>1. f \in F /\ order[k][2] \in DOMAIN B(f) /\ bs[k] = B(f)[order[k][2]]
    BY Zenon, <1>1, <1>7
  <2>2. B(f) \in Seq(Seq(Nat \X Nat)) /\ \A b \in DOMAIN B(f) : Len(B(f)[b]) \in 1 .. BatchRows
    BY Zenon, <1>1, <2>1 DEF BatchesOf
  <2> HIDE DEF B, f, bs
  <2> QED BY <2>1, <2>2
<1>9. DOMAIN bs = 1 .. n /\ bs \in Seq(Seq(Nat \X Nat)) /\ Len(bs) = n
  <2>1. DOMAIN bs = 1 .. n /\ bs = [i \in 1 .. n |-> bs[i]]
    BY Zenon, <1>5
  <2> HIDE DEF bs
  <2>2. bs \in [1 .. n -> Seq(Nat \X Nat)]
    BY Zenon, <1>8, <2>1
  <2>3. bs \in Seq(Seq(Nat \X Nat))
    BY <1>5, <2>2
  <2> QED BY <1>5, <2>1, <2>3
<1>10. ASSUME NEW x \in Places(bs)
       PROVE  LET b == order[x[1]]
              IN /\ x = <<x[1], x[2]>> /\ x[1] \in 1 .. n /\ b = <<b[1], b[2]>> /\ b[1] \in F
                 /\ <<b[2], x[2]>> \in Places(B(b[1]))
                 /\ At(bs, x) = At(B(b[1]), <<b[2], x[2]>>)
                 /\ At(bs, x)[1] = b[1] /\ At(bs, x) \in RowsOfFiles(rows, F)
  <2> DEFINE b == order[x[1]]
             f == b[1]
             y == <<b[2], x[2]>>
  <2>1. x \in (1 .. n) \X (1 .. BatchRows) /\ x[2] <= Len(bs[x[1]])
    BY Zenon, <1>9 DEF Places
  <2>2. x = <<x[1], x[2]>> /\ x[1] \in 1 .. n /\ x[2] \in 1 .. BatchRows
    <3> HIDE DEF bs
    <3> QED BY <2>1
  <2>3. b = <<b[1], b[2]>> /\ f \in F /\ b[2] \in DOMAIN B(f) /\ bs[x[1]] = B(f)[b[2]]
    BY Zenon, <1>1, <1>7, <2>2
  <2>4. y[1] = b[2] /\ y[2] = x[2] /\ y \in (DOMAIN B(f)) \X (1 .. BatchRows)
    BY Zenon, <2>2, <2>3
  <2>5. y \in Places(B(f)) /\ At(bs, x) = At(B(f), y)
    <3> HIDE DEF B, y, f, b, bs
    <3> QED BY Zenon, <2>1, <2>3, <2>4 DEF Places, At
  <2>6. At(B(f), y) \in RowsOfFiles(rows, {f})
    BY Zenon, <1>1, <2>3, <2>5 DEF BatchesOf
  <2>7. At(bs, x)[1] = f /\ At(bs, x) \in RowsOfFiles(rows, F)
    <3> DEFINE z == At(bs, x)
    <3>1. z \in RowsOfFiles(rows, {f})
      BY Zenon, <2>5, <2>6
    <3> HIDE DEF z, f
    <3>2. z \in {f} \X Nat /\ 1 <= z[2] /\ z[2] <= rows[z[1]]
      BY Zenon, <3>1 DEF RowsOfFiles
    <3>3. z[1] = f /\ z \in F \X Nat
      BY <2>3, <3>2
    <3> QED BY Zenon, <3>2, <3>3 DEF RowsOfFiles, z
  <2> QED BY Zenon, <2>2, <2>3, <2>5, <2>7
<1>11. ASSUME NEW y \in RowsOfFiles(rows, F) PROVE \E x \in Places(bs) : At(bs, x) = y
  <2> DEFINE f == y[1]
  <2>1. f \in F /\ y \in RowsOfFiles(rows, {f})
    BY Zenon, <1>11 DEF RowsOfFiles
  <2>2. PICK x \in Places(B(f)) : At(B(f), x) = y
    BY Zenon, <1>1, <2>1 DEF BatchesOf
  <2>3. /\ x[1] \in 1 .. Len(B(f)) /\ x[2] \in 1 .. BatchRows
        /\ x[2] <= Len(B(f)[x[1]])
    BY Zenon, <1>1, <2>1, <2>2 DEF Places
  <2>4. PICK k \in 1 .. n : order[k] = <<f, x[1]>>
    BY Zenon, <1>3, <1>5, <2>1, <2>3
  <2>5. bs[k] = B(f)[x[1]]
    <3>1. order[k][1] = f /\ order[k][2] = x[1]
      BY <2>4
    <3> QED BY Zenon, <1>7, <3>1
  <2>6. <<k, x[2]>> \in Places(bs) /\ At(bs, <<k, x[2]>>) = B(f)[x[1]][x[2]]
    <3> HIDE DEF bs, B, f
    <3> QED BY Zenon, <1>9, <2>3, <2>5 DEF Places, At
  <2> QED BY Zenon, <2>2, <2>6 DEF At
<1>12. ASSUME NEW x \in Places(bs), NEW y \in Places(bs), At(bs, x) = At(bs, y) PROVE x = y
  <2> DEFINE a == order[x[1]]
             b == order[y[1]]
  <2>1. /\ x = <<x[1], x[2]>> /\ x[1] \in 1 .. n /\ a = <<a[1], a[2]>> /\ a[1] \in F
        /\ <<a[2], x[2]>> \in Places(B(a[1])) /\ At(bs, x) = At(B(a[1]), <<a[2], x[2]>>)
        /\ At(bs, x)[1] = a[1]
    BY Zenon, <1>10
  <2>2. /\ y = <<y[1], y[2]>> /\ y[1] \in 1 .. n /\ b = <<b[1], b[2]>> /\ b[1] \in F
        /\ <<b[2], y[2]>> \in Places(B(b[1])) /\ At(bs, y) = At(B(b[1]), <<b[2], y[2]>>)
        /\ At(bs, y)[1] = b[1]
    BY Zenon, <1>10
  <2>3. a[1] = b[1]
    BY Zenon, <1>12, <2>1, <2>2
  <2>4. <<a[2], x[2]>> = <<b[2], y[2]>>
    <3>1. \A u, v \in Places(B(a[1])) : At(B(a[1]), u) = At(B(a[1]), v) => u = v
      BY Zenon, <1>1, <2>1 DEF BatchesOf
    <3>2. At(B(a[1]), <<a[2], x[2]>>) = At(B(a[1]), <<b[2], y[2]>>)
      BY Zenon, <1>12, <2>1, <2>2, <2>3
    <3>3. <<b[2], y[2]>> \in Places(B(a[1]))
      BY Zenon, <2>2, <2>3
    <3> HIDE DEF B, a, b
    <3> QED BY Zenon, <2>1, <3>1, <3>2, <3>3
  <2>5. a[2] = b[2] /\ x[2] = y[2]
    BY <2>4
  <2>6. a = b
    BY Zenon, <2>1, <2>2, <2>3, <2>5
  <2>7. x[1] = y[1]
    BY Zenon, <1>5, <2>1, <2>2, <2>6
  <2> QED BY Zenon, <2>1, <2>2, <2>5, <2>7
<1>13. Total(Lengths(bs), 1 .. n) = Total(h, I)
  <2>1. \A k \in 1 .. n : Lengths(bs)[k] = Len(bs[k])
    BY Zenon, <1>9 DEF Lengths
  <2>2. \A k \in 1 .. n : h[order[k]] = Len(bs[k])
    <3> TAKE k \in 1 .. n
    <3>1. order[k] \in I
      BY Zenon, <1>6
    <3>2. h[order[k]] = Len(Batch(order[k][1], order[k][2]))
      BY Zenon, <3>1
    <3>3. bs[k] = Batch(order[k][1], order[k][2])
      BY Zenon, <1>5
    <3> QED BY Zenon, <3>2, <3>3
  <2> HIDE DEF h, bs
  <2>3. Through(Lengths(bs), h, order, n) /\ Distinct(order, n)
    BY Zenon, <1>4, <1>5, <1>6, <2>1, <2>2 DEF Through, Distinct
  <2> QED BY Zenon, <1>5, <2>3, TotalOfDistinct
<1> HIDE DEF bs, h
<1>14. \A b \in DOMAIN bs : Len(bs[b]) \in 1 .. BatchRows
  BY Zenon, <1>8, <1>9
<1>15. Total(Lengths(bs), 1 .. Len(bs)) = Total(rows, F)
  BY Zenon, <1>4, <1>9, <1>13
<1>16. BatchesOf(rows, bs, F)
  BY Zenon, <1>9, <1>10, <1>11, <1>12, <1>14, <1>15 DEF BatchesOf
<1> QED BY Zenon, <1>16 DEF bs

-----------------------------------------------------------------------------
(***************************************************************************)
(* The row numbers of a loaded table, and what do_get selects.             *)
(***************************************************************************)
Holds(rws, t, F) == t.start \in Nat /\ BatchesOf(rws, t.batches, F)
Before(t, b) == Total(Lengths(t.batches), 1 .. b - 1)

LEMMA BatchLengths ==
  ASSUME NEW rws, NEW t, NEW F, Holds(rws, t, F)
  PROVE  /\ Len(t.batches) \in Nat /\ DOMAIN t.batches = 1 .. Len(t.batches) /\ t.start \in Nat
         /\ \A b \in 1 .. Len(t.batches) :
              /\ Lengths(t.batches)[b] = Len(t.batches[b])
              /\ Len(t.batches[b]) \in 1 .. BatchRows /\ Len(t.batches[b]) \in Nat
<1> DEFINE bs == t.batches
<1>1. bs \in Seq(Seq(Nat \X Nat)) /\ \A b \in DOMAIN bs : Len(bs[b]) \in 1 .. BatchRows
  BY DEF Holds, BatchesOf
<1> HIDE DEF bs
<1>2. Len(bs) \in Nat /\ DOMAIN bs = 1 .. Len(bs)
  BY <1>1
<1>3. \A b \in 1 .. Len(bs) : Lengths(bs)[b] = Len(bs[b]) /\ Len(bs[b]) \in 1 .. BatchRows
  BY Zenon, <1>1, <1>2 DEF Lengths
<1>4. \A b \in 1 .. Len(bs) : Len(bs[b]) \in Nat
  BY <1>3, CacheConstants
<1>5. t.start \in Nat
  BY Zenon DEF Holds
<1> QED BY Zenon, <1>2, <1>3, <1>4, <1>5 DEF bs

LEMMA BatchStartIsBefore ==
  ASSUME NEW rws, NEW t, NEW F, Holds(rws, t, F), NEW b \in 1 .. Len(t.batches)
  PROVE  BatchStart(t, b) = t.start + Before(t, b) /\ Before(t, b) \in Nat
<1> DEFINE S == 1 .. b - 1
           f == Lengths(t.batches)
           Loop(iter) ==
             iter = [T \in SUBSET S |->
                       IF T = {} THEN 0
                       ELSE Len(t.batches[CHOOSE x \in T : TRUE]) + iter[T \ {CHOOSE x \in T : TRUE}]]
           it == CHOOSE iter : Loop(iter)
<1>1. IsFiniteSet(S) /\ S \subseteq 1 .. Len(t.batches)
  <2>1. IsFiniteSet(S)
    BY BatchLengths, FS_Interval
  <2> QED BY <2>1, BatchLengths
<1>2. \A x \in S : f[x] \in Nat /\ f[x] = Len(t.batches[x])
  BY Zenon, <1>1, BatchLengths
<1> HIDE DEF S, f
<1>3. \A iter : SumLoop(iter, S, f) <=> Loop(iter)
  <2> SUFFICES ASSUME NEW iter
               PROVE  \A T \in SUBSET S : 
                        (IF T = {} THEN 0
                         ELSE f[CHOOSE x \in T : TRUE] + iter[T \ {CHOOSE x \in T : TRUE}]) =
                        (IF T = {} THEN 0
                         ELSE Len(t.batches[CHOOSE x \in T : TRUE]) + iter[T \ {CHOOSE x \in T : TRUE}])
    BY ZenonT(30), ZenonT(60) DEF SumLoop
  <2> TAKE T \in SUBSET S
  <2>1. CASE T # {}
    <3>1. (CHOOSE x \in T : TRUE) \in S
      BY <2>1
    <3>2. f[CHOOSE x \in T : TRUE] = Len(t.batches[CHOOSE x \in T : TRUE])
      BY <1>2, <3>1
    <3> QED BY <3>2
  <2> QED BY Zenon, <2>1
<1>4. SumLoop(it, S, f)
  <2> HIDE DEF Loop
  <2>1. \E iter : Loop(iter)
    BY Zenon, <1>1, <1>2, <1>3, SumLoopExists
  <2> QED BY <1>3, <2>1
<1>5. BatchStart(t, b) = t.start + it[S]
  BY DEF S, BatchStart, MapThenSumSet, MapThenFoldSet
<1>6. it[S] = Total(f, S) /\ Total(f, S) \in Nat
  <2> HIDE DEF it
  <2> QED BY Zenon, <1>1, <1>2, <1>4, TotalIsLoop, TotalType
<1> QED BY Zenon, <1>5, <1>6 DEF Before, f, S

(* Batches are numbered through.                                           *)
LEMMA BatchesInOrder ==
  ASSUME NEW rws, NEW t, NEW F, Holds(rws, t, F),
         NEW b \in 1 .. Len(t.batches), NEW c \in 1 .. Len(t.batches), b < c
  PROVE  Before(t, b) + Len(t.batches[b]) <= Before(t, c)
<1> DEFINE f == Lengths(t.batches)
           n == Len(t.batches)
<1>1. n \in Nat /\ \A i \in 1 .. n : f[i] \in Nat /\ f[i] = Len(t.batches[i])
  BY Zenon, BatchLengths
<1> HIDE DEF f, n
<1>2. Total(f, 1 .. b) = f[b] + Total(f, 1 .. b - 1) /\ Total(f, 1 .. b - 1) \in Nat
  <2>1. \A i \in 1 .. b : f[i] \in Nat
    BY <1>1 DEF n
  <2>2. b \in Int /\ 1 <= b
    OBVIOUS
  <2> QED BY <2>1, <2>2, TotalLast
<1>3. Total(f, 1 .. b) <= Total(f, 1 .. c - 1)
  <2>1. b \in 0 .. n /\ c - 1 \in b .. n /\ \A i \in 1 .. n : f[i] \in Nat
    BY <1>1 DEF n
  <2> QED BY Zenon, <1>1, <2>1, TotalGrows
<1>4. f[b] = Len(t.batches[b]) /\ f[b] \in Nat
  BY Zenon, <1>1 DEF n
<1> QED BY <1>2, <1>3, <1>4 DEF Before, f

(* The rows of a table have the numbers from its start on.                 *)
LEMMA IndexInTable ==
  ASSUME NEW rws, NEW t, NEW F, Holds(rws, t, F), NEW x \in Places(t.batches)
  PROVE  /\ CacheIndex(t, x[1], x[2]) \in Nat
         /\ t.start <= CacheIndex(t, x[1], x[2])
         /\ CacheIndex(t, x[1], x[2]) < t.start + Total(rws, F)
<1> DEFINE b == x[1]
           j == x[2]
           f == Lengths(t.batches)
           n == Len(t.batches)
<1>1. b \in 1 .. n /\ j \in 1 .. BatchRows /\ j <= Len(t.batches[b])
  BY Zenon, BatchLengths DEF Places
<1>2. n \in Nat /\ t.start \in Nat /\ \A i \in 1 .. n : f[i] \in Nat /\ f[i] = Len(t.batches[i])
  BY Zenon, BatchLengths
<1>3. CacheIndex(t, b, j) = t.start + Before(t, b) + j - 1 /\ Before(t, b) \in Nat
  BY Zenon, <1>1, BatchStartIsBefore DEF CacheIndex
<1>4. Total(f, 1 .. n) = Total(rws, F)
  BY Zenon DEF Holds, BatchesOf
<1> HIDE DEF b, j, f, n
<1>5. Total(f, 1 .. b) = f[b] + Total(f, 1 .. b - 1)
  <2>1. \A i \in 1 .. b : f[i] \in Nat
    BY <1>1, <1>2
  <2>2. b \in Int /\ 1 <= b
    BY <1>1
  <2> QED BY <2>1, <2>2, TotalLast
<1>6. Total(f, 1 .. b) <= Total(f, 1 .. n)
  <2>1. b \in 0 .. n /\ n \in b .. n /\ \A i \in 1 .. n : f[i] \in Nat
    BY <1>1, <1>2
  <2> QED BY Zenon, <1>2, <2>1, TotalGrows
<1>7. Before(t, b) + j <= Total(f, 1 .. n)
  <2>1. f[b] = Len(t.batches[b]) /\ f[b] \in Nat
    BY Zenon, <1>1, <1>2
  <2>2. Before(t, b) = Total(f, 1 .. b - 1)
    BY DEF Before, f
  <2>3. Total(f, 1 .. n) \in Nat
    <3>1. IsFiniteSet(1 .. n) /\ \A i \in 1 .. n : f[i] \in Nat
      BY SMTT(30), <1>2, FS_Interval
    <3> QED BY Zenon, <3>1, TotalType
  <2> QED BY SMTT(30), <1>1, <1>3, <1>5, <1>6, <2>1, <2>2, <2>3, CacheConstants
<1>8. j \in Int /\ 1 <= j /\ Total(f, 1 .. n) \in Int
  <2>1. IsFiniteSet(1 .. n) /\ \A i \in 1 .. n : f[i] \in Nat
    BY SMTT(30), <1>2, FS_Interval
  <2>2. Total(f, 1 .. n) \in Nat
    BY Zenon, <2>1, TotalType
  <2> QED BY <1>1, <2>2, CacheConstants
<1> QED BY SMTT(30), <1>2, <1>3, <1>4, <1>7, <1>8 DEF b, j

(* fetch_partitions leaves out no batch with a row of the range.           *)
LEMMA FetchedBatch ==
  ASSUME NEW rws, NEW t, NEW F, Holds(rws, t, F), NEW lo \in Int, NEW hi \in Int,
         NEW x \in Places(t.batches),
         lo <= CacheIndex(t, x[1], x[2]), CacheIndex(t, x[1], x[2]) <= hi
  PROVE  x[1] \in FetchPartitions(t, lo, hi)
<1> DEFINE b == x[1]
           j == x[2]
           n == Len(t.batches)
           D == DOMAIN t.batches
           Early == {c \in D : BatchEnd(t, c) < lo}
           Begun == {c \in D : BatchStart(t, c) <= hi}
           Ends == {Cardinality(Begun), 1}
<1>1. b \in 1 .. n /\ j \in 1 .. BatchRows /\ j <= Len(t.batches[b])
  BY Zenon, BatchLengths DEF Places
<1>2. n \in Nat /\ D = 1 .. n /\ t.start \in Nat /\ \A c \in 1 .. n : Len(t.batches[c]) \in Nat \ {0}
  <2>1. n \in Nat /\ D = 1 .. n /\ t.start \in Nat
    BY Zenon, BatchLengths
  <2>2. \A c \in 1 .. n : Len(t.batches[c]) \in 1 .. BatchRows /\ Len(t.batches[c]) \in Nat
    BY Zenon, BatchLengths
  <2>3. \A c \in 1 .. n : Len(t.batches[c]) # 0
    BY <2>2, CacheConstants
  <2> QED BY Zenon, <2>1, <2>2, <2>3
<1>3. \A c \in 1 .. n : /\ BatchStart(t, c) = t.start + Before(t, c) /\ Before(t, c) \in Nat
                         /\ BatchEnd(t, c) = t.start + Before(t, c) + Len(t.batches[c]) - 1
  BY Zenon, BatchStartIsBefore DEF BatchEnd
<1>4. \A c, d \in 1 .. n : c < d => Before(t, c) + Len(t.batches[c]) <= Before(t, d)
  BY Zenon, BatchesInOrder
<1>5. lo <= t.start + Before(t, b) + j - 1 /\ t.start + Before(t, b) + j - 1 <= hi
  BY Zenon, <1>1, <1>3 DEF CacheIndex
<1> HIDE DEF b, j, n, D
<1>6. j \in Nat /\ 1 <= j /\ b \in Nat
  BY SMTT(30), <1>1, <1>2, CacheConstants
<1>7. Early \subseteq 1 .. b - 1
  <2> SUFFICES ASSUME NEW c \in 1 .. n, BatchEnd(t, c) < lo, b <= c PROVE FALSE
    BY <1>1, <1>2
  <2> DEFINE s == t.start
             p == Before(t, b)
             l == Len(t.batches[b])
             q == Before(t, c)
             m == Len(t.batches[c])
  <2>1. p + l <= q + m
    <3>1. CASE c = b
      <4>1. p = q /\ l = m /\ q \in Nat /\ m \in Nat
        BY Zenon, <1>2, <1>3, <3>1
      <4> QED BY SMTT(30), <4>1
    <3>2. CASE b < c
      <4>1. p + l <= q
        BY Zenon, <1>1, <1>4, <3>2
      <4>2. p \in Nat /\ q \in Nat /\ l \in Nat /\ m \in Nat
        BY Zenon, <1>1, <1>2, <1>3
      <4> HIDE DEF p, q, l, m
      <4> QED BY <4>1, <4>2
    <3> QED BY <1>1, <1>2, <3>1, <3>2
  <2>2. s + q + m - 1 < lo /\ lo <= s + p + j - 1 /\ j <= l
    BY Zenon, <1>1, <1>3, <1>5
  <2>3. s \in Nat /\ p \in Nat /\ q \in Nat /\ l \in Nat /\ m \in Nat /\ j \in Nat
    BY Zenon, <1>1, <1>2, <1>3, <1>6
  <2> HIDE DEF s, p, q, l, m
  <2>4. lo <= s + p + l - 1
    BY <2>2, <2>3
  <2>5. s + p + l - 1 <= s + q + m - 1
    BY <2>1, <2>3
  <2> QED BY SMTT(30), <2>2, <2>3, <2>4, <2>5
<1>8. 1 .. b \subseteq Begun
  <2> SUFFICES ASSUME NEW c \in 1 .. b PROVE c \in 1 .. n /\ BatchStart(t, c) <= hi
    BY Zenon, <1>2
  <2>1. c \in 1 .. n
    BY <1>1, <1>2
  <2>2. Before(t, c) <= Before(t, b)
    <3>1. CASE c = b
      BY SMTT(30), <1>1, <1>3, <3>1
    <3>2. CASE c < b
      <4>1. Before(t, c) + Len(t.batches[c]) <= Before(t, b)
        BY Zenon, <1>1, <1>4, <2>1, <3>2
      <4>2. Before(t, c) \in Nat /\ Before(t, b) \in Nat /\ Len(t.batches[c]) \in Nat
        BY Zenon, <1>1, <1>2, <1>3, <2>1
      <4> QED BY SMTT(30), <4>1, <4>2
    <3> QED BY <1>1, <3>1, <3>2
  <2>3. BatchStart(t, c) = t.start + Before(t, c) /\ Before(t, c) \in Nat /\ Before(t, b) \in Nat
    BY <1>1, <1>3, <2>1
  <2> QED BY SMTT(30), <1>2, <1>5, <1>6, <2>1, <2>2, <2>3
<1>9. Cardinality(Early) <= b - 1 /\ Cardinality(Early) \in Nat
  <2>1. IsFiniteSet(1 .. b - 1) /\ Cardinality(1 .. b - 1) = b - 1
    <3>1. b - 1 \in Nat
      BY <1>1, <1>6
    <3> QED BY <1>6, <3>1, FS_Interval
  <2> HIDE DEF Early
  <2>2. Cardinality(Early) \in 0 .. Cardinality(1 .. b - 1)
    BY Zenon, <1>7, <2>1, Cardinalities
  <2> QED BY <1>6, <2>1, <2>2
<1>10. b <= Cardinality(Begun) /\ Cardinality(Begun) \in Nat
  <2>1. IsFiniteSet(1 .. n) /\ Begun \subseteq 1 .. n
    BY <1>2, FS_Interval
  <2>2. Cardinality(1 .. b) = b
    BY <1>1, <1>6, FS_Interval
  <2> HIDE DEF Begun
  <2>3. IsFiniteSet(Begun)
    BY Zenon, <2>1, FS_Subset
  <2>4. Cardinality(Begun) \in Nat /\ Cardinality(1 .. b) \in 0 .. Cardinality(Begun)
    BY Zenon, <1>8, <2>3, Cardinalities
  <2> QED BY <1>6, <2>2, <2>4
<1> HIDE DEF Early, Begun
<1>11. b <= Max(Ends)
  <2>1. IsFiniteSet(Ends) /\ Ends \in SUBSET Int /\ Ends # {} /\ Cardinality(Begun) \in Ends
    <3>1. Ends = {1} \union {Cardinality(Begun)} /\ IsFiniteSet({1})
      BY Zenon, FS_Singleton
    <3>2. IsFiniteSet({1} \union {Cardinality(Begun)})
      BY Zenon, <3>1, FS_AddElement
    <3>3. Ends \in SUBSET Int /\ Ends # {} /\ Cardinality(Begun) \in Ends
      BY <1>10
    <3>4. IsFiniteSet(Ends)
      <4> HIDE DEF Ends
      <4> QED BY Zenon, <3>1, <3>2
    <3> QED BY Zenon, <3>3, <3>4
  <2>2. Max(Ends) \in Ends /\ Cardinality(Begun) <= Max(Ends)
    <3> HIDE DEF Ends
    <3> QED BY Zenon, <2>1, MaxOfFinite
  <2>3. Max(Ends) \in Int
    BY Zenon, <2>1, <2>2
  <2> QED BY SMTT(30), <1>6, <1>10, <2>2, <2>3
<1>12. Cardinality(Early) + 1 <= b /\ b \in D
  BY <1>1, <1>2, <1>6, <1>9
<1>13. FetchPartitions(t, lo, hi) = {c \in D : Cardinality(Early) + 1 <= c /\ c <= Max(Ends)}
  BY Zenon DEF FetchPartitions, Early, Begun, D
<1> HIDE DEF Ends
<1> QED BY Zenon, <1>11, <1>12, <1>13 DEF b

(* What do_get streams: the rows with a number in the range.               *)
LEMMA SelectedRows ==
  ASSUME NEW rws, NEW t, NEW F, Holds(rws, t, F), NEW range,
         range.start \in Int, range.end \in Int
  PROVE  /\ \A x \in Places(t.batches) :
              InRange(CacheIndex(t, x[1], x[2]), range) => At(t.batches, x) \in Selected(t, range)
         /\ \A row \in Selected(t, range) : \E x \in Places(t.batches) :
              At(t.batches, x) = row /\ InRange(CacheIndex(t, x[1], x[2]), range)
<1> DEFINE P == FetchPartitions(t, range.start, range.end)
           Q == {x \in P \X (1 .. BatchRows) : /\ x[2] <= Len(t.batches[x[1]])
                                               /\ InRange(CacheIndex(t, x[1], x[2]), range)}
<1>1. Selected(t, range) = {At(t.batches, y) : y \in Q}
  BY Zenon DEF Selected, At
<1>2. P \subseteq DOMAIN t.batches
  BY Zenon DEF FetchPartitions
<1>3. ASSUME NEW x \in Places(t.batches), InRange(CacheIndex(t, x[1], x[2]), range) PROVE x \in Q
  <2>1. x[1] \in P
    BY Zenon, <1>3, FetchedBatch DEF InRange
  <2>2. x \in (DOMAIN t.batches) \X (1 .. BatchRows) /\ x[2] <= Len(t.batches[x[1]])
    BY Zenon DEF Places
  <2> HIDE DEF P
  <2> QED BY Zenon, <1>3, <2>1, <2>2
<1>4. ASSUME NEW x \in Q
      PROVE  x \in Places(t.batches) /\ InRange(CacheIndex(t, x[1], x[2]), range)
  BY Zenon, <1>2 DEF Places
<1> HIDE DEF Q
<1> QED BY Zenon, <1>1, <1>3, <1>4

-----------------------------------------------------------------------------
(***************************************************************************)
(* The groups of the head, whatever fails.                                 *)
(***************************************************************************)
HeadType == [pc : {"Plan", "Unready", "Distribute", "AssignEmpty", "Serve"},
             groups : [Workers -> Seq(Nat)], total : Nat]
FaultType == [restart : Nat, plan : Nat, put : Nat, read : Nat]

GroupInv ==
  /\ rows \in Seq(Nat) /\ head \in HeadType /\ faults \in FaultType
  /\ Grouped(rows, head.groups) /\ Balanced(rows, head.groups)

LEMMA GroupTypes ==
  ASSUME NEW rws \in Seq(Nat), NEW groups, Grouped(rws, groups)
  PROVE  groups \in [Workers -> Seq(Nat)]
<1>1. \A w \in Workers : groups[w] \in Seq(Nat)
  BY DEF Grouped
<1> QED BY Zenon, <1>1 DEF Grouped

LEMMA DownIsGrouped ==
  ASSUME NEW rws \in Seq(Nat)
  PROVE  Down \in HeadType /\ Grouped(rws, Down.groups) /\ Balanced(rws, Down.groups)
<1>1. Down.groups = [w \in Workers |-> <<>>] /\ Down \in HeadType
  BY DEF Down, HeadType
<1> QED BY Zenon, <1>1, NoFileYet

(* What Plan computes, for the files that could be read.                   *)
LEMMA PlanGroups ==
  ASSUME rows \in Seq(Nat), NEW lost \in SUBSET Files,
         NEW groups \in {PartitionTasks(order) : order \in Orders(Files \ lost)}
  PROVE  /\ Grouped(rows, groups) /\ Balanced(rows, groups)
         /\ Numbered(rows, groups, TotalRowCount(groups))
         /\ lost = {} => Complete(rows, groups)
<1>1. PICK order \in Orders(Files \ lost) : groups = PartitionTasks(order)
  BY Zenon
<1>2. /\ Grouped(rows, groups) /\ Balanced(rows, groups)
      /\ \A f \in Files \ lost : \E w \in Workers : f \in Range(groups[w])
  BY Zenon, <1>1, PartitionTasksGroups
<1>3. Numbered(rows, groups, TotalRowCount(groups))
  BY Zenon, <1>2, TotalRowCountNumbers
<1>4. lost = {} => Complete(rows, groups)
  BY Zenon, <1>2 DEF Complete, Files
<1> QED BY Zenon, <1>2, <1>3, <1>4

LEMMA LostFiles ==
  ASSUME rows \in Seq(Nat), NEW F \in SUBSET Files, NEW lost \in SUBSET F
  PROVE  Cardinality(lost) \in Nat /\ (Cardinality(lost) <= 0 => lost = {})
<1>1. IsFiniteSet(Files)
  BY FS_Interval DEF Files
<1>2. IsFiniteSet(F)
  BY Zenon, <1>1, FS_Subset
<1> QED BY Zenon, <1>2, Cardinalities

(* The files of which batches are lost.                                    *)
LEMMA LostBatches ==
  ASSUME rows \in Seq(Nat), NEW F \in SUBSET Files, NEW lost \in Lost(F)
  PROVE  LET files == {b[1] : b \in lost}
         IN Cardinality(files) \in Nat /\ (Cardinality(files) <= 0 => lost = {})
<1> DEFINE files == {b[1] : b \in lost}
<1>1. lost \in SUBSET BatchIds(F)
  BY Zenon DEF Lost
<1>2. \A b \in BatchIds(F) : b[1] \in F
  <2> TAKE b \in BatchIds(F)
  <2>1. PICK f \in F : b \in {f} \X (1 .. DivCeil(rows[f], BatchRows))
    BY Zenon DEF BatchIds
  <2> QED BY Zenon, <2>1
<1>3. files \in SUBSET F
  BY Zenon, <1>1, <1>2
<1>4. Cardinality(files) \in Nat /\ (Cardinality(files) <= 0 => files = {})
  <2> HIDE DEF files
  <2> QED BY Zenon, <1>3, LostFiles
<1>5. files = {} => lost = {}
  BY Zenon
<1> HIDE DEF files
<1> QED BY Zenon, <1>4, <1>5 DEF files

LEMMA InitGroups ==
  Init => GroupInv
<1> SUFFICES ASSUME Init PROVE GroupInv
  BY Zenon
<1>1. rows \in Seq(Nat) /\ head = Down /\ faults \in FaultType
  BY Zenon, CacheAssumption DEF Init, FaultType
<1> QED BY Zenon, <1>1, DownIsGrouped DEF GroupInv

LEMMA NextGroups ==
  GroupInv /\ [Next]_vars => GroupInv'
<1> SUFFICES ASSUME GroupInv, [Next]_vars PROVE GroupInv'
  OBVIOUS
<1>1. /\ rows \in Seq(Nat) /\ head \in HeadType /\ faults \in FaultType
      /\ Grouped(rows, head.groups) /\ Balanced(rows, head.groups)
  BY Zenon DEF GroupInv
<1>2. ASSUME rows' = rows, head' \in HeadType, head'.groups = head.groups, faults' \in FaultType
      PROVE  GroupInv'
  BY Zenon, <1>1, <1>2 DEF GroupInv
<1>3. CASE Plan
  <2>1. PICK lost \in SUBSET Files :
          /\ faults' = [faults EXCEPT !.read = @ + Cardinality(lost)]
          /\ \E groups \in {PartitionTasks(order) : order \in Orders(Files \ lost)} :
               head' = [pc |-> "Distribute", groups |-> groups, total |-> TotalRowCount(groups)]
    BY Zenon, <1>3 DEF Plan
  <2>2. PICK groups \in {PartitionTasks(order) : order \in Orders(Files \ lost)} :
          head' = [pc |-> "Distribute", groups |-> groups, total |-> TotalRowCount(groups)]
    BY Zenon, <2>1
  <2>3. Grouped(rows, groups) /\ Balanced(rows, groups) /\ TotalRowCount(groups) \in Nat
    BY Zenon, <1>1, PlanGroups DEF Numbered
  <2>4. groups \in [Workers -> Seq(Nat)]
    BY Zenon, <1>1, <2>3, GroupTypes
  <2>5. head' \in HeadType /\ head'.groups = groups
    BY Zenon, <2>2, <2>3, <2>4 DEF HeadType
  <2>6. faults' \in FaultType
    <3>1. Cardinality(lost) \in Nat
      BY Zenon, <1>1, LostFiles
    <3> QED BY <1>1, <2>1, <3>1 DEF FaultType
  <2>7. rows' = rows
    BY Zenon, <1>3 DEF Plan
  <2> QED BY Zenon, <1>1, <2>3, <2>5, <2>6, <2>7 DEF GroupInv
<1>4. CASE Restart
  <2>1. head' = Down /\ rows' = rows /\ faults' \in FaultType
    BY <1>1, <1>4 DEF Restart, FaultType
  <2> QED BY Zenon, <1>1, <2>1, DownIsGrouped DEF GroupInv
<1>5. CASE Distributed \/ Serve
  <2>1. CASE Distributed
    BY Zenon, <1>1, <1>2, <2>1 DEF Distributed, HeadType
  <2>2. CASE Serve
    BY Zenon, <1>1, <1>2, <2>2 DEF Serve, HeadType
  <2> QED BY Zenon, <1>5, <2>1, <2>2
<1>6. CASE PlanFails
  <2>1. head' \in HeadType /\ head'.groups = head.groups /\ rows' = rows
    BY Zenon, <1>1, <1>6 DEF PlanFails, HeadType
  <2>2. faults' \in FaultType
    <3>1. faults' = [faults EXCEPT !.plan = @ + 1]
      BY Zenon, <1>6 DEF PlanFails
    <3> QED BY SMTT(30), <1>1, <3>1 DEF FaultType
  <2> QED BY Zenon, <1>2, <2>1, <2>2
<1>7. ASSUME NEW w \in Workers, DoPut(w) PROVE GroupInv'
  <2>1. PICK lost \in Lost(Range(head.groups[w])) :
          faults' = [faults EXCEPT !.read = @ + Cardinality({b[1] : b \in lost})]
    BY Zenon, <1>7 DEF DoPut
  <2>2. Range(head.groups[w]) \in SUBSET Files
    BY <1>1, SeqElements DEF Grouped, Files
  <2>3. Cardinality({b[1] : b \in lost}) \in Nat
    BY Zenon, <1>1, <2>2, LostBatches
  <2>4. faults' \in FaultType
    BY SMTT(30), <1>1, <2>1, <2>3 DEF FaultType
  <2>5. rows' = rows /\ head' = head
    BY <1>7 DEF DoPut
  <2> QED BY Zenon, <1>1, <1>2, <2>4, <2>5
<1>8. ASSUME NEW w \in Workers, TryNewFails(w) \/ PutFails(w) PROVE GroupInv'
  <2>1. rows' = rows /\ head' = head /\ faults' = [faults EXCEPT !.put = @ + 1]
    BY Zenon, <1>8 DEF TryNewFails, PutFails
  <2>2. faults' \in FaultType
    BY <1>1, <2>1 DEF FaultType
  <2> QED BY Zenon, <1>1, <1>2, <2>1, <2>2
<1>9. CASE UNCHANGED <<rows, head, faults>>
  BY Zenon, <1>1, <1>2, <1>9
<1>10. CASE AssignEmpty \/ Release \/ \E w \in Workers : SendRecordBatch(w)
  <2>1. UNCHANGED <<rows, head, faults>>
    BY Zenon, <1>10 DEF AssignEmpty, Release, SendRecordBatch
  <2> QED BY Zenon, <1>9, <2>1
<1>11. CASE Clients
  <2>1. UNCHANGED <<rows, head, faults>>
    BY Zenon, <1>11 DEF Clients, GetFlightInfo, DoGet, ReadDone
  <2> QED BY Zenon, <1>9, <2>1
<1>12. CASE UNCHANGED vars
  BY Zenon, <1>9, <1>12 DEF vars
<1> QED BY Zenon, <1>3, <1>4, <1>5, <1>6, <1>7, <1>8, <1>10, <1>11, <1>12 DEF Next, Cluster

LEMMA GroupsHold ==
  Spec => []GroupInv
<1>1. Init => GroupInv
  BY Zenon, InitGroups
<1>2. GroupInv /\ [Next]_vars => GroupInv'
  BY Zenon, NextGroups
<1> QED BY <1>1, <1>2, PTL DEF Spec

(* "Task groups are balanced to minimize data skew across workers": two    *)
(* groups of partition_tasks never differ by more rows than the largest    *)
(* file has, for every table and every number of workers, and whichever    *)
(* files the planning stream lost.                                         *)
THEOREM GroupsAlwaysBalanced ==
  Spec => []GroupsBalanced
<1>1. ASSUME GroupInv PROVE GroupsBalanced
  <2>1. /\ rows \in Seq(Nat) /\ Grouped(rows, head.groups) /\ Balanced(rows, head.groups)
    BY Zenon, <1>1 DEF GroupInv
  <2>2. \A w \in Workers : Size(head.groups[w]) = FileRows(rows, head.groups[w])
    BY Zenon, <2>1, GroupSize
  <2> QED BY Zenon, <2>1, <2>2 DEF GroupsBalanced, Balanced
<1>2. GroupInv => GroupsBalanced
  BY Zenon, <1>1
<1> QED BY <1>2, GroupsHold, PTL

-----------------------------------------------------------------------------
(***************************************************************************)
(* The tables of the workers, as long as every file can be read: an        *)
(* unreadable file only leaves its rows out, of the plan or of a table.    *)
(***************************************************************************)
TableOf(rws, groups, w, t) ==
  /\ Holds(rws, t, Range(groups[w]))
  /\ groups[w] # <<>> => t.start = StartOf(rws, groups, w)

(* A table that is loaded is the table of the files assigned to its        *)
(* worker, also when the call that loaded it is taken for lost; nothing    *)
(* is sent before the head has planned.                                    *)
LoadInv ==
  /\ put \in [Workers -> {"none", "sent", "handled", "failed"}] /\ DOMAIN table = Workers
  /\ IF head.pc \in {"Plan", "Unready"} THEN \A w \in Workers : put[w] = "none"
     ELSE Complete(rows, head.groups) /\ Numbered(rows, head.groups, head.total)
  /\ \A w \in Workers : table[w] # NoTable =>
       put[w] \in {"handled", "failed"} /\ TableOf(rows, head.groups, w, table[w])

LEMMA FilesOfGroup ==
  ASSUME NEW rws \in Seq(Nat), NEW groups, Grouped(rws, groups), NEW w \in Workers
  PROVE  Range(groups[w]) \in SUBSET DOMAIN rws
<1>1. groups[w] \in Seq(DOMAIN rws)
  BY DEF Grouped
<1> QED BY Zenon, <1>1, SeqElements

LEMMA LoadIsTable ==
  ASSUME GroupInv, head.total \in Nat, NEW w \in Workers, NEW order \in ReadStream(w, {})
  PROVE  TableOf(rows, head.groups, w, Load(w, order))
<1> DEFINE F == Range(head.groups[w])
           t == Load(w, order)
<1>1. rows \in Seq(Nat) /\ Grouped(rows, head.groups)
  BY Zenon DEF GroupInv
<1>2. F \in SUBSET Files
  BY Zenon, <1>1, FilesOfGroup DEF Files
<1>3. order \in SetToSeqs(BatchIds(F))
  <2>1. BatchIds(F) \ {} = BatchIds(F)
    BY Zenon
  <2> QED BY Zenon, <2>1 DEF ReadStream
<1>4. BatchesOf(rows, [i \in DOMAIN order |-> Batch(order[i][1], order[i][2])], F)
  BY Zenon, <1>1, <1>2, <1>3, AllBatches
<1>5. /\ t.batches = [i \in DOMAIN order |-> Batch(order[i][1], order[i][2])]
      /\ t.start = IF head.groups[w] = <<>> THEN head.total ELSE StartIndex(head.groups, w)
  BY Zenon DEF Load
<1>6. /\ StartIndex(head.groups, w) = StartOf(rows, head.groups, w)
      /\ StartOf(rows, head.groups, w) \in Nat
  BY Zenon, <1>1, StartIndexIsStartOf
<1> HIDE DEF t, F
<1>7. Holds(rows, t, F)
  BY Zenon, <1>4, <1>5, <1>6 DEF Holds
<1> QED BY Zenon, <1>5, <1>6, <1>7 DEF TableOf, F, t

LEMMA InitTables ==
  Init => LoadInv
BY DEF Init, LoadInv, Down

LEMMA NextTables ==
  ASSUME MaxReadFaults = 0, GroupInv, LoadInv, [Next]_vars
  PROVE  LoadInv'
<1>1. rows \in Seq(Nat) /\ head \in HeadType /\ faults \in FaultType
  BY Zenon DEF GroupInv
<1>2. /\ put \in [Workers -> {"none", "sent", "handled", "failed"}] /\ DOMAIN table = Workers
      /\ IF head.pc \in {"Plan", "Unready"} THEN \A w \in Workers : put[w] = "none"
         ELSE Complete(rows, head.groups) /\ Numbered(rows, head.groups, head.total)
      /\ \A w \in Workers : table[w] # NoTable =>
           put[w] \in {"handled", "failed"} /\ TableOf(rows, head.groups, w, table[w])
  BY Zenon DEF LoadInv
<1>3. CASE UNCHANGED <<rows, head, put, table>>
  BY Zenon, <1>2, <1>3 DEF LoadInv
<1>4. CASE Plan
  <2>1. PICK lost \in SUBSET Files :
          /\ faults.read + Cardinality(lost) <= MaxReadFaults
          /\ \E groups \in {PartitionTasks(order) : order \in Orders(Files \ lost)} :
               head' = [pc |-> "Distribute", groups |-> groups, total |-> TotalRowCount(groups)]
    BY Zenon, <1>4 DEF Plan
  <2>2. PICK groups \in {PartitionTasks(order) : order \in Orders(Files \ lost)} :
          head' = [pc |-> "Distribute", groups |-> groups, total |-> TotalRowCount(groups)]
    BY Zenon, <2>1
  <2>3. lost = {}
    <3>1. Cardinality(lost) \in Nat /\ (Cardinality(lost) <= 0 => lost = {})
      BY Zenon, <1>1, LostFiles
    <3> QED BY <1>1, <2>1, <3>1 DEF FaultType
  <2>4. Complete(rows, groups) /\ Numbered(rows, groups, TotalRowCount(groups))
    BY Zenon, <1>1, <2>3, PlanGroups
  <2>5. /\ head'.pc = "Distribute" /\ head'.groups = groups
        /\ head'.total = TotalRowCount(groups)
    BY Zenon, <2>2
  <2>6. UNCHANGED <<rows, put, table>> /\ \A w \in Workers : put[w] = "none"
    BY Zenon, <1>2, <1>4 DEF Plan
  <2>7. \A w \in Workers : table[w] = NoTable
    BY Zenon, <1>2, <2>6
  <2> QED BY Zenon, <1>2, <2>4, <2>5, <2>6, <2>7 DEF LoadInv
<1>5. ASSUME NEW w \in Workers, put[w] = "sent",
             NEW t, t = NoTable \/ TableOf(rows, head.groups, w, t),
             NEW a \in {"handled", "failed"},
             table' = [table EXCEPT ![w] = t], put' = [put EXCEPT ![w] = a],
             rows' = rows, head' = head
      PROVE  LoadInv'
  <2>1. put' \in [Workers -> {"none", "sent", "handled", "failed"}] /\ DOMAIN table' = Workers
    BY Zenon, <1>2, <1>5
  <2>2. head.pc \notin {"Plan", "Unready"}
    BY Zenon, <1>2, <1>5
  <2>3. ASSUME NEW v \in Workers, table'[v] # NoTable
        PROVE  put'[v] \in {"handled", "failed"} /\ TableOf(rows, head.groups, v, table'[v])
    BY Zenon, <1>2, <1>5, <2>3
  <2> QED BY Zenon, <1>2, <1>5, <2>1, <2>2, <2>3 DEF LoadInv
<1>6. ASSUME NEW w \in Workers, put[w] = "sent" PROVE head.total \in Nat
  BY Zenon, <1>1 DEF HeadType
<1>7. ASSUME NEW w \in Workers, DoPut(w) PROVE LoadInv'
  <2>1. PICK lost \in Lost(Range(head.groups[w])) :
          /\ faults.read + Cardinality({b[1] : b \in lost}) <= MaxReadFaults
          /\ \E order \in ReadStream(w, lost) : table' = [table EXCEPT ![w] = Load(w, order)]
    BY Zenon, <1>7 DEF DoPut
  <2>2. lost = {}
    <3>1. Range(head.groups[w]) \in SUBSET Files
      BY Zenon, <1>1, FilesOfGroup DEF Files, GroupInv
    <3> DEFINE c == Cardinality({b[1] : b \in lost})
    <3>2. c \in Nat /\ (c <= 0 => lost = {}) /\ faults.read + c <= MaxReadFaults
      BY Zenon, <1>1, <2>1, <3>1, LostBatches
    <3>3. faults.read \in Nat
      BY Zenon, <1>1 DEF FaultType
    <3> HIDE DEF c
    <3> QED BY SMTT(30), <3>2, <3>3
  <2>3. PICK order \in ReadStream(w, {}) : table' = [table EXCEPT ![w] = Load(w, order)]
    BY Zenon, <2>1, <2>2
  <2>4. /\ put[w] = "sent" /\ put' = [put EXCEPT ![w] = "handled"]
        /\ rows' = rows /\ head' = head
    BY Zenon, <1>7 DEF DoPut
  <2>5. TableOf(rows, head.groups, w, Load(w, order))
    BY Zenon, <1>6, <2>4, LoadIsTable
  <2> QED BY Zenon, <1>5, <2>3, <2>4, <2>5
<1>8. ASSUME NEW w \in Workers, PutFails(w) PROVE LoadInv'
  <2>1. PICK t \in {NoTable} \union {Load(w, order) : order \in ReadStream(w, {})} :
          table' = [table EXCEPT ![w] = t]
    BY Zenon, <1>8 DEF PutFails
  <2>2. /\ put[w] = "sent" /\ put' = [put EXCEPT ![w] = "failed"]
        /\ rows' = rows /\ head' = head
    BY Zenon, <1>8 DEF PutFails
  <2>3. t = NoTable \/ TableOf(rows, head.groups, w, t)
    BY Zenon, <1>6, <2>1, <2>2, LoadIsTable
  <2> QED BY Zenon, <1>5, <2>1, <2>2, <2>3
<1>9. ASSUME NEW w \in Workers, put[w] = "none", put' = [put EXCEPT ![w] = "sent"],
             head.pc \notin {"Plan", "Unready"}, UNCHANGED <<rows, head, table>>
      PROVE  LoadInv'
  <2>1. put' \in [Workers -> {"none", "sent", "handled", "failed"}]
    BY Zenon, <1>2, <1>9
  <2>2. ASSUME NEW v \in Workers, table[v] # NoTable
        PROVE  put'[v] \in {"handled", "failed"} /\ TableOf(rows, head.groups, v, table[v])
    BY Zenon, <1>2, <1>9, <2>2
  <2> QED BY Zenon, <1>2, <1>9, <2>1, <2>2 DEF LoadInv
<1>10. ASSUME NEW w \in Workers, SendRecordBatch(w) PROVE LoadInv'
  BY Zenon, <1>9, <1>10 DEF SendRecordBatch, ToSend
<1>16. ASSUME NEW w \in Workers, TryNewFails(w) PROVE LoadInv'
  <2>1. PICK behind \in SUBSET (ToSend \ {w}) :
          put' = [v \in Workers |-> IF v \in behind \union {w} THEN "failed" ELSE put[v]]
    BY Zenon, <1>16 DEF TryNewFails
  <2>2. head.pc = "Distribute" /\ UNCHANGED <<rows, head, table>>
    BY Zenon, <1>16 DEF TryNewFails
  <2>3. put' \in [Workers -> {"none", "sent", "handled", "failed"}]
    BY Zenon, <1>2, <2>1
  <2>4. ASSUME NEW v \in Workers, table[v] # NoTable
        PROVE  put'[v] \in {"handled", "failed"} /\ TableOf(rows, head.groups, v, table[v])
    BY Zenon, <1>2, <2>1, <2>4
  <2> QED BY Zenon, <1>2, <2>2, <2>3, <2>4 DEF LoadInv
<1>11. CASE AssignEmpty
  <2>1. PICK w \in Unassigned : put[w] = "none" /\ put' = [put EXCEPT ![w] = "sent"]
    BY Zenon, <1>11 DEF AssignEmpty
  <2>2. head.pc = "AssignEmpty" /\ UNCHANGED <<rows, head, table>> /\ w \in Workers
    BY Zenon, <1>11 DEF AssignEmpty, Unassigned
  <2> QED BY Zenon, <1>9, <2>1, <2>2
<1>12. ASSUME NEW next \in {"Unready", "AssignEmpty", "Serve"},
              head' = [head EXCEPT !.pc = next], UNCHANGED <<rows, put, table>>,
              next = "Unready" <=> head.pc \in {"Plan", "Unready"}
       PROVE  LoadInv'
  <2>1. head'.pc = next /\ head'.groups = head.groups /\ head'.total = head.total
    BY Zenon, <1>1, <1>12 DEF HeadType
  <2>2. IF next \in {"Plan", "Unready"} THEN \A w \in Workers : put[w] = "none"
        ELSE Complete(rows, head.groups) /\ Numbered(rows, head.groups, head.total)
    BY Zenon, <1>2, <1>12
  <2> QED BY Zenon, <1>2, <1>12, <2>1, <2>2 DEF LoadInv
<1>13. CASE Distributed \/ Serve \/ PlanFails
  <2>1. CASE Distributed
    BY Zenon, <1>12, <2>1 DEF Distributed
  <2>2. CASE Serve
    BY Zenon, <1>12, <2>2 DEF Serve
  <2>3. CASE PlanFails
    BY Zenon, <1>12, <2>3 DEF PlanFails
  <2> QED BY Zenon, <1>13, <2>1, <2>2, <2>3
<1>14. CASE Restart
  <2>1. /\ head'.pc = "Plan"
        /\ put' = [w \in Workers |-> "none"] /\ table' = [w \in Workers |-> NoTable]
    BY Zenon, <1>14 DEF Restart, Down
  <2> QED BY Zenon, <2>1 DEF LoadInv
<1>15. CASE Release \/ Clients \/ UNCHANGED vars
  <2>1. UNCHANGED <<rows, head, put, table>>
    BY Zenon, <1>15 DEF Release, Clients, GetFlightInfo, DoGet, ReadDone, vars
  <2> QED BY Zenon, <1>3, <2>1
<1> QED
  BY Zenon, <1>4, <1>7, <1>8, <1>10, <1>11, <1>13, <1>14, <1>15, <1>16 DEF Next, Cluster

LEMMA TablesHold ==
  ASSUME MaxReadFaults = 0
  PROVE  Spec => [](GroupInv /\ LoadInv)
<1>1. Init => LoadInv
  BY InitTables
<1>2. GroupInv /\ LoadInv /\ [Next]_vars => LoadInv'
  BY Zenon, NextTables
<1> QED BY <1>1, <1>2, GroupsHold, PTL DEF Spec

LEMMA RowsOfTable ==
  ASSUME NEW rws, NEW t, NEW F, Holds(rws, t, F)
  PROVE  UNION {Range(t.batches[b]) : b \in DOMAIN t.batches} = RowsOfFiles(rws, F)
<1> DEFINE bs == t.batches
<1>1. /\ bs \in Seq(Seq(Nat \X Nat)) /\ \A b \in DOMAIN bs : Len(bs[b]) \in 1 .. BatchRows
      /\ \A x \in Places(bs) : At(bs, x) \in RowsOfFiles(rws, F)
      /\ \A y \in RowsOfFiles(rws, F) : \E x \in Places(bs) : At(bs, x) = y
  BY Zenon DEF Holds, BatchesOf
<1> HIDE DEF bs
<1>2. \A b \in DOMAIN bs : bs[b] \in Seq(Nat \X Nat)
  BY <1>1
<1>3. ASSUME NEW b \in DOMAIN bs, NEW y \in Range(bs[b]) PROVE y \in RowsOfFiles(rws, F)
  <2>1. PICK j \in DOMAIN bs[b] : y = bs[b][j]
    BY Zenon, <1>3 DEF Range
  <2>2. j \in 1 .. BatchRows /\ j <= Len(bs[b])
    BY SMTT(30), <1>1, <1>2, CacheAssumption
  <2>3. <<b, j>> \in Places(bs) /\ At(bs, <<b, j>>) = y
    BY Zenon, <2>1, <2>2 DEF Places, At
  <2> QED BY Zenon, <1>1, <2>3
<1>4. ASSUME NEW y \in RowsOfFiles(rws, F) PROVE \E b \in DOMAIN bs : y \in Range(bs[b])
  <2>1. PICK x \in Places(bs) : At(bs, x) = y
    BY Zenon, <1>1
  <2>2. x[1] \in DOMAIN bs /\ x[2] \in 1 .. BatchRows /\ x[2] <= Len(bs[x[1]])
    BY Zenon DEF Places
  <2>3. x[2] \in DOMAIN bs[x[1]]
    BY SMTT(30), <1>1, <1>2, <2>2, CacheAssumption
  <2> QED BY Zenon, <2>1, <2>2, <2>3 DEF At, Range
<1> QED BY Zenon, <1>3, <1>4 DEF bs

LEMMA RowsOfAFile ==
  ASSUME rows \in Seq(Nat), NEW F \in SUBSET Files
  PROVE  RowsOfFiles(rows, F) = UNION {Row(f) : f \in F}
<1>1. \A f \in F : rows[f] \in Nat
  BY DEF Files
<1>2. ASSUME NEW y \in RowsOfFiles(rows, F) PROVE \E f \in F : y \in Row(f)
  BY <1>1 DEF RowsOfFiles, Row
<1>3. ASSUME NEW f \in F, NEW y \in Row(f) PROVE y \in RowsOfFiles(rows, F)
  BY <1>1 DEF RowsOfFiles, Row
<1> QED BY Zenon, <1>2, <1>3

(* The LeaderWorkerSet is only available, and the training only released,  *)
(* when every row of the table is in the table of some worker and nothing  *)
(* else is: for every table, number of workers and batch size, and however *)
(* many do_put calls fail and Pods restart, as long as the data files can  *)
(* be read.                                                                *)
THEOREM AvailableIsLoaded ==
  ASSUME MaxReadFaults = 0
  PROVE  Spec => []AvailableMeansLoaded
<1>1. ASSUME GroupInv, LoadInv, Available PROVE UNION {RowsOf(w) : w \in Workers} = AllRows
  <2>1. rows \in Seq(Nat) /\ Grouped(rows, head.groups)
    BY Zenon, <1>1 DEF GroupInv
  <2>2. Complete(rows, head.groups)
    BY Zenon, <1>1 DEF LoadInv, Available, HeadReady
  <2>3. \A w \in Workers : Range(head.groups[w]) \in SUBSET Files
    BY Zenon, <2>1, FilesOfGroup DEF Files
  <2>4. ASSUME NEW w \in Workers
        PROVE  RowsOf(w) = UNION {Row(f) : f \in Range(head.groups[w])}
    <3>1. Holds(rows, table[w], Range(head.groups[w]))
      BY ZenonT(30), <1>1 DEF LoadInv, Available, WorkerReady, TableOf
    <3>2. RowsOf(w) = RowsOfFiles(rows, Range(head.groups[w]))
      BY Zenon, <3>1, RowsOfTable DEF RowsOf
    <3> QED BY Zenon, <2>1, <2>3, <3>2, RowsOfAFile
  <2>5. ASSUME NEW w \in Workers, NEW y \in RowsOf(w) PROVE y \in AllRows
    BY Zenon, <2>3, <2>4, <2>5 DEF AllRows
  <2>6. ASSUME NEW f \in Files, NEW y \in Row(f) PROVE \E w \in Workers : y \in RowsOf(w)
    <3>1. PICK w \in Workers : f \in Range(head.groups[w])
      BY Zenon, <2>2 DEF Complete, Files
    <3> QED BY Zenon, <2>4, <3>1
  <2> QED BY Zenon, <2>5, <2>6 DEF AllRows
<1>2. GroupInv /\ LoadInv => AvailableMeansLoaded
  BY Zenon, <1>1 DEF AvailableMeansLoaded
<1> QED BY <1>2, TablesHold, PTL

-----------------------------------------------------------------------------
(***************************************************************************)
(* The clients, until a restart loads the table anew.                      *)
(***************************************************************************)
From(g, w) == {y \in g : y[1] = w}

(* What client c with the rows g has of worker w, whose table is t: it     *)
(* still has to ask, it has the rows of its range, or there are none.      *)
HasRead(rws, groups, w, t, c, g) ==
  \/ w \in c.endpoints /\ c.pc = "Read" /\ From(g, w) = {}
  \/ w \notin c.endpoints /\ t # NoTable /\ From(g, w) = {w} \X Selected(t, c.range)
  \/ /\ w \notin c.endpoints /\ From(g, w) = {}
     /\ \A i \in Nat : /\ StartOf(rws, groups, w) <= i
                       /\ i < StartOf(rws, groups, w) + FileRows(rws, groups[w])
                       => ~InRange(i, c.range)

ClientState(r) ==
  \/ client[r].pc = "Wait" /\ got[r] = {}
  \/ /\ head.pc = "Serve" /\ client[r].pc = "Refused" /\ got[r] = {}
     /\ GetPartitionRange(head.total, world, r) = NoRange
  \/ /\ head.pc = "Serve" /\ client[r].pc \in {"Read", "Done"}
     /\ client[r].range = GetPartitionRange(head.total, world, r)
     /\ \A w \in Workers : HasRead(rows, head.groups, w, table[w], client[r], got[r])

ClientType == [pc : {"Wait", "Refused", "Read", "Done"}, endpoints : SUBSET Workers,
               range : [start : Int, end : Int]]

ReadInv ==
  /\ world \in Nat \ {0} /\ client \in [Ranks -> ClientType] /\ DOMAIN got = Ranks
  /\ faults.restart = 0 => \A r \in Ranks : ClientState(r)

LEMMA RangeType ==
  ASSUME NEW total \in Nat, NEW parts \in Nat \ {0}, NEW p \in 0 .. parts - 1
  PROVE  GetPartitionRange(total, parts, p) \in [start : Int, end : Int]
<1> DEFINE per == DivCeil(total, parts)
           start == p * per
<1>1. per \in Nat /\ start \in Nat
  BY SMTT(30), DivCeilEnough
<1>2. \/ GetPartitionRange(total, parts, p) = NoRange
      \/ GetPartitionRange(total, parts, p) =
           [start |-> start, end |-> AtMost(start + per, total) - 1]
  BY Zenon DEF GetPartitionRange
<1> HIDE DEF per, start
<1>3. AtMost(start + per, total) - 1 \in Int
  BY <1>1 DEF AtMost
<1> QED BY SMTT(30), <1>1, <1>2, <1>3 DEF NoRange

(* get_workers_to_connect leaves out only workers with no row of the range. *)
LEMMA NotConnected ==
  ASSUME GroupInv, NEW range \in [start : Int, end : Int],
         NEW w \in Workers, w \notin WorkersToConnect(range),
         NEW i \in Nat, StartOf(rows, head.groups, w) <= i,
         i < StartOf(rows, head.groups, w) + FileRows(rows, head.groups[w])
  PROVE  ~InRange(i, range)
<1> DEFINE s == StartOf(rows, head.groups, w)
           k == FileRows(rows, head.groups[w])
           e == EndIndex(head.groups, w)
<1>1. rows \in Seq(Nat) /\ Grouped(rows, head.groups)
  BY Zenon DEF GroupInv
<1>2. StartIndex(head.groups, w) = s /\ s \in Nat
  BY Zenon, <1>1, StartIndexIsStartOf
<1>3. e \in Nat /\ s + k <= e + 1
  BY Zenon, <1>1, EndOfGroup
<1>4. k \in Nat
  BY Zenon, <1>1, GroupSize
<1>5. head.groups[w] # <<>>
  <2>1. ASSUME head.groups[w] = <<>> PROVE k = 0
    <3>1. Range(head.groups[w]) = {}
      BY <2>1 DEF Range
    <3> QED BY Zenon, <3>1, TotalEmpty DEF FileRows
  <2> HIDE DEF s, k, e
  <2>2. k # 0
    BY SMTT(30), <1>2, <1>4 DEF s, k
  <2> QED BY Zenon, <2>1, <2>2 DEF k
<1>6. w \in Assigned(head.groups)
  BY Zenon, <1>5 DEF Assigned
<1>7. ~(s <= range.end /\ e >= range.start)
  BY Zenon, <1>2, <1>6 DEF WorkersToConnect
<1>8. s <= i /\ i < s + k
  BY Zenon
<1> HIDE DEF s, k, e
<1> QED BY SMTT(30), <1>2, <1>3, <1>4, <1>7, <1>8 DEF InRange

LEMMA InitClients ==
  Init => ReadInv
<1> SUFFICES ASSUME Init PROVE ReadInv
  BY Zenon
<1>1. world \in Nat \ {0} /\ client = [r \in Ranks |-> Waiting] /\ got = [r \in Ranks |-> {}]
  BY Zenon, CacheAssumption DEF Init
<1>2. Waiting \in ClientType /\ Waiting.pc = "Wait"
  BY DEF Waiting, ClientType, NoRange
<1>3. \A r \in Ranks : ClientState(r)
  BY Zenon, <1>1, <1>2 DEF ClientState
<1> QED BY Zenon, <1>1, <1>2, <1>3 DEF ReadInv

LEMMA NextClients ==
  ASSUME GroupInv, LoadInv, ReadInv, [Next]_vars
  PROVE  ReadInv'
<1>1. /\ world \in Nat \ {0} /\ client \in [Ranks -> ClientType] /\ DOMAIN got = Ranks
      /\ faults.restart = 0 => \A r \in Ranks : ClientState(r)
  BY Zenon DEF ReadInv
<1>2. head \in HeadType /\ faults \in FaultType
  BY Zenon DEF GroupInv
<1>3. ASSUME world' = world PROVE Ranks' = Ranks
  BY Zenon, <1>3 DEF Ranks
(* A step before the head serves: every client waits.                      *)
<1>4. ASSUME head.pc # "Serve", UNCHANGED <<world, client, got>>,
             faults'.restart = faults.restart
      PROVE  ReadInv'
  <2>1. ASSUME faults.restart = 0, NEW r \in Ranks PROVE ClientState(r)'
    <3>1. client[r].pc = "Wait" /\ got[r] = {}
      BY ZenonT(30), <1>1, <1>4, <2>1 DEF ClientState
    <3> QED BY Zenon, <1>4, <3>1 DEF ClientState
  <2> QED BY Zenon, <1>1, <1>3, <1>4, <2>1 DEF ReadInv
(* A table is loaded that no client has read from.                         *)
<1>5. ASSUME NEW w \in Workers, table[w] = NoTable, \A v \in Workers \ {w} : table'[v] = table[v],
             UNCHANGED <<rows, head, world, client, got>>, faults'.restart = faults.restart
      PROVE  ReadInv'
  <2>1. ASSUME faults.restart = 0, NEW r \in Ranks PROVE ClientState(r)'
    <3>1. ClientState(r)
      BY Zenon, <1>1, <2>1
    <3>2. ASSUME NEW v \in Workers, HasRead(rows, head.groups, v, table[v], client[r], got[r])
          PROVE  HasRead(rows, head.groups, v, table'[v], client[r], got[r])
      <4>1. CASE v = w
        BY Zenon, <1>5, <3>2, <4>1 DEF HasRead
      <4>2. CASE v # w
        BY ZenonT(30), <1>5, <3>2, <4>2
      <4> QED BY Zenon, <4>1, <4>2
    <3> QED BY Zenon, <1>5, <3>1, <3>2 DEF ClientState
  <2> QED BY Zenon, <1>1, <1>3, <1>5, <2>1 DEF ReadInv
(* A step of client r alone.                                               *)
<1>6. ASSUME NEW r \in Ranks, UNCHANGED <<rows, world, head, table, faults>>,
             client' \in [Ranks -> ClientType], DOMAIN got' = Ranks,
             \A q \in Ranks \ {r} : client'[q] = client[q] /\ got'[q] = got[q],
             faults.restart = 0 => ClientState(r)'
      PROVE  ReadInv'
  <2>1. ASSUME faults.restart = 0, NEW q \in Ranks PROVE ClientState(q)'
    <3>1. CASE q = r
      BY Zenon, <1>6, <2>1, <3>1
    <3>2. CASE q # r
      <4>1. ClientState(q) /\ client'[q] = client[q] /\ got'[q] = got[q]
        BY ZenonT(30), <1>1, <1>6, <2>1, <3>2
      <4> QED BY Zenon, <1>6, <4>1 DEF ClientState
    <3> QED BY Zenon, <3>1, <3>2
  <2> QED BY Zenon, <1>1, <1>3, <1>6, <2>1 DEF ReadInv
<1>7. CASE Plan
  <2>1. head.pc = "Plan" /\ UNCHANGED <<world, client, got>> /\ faults'.restart = faults.restart
    BY Zenon, <1>2, <1>7 DEF Plan, FaultType
  <2> QED BY Zenon, <1>4, <2>1
<1>8. CASE PlanFails
  <2>1. head.pc = "Plan" /\ UNCHANGED <<world, client, got>> /\ faults'.restart = faults.restart
    BY Zenon, <1>2, <1>8 DEF PlanFails, FaultType
  <2> QED BY Zenon, <1>4, <2>1
<1>9. CASE Distributed \/ AssignEmpty \/ Serve \/ \E w \in Workers : SendRecordBatch(w)
  <2>1. head.pc # "Serve" /\ UNCHANGED <<world, client, got, faults>>
    BY Zenon, <1>9 DEF Distributed, AssignEmpty, Serve, SendRecordBatch
  <2> QED BY Zenon, <1>4, <2>1
<1>16. ASSUME NEW w \in Workers, TryNewFails(w) PROVE ReadInv'
  <2>1. head.pc = "Distribute" /\ UNCHANGED <<world, client, got>>
    BY Zenon, <1>16 DEF TryNewFails
  <2>2. faults'.restart = faults.restart
    BY Zenon, <1>2, <1>16 DEF TryNewFails, FaultType
  <2> QED BY Zenon, <1>4, <2>1, <2>2
<1>10. ASSUME NEW w \in Workers, DoPut(w) \/ PutFails(w) PROVE ReadInv'
  <2>1. put[w] = "sent" /\ UNCHANGED <<rows, head, world, client, got>>
    BY Zenon, <1>10 DEF DoPut, PutFails
  <2>2. table[w] = NoTable /\ DOMAIN table = Workers
    BY Zenon, <2>1 DEF LoadInv
  <2>3. \A v \in Workers \ {w} : table'[v] = table[v]
    BY Zenon, <1>10, <2>2 DEF DoPut, PutFails
  <2>4. faults'.restart = faults.restart
    BY Zenon, <1>2, <1>10 DEF DoPut, PutFails, FaultType
  <2> QED BY Zenon, <1>5, <2>1, <2>2, <2>3, <2>4
<1>11. CASE Restart
  <2>1. faults'.restart # 0 /\ UNCHANGED <<world, client, got>>
    BY SMTT(30), <1>2, <1>11 DEF Restart, FaultType
  <2> QED BY Zenon, <1>1, <1>3, <2>1 DEF ReadInv
<1>12. CASE Release \/ UNCHANGED vars
  <2>1. UNCHANGED <<rows, world, head, table, client, got, faults>>
    BY Zenon, <1>12 DEF Release, vars
  <2>2. \A r \in Ranks : ClientState(r) => ClientState(r)'
    BY Zenon, <2>1 DEF ClientState
  <2> QED BY Zenon, <1>1, <1>3, <2>1, <2>2 DEF ReadInv
<1>13. ASSUME NEW r \in Ranks, GetFlightInfo(r) PROVE ReadInv'
  <2> DEFINE range == GetPartitionRange(head.total, world, r)
             read == [pc |-> "Read", endpoints |-> WorkersToConnect(range), range |-> range]
             refused == [Waiting EXCEPT !.pc = "Refused"]
  <2>1. UNCHANGED <<rows, world, head, table, faults, got>> /\ head.pc = "Serve"
    BY Zenon, <1>13 DEF GetFlightInfo, HeadReady
  <2>2. client' = [client EXCEPT ![r] = IF range = NoRange THEN refused ELSE read]
    BY Zenon, <1>13 DEF GetFlightInfo
  <2>3. range \in [start : Int, end : Int]
    BY Zenon, <1>1, <1>2, RangeType DEF Ranks, HeadType
  <2>4. WorkersToConnect(range) \subseteq Workers
    BY DEF WorkersToConnect, Assigned
  <2>5. refused \in ClientType /\ refused.pc = "Refused"
    BY DEF ClientType, Waiting, NoRange
  <2> HIDE DEF range, refused
  <2>6. read \in ClientType
    BY Zenon, <2>3, <2>4 DEF ClientType
  <2>7. client' \in [Ranks -> ClientType] /\ \A q \in Ranks \ {r} : client'[q] = client[q]
    BY Zenon, <1>1, <2>2, <2>5, <2>6
  <2>8. ASSUME faults.restart = 0 PROVE ClientState(r)'
    <3>1. got[r] = {}
      <4>1. ClientState(r) /\ client[r].pc = "Wait"
        BY Zenon, <1>1, <1>13, <2>8 DEF GetFlightInfo
      <4> QED BY Zenon, <4>1 DEF ClientState
    <3>2. CASE range = NoRange
      <4>1. client'[r].pc = "Refused"
        BY Zenon, <1>1, <2>2, <2>5, <3>2
      <4> QED BY Zenon, <2>1, <3>1, <3>2, <4>1 DEF ClientState, range
    <3>3. CASE range # NoRange
      <4>1. client'[r] = read
        BY Zenon, <1>1, <2>2, <3>3
      <4>2. ASSUME NEW w \in Workers
            PROVE  HasRead(rows, head.groups, w, table[w], read, got[r])
        <5>1. From(got[r], w) = {}
          BY Zenon, <3>1 DEF From
        <5>2. CASE w \in WorkersToConnect(range)
          BY Zenon, <5>1, <5>2 DEF HasRead
        <5>3. CASE w \notin WorkersToConnect(range)
          <6>1. \A i \in Nat : /\ StartOf(rows, head.groups, w) <= i
                               /\ i < StartOf(rows, head.groups, w) + FileRows(rows, head.groups[w])
                               => ~InRange(i, range)
            BY Zenon, <2>3, <5>3, NotConnected
          <6> QED BY Zenon, <5>1, <5>3, <6>1 DEF HasRead
        <5> QED BY Zenon, <5>2, <5>3
      <4>3. client'[r].pc = "Read" /\ client'[r].range = range
        BY SMTT(30), <4>1
      <4> QED BY ZenonT(30), <2>1, <4>1, <4>2, <4>3 DEF ClientState, range
    <3> QED BY Zenon, <3>2, <3>3
  <2> QED BY Zenon, <1>1, <1>6, <2>1, <2>7, <2>8
<1>14. ASSUME NEW r \in Ranks, DoGet(r) PROVE ReadInv'
  <2>1. UNCHANGED <<rows, world, head, table, faults>> /\ client[r].pc = "Read"
    BY Zenon, <1>14 DEF DoGet
  <2>2. PICK w \in client[r].endpoints :
          /\ WorkerReady(w)
          /\ got' = [got EXCEPT ![r] = @ \union ({w} \X Selected(table[w], client[r].range))]
          /\ client' = [client EXCEPT ![r].endpoints = @ \ {w}]
    BY Zenon, <1>14 DEF DoGet
  <2> DEFINE c == client[r]
             d == [client[r] EXCEPT !.endpoints = @ \ {w}]
             S == Selected(table[w], client[r].range)
  <2>3. c \in ClientType
    BY Zenon, <1>1
  <2>4. /\ d \in ClientType /\ d.pc = c.pc /\ d.range = c.range
        /\ d.endpoints = c.endpoints \ {w}
    BY Zenon, <2>3 DEF ClientType
  <2>5. client' = [client EXCEPT ![r] = d]
    BY Zenon, <2>2
  <2>6. /\ got' = [got EXCEPT ![r] = got[r] \union ({w} \X S)]
    BY Zenon, <2>2
  <2> HIDE DEF S, d
  <2>7. /\ client' \in [Ranks -> ClientType] /\ client'[r] = d
        /\ \A q \in Ranks \ {r} : client'[q] = client[q]
    BY Zenon, <1>1, <2>4, <2>5
  <2>8. /\ DOMAIN got' = Ranks /\ got'[r] = got[r] \union ({w} \X S)
        /\ \A q \in Ranks \ {r} : got'[q] = got[q]
    BY Zenon, <1>1, <2>6
  <2>9. ASSUME faults.restart = 0 PROVE ClientState(r)'
    <3>1. /\ head.pc = "Serve" /\ c.range = GetPartitionRange(head.total, world, r)
          /\ \A v \in Workers : HasRead(rows, head.groups, v, table[v], c, got[r])
      BY ZenonT(30), <1>1, <2>1, <2>9 DEF ClientState
    <3> HIDE DEF c
    <3>2. ASSUME NEW v \in Workers
          PROVE  HasRead(rows, head.groups, v, table[v], d, got'[r])
      <4>1. HasRead(rows, head.groups, v, table[v], c, got[r])
        BY Zenon, <3>1
      <4>2. CASE v = w
        <5>1. From(got[r], w) = {}
          BY Zenon, <2>2, <4>1, <4>2 DEF HasRead, c
        <5>2. From(got'[r], w) = {w} \X S
          BY Zenon, <2>8, <5>1 DEF From
        <5>3. table[w] # NoTable /\ w \notin d.endpoints
          BY Zenon, <2>2, <2>4 DEF WorkerReady
        <5> QED BY ZenonT(30), <2>4, <4>2, <5>2, <5>3 DEF HasRead, S, c
      <4>3. CASE v # w
        <5>1. From(got'[r], v) = From(got[r], v)
          BY Zenon, <2>8, <4>3 DEF From
        <5>2. v \in d.endpoints <=> v \in c.endpoints
          BY Zenon, <2>4, <4>3
        <5> QED BY ZenonT(30), <2>4, <4>1, <5>1, <5>2 DEF HasRead
      <4> QED BY Zenon, <4>2, <4>3
    <3>3. client'[r].pc = "Read" /\ client'[r].range = c.range
      BY Zenon, <2>1, <2>4, <2>7 DEF c
    <3> QED BY ZenonT(30), <2>1, <2>7, <3>1, <3>2, <3>3 DEF ClientState
  <2> QED BY ZenonT(30), <1>6, <2>1, <2>7, <2>8, <2>9
<1>15. ASSUME NEW r \in Ranks, ReadDone(r) PROVE ReadInv'
  <2> DEFINE c == client[r]
             d == [client[r] EXCEPT !.pc = "Done"]
  <2>1. /\ UNCHANGED <<rows, world, head, table, faults, got>>
        /\ c.pc = "Read" /\ c.endpoints = {} /\ client' = [client EXCEPT ![r] = d]
    BY Zenon, <1>15 DEF ReadDone
  <2>2. c \in ClientType
    BY Zenon, <1>1
  <2>3. d \in ClientType /\ d.pc = "Done" /\ d.range = c.range /\ d.endpoints = {}
    BY Zenon, <2>1, <2>2 DEF ClientType
  <2> HIDE DEF d
  <2>4. /\ client' \in [Ranks -> ClientType] /\ client'[r] = d
        /\ \A q \in Ranks \ {r} : client'[q] = client[q]
    BY Zenon, <1>1, <2>1, <2>3
  <2>5. ASSUME faults.restart = 0 PROVE ClientState(r)'
    <3>1. /\ head.pc = "Serve" /\ c.range = GetPartitionRange(head.total, world, r)
          /\ \A w \in Workers : HasRead(rows, head.groups, w, table[w], c, got[r])
      BY Zenon, <1>1, <2>1, <2>5 DEF ClientState
    <3> HIDE DEF c
    <3>2. \A w \in Workers : HasRead(rows, head.groups, w, table[w], d, got[r])
      BY Zenon, <2>1, <2>3, <3>1 DEF HasRead
    <3> QED BY ZenonT(30), <2>1, <2>3, <2>4, <3>1, <3>2 DEF ClientState
  <2> QED BY Zenon, <1>1, <1>6, <2>1, <2>4, <2>5
<1> QED BY Zenon, <1>7, <1>8, <1>9, <1>10, <1>11, <1>12, <1>13, <1>14, <1>15, <1>16
        DEF Next, Cluster, Clients

LEMMA CacheHolds ==
  ASSUME MaxReadFaults = 0
  PROVE  Spec => [](GroupInv /\ LoadInv /\ ReadInv)
<1>1. Init => ReadInv
  BY Zenon, InitClients
<1>2. (GroupInv /\ LoadInv) /\ ReadInv /\ [Next]_vars => ReadInv'
  BY Zenon, NextClients
<1> QED BY <1>1, <1>2, TablesHold, PTL DEF Spec

(* A client that has finished has the rows of its range from every worker. *)
LEMMA FinishedClient ==
  ASSUME GroupInv, ReadInv, Finished, faults.restart = 0, NEW r \in Ranks
  PROVE  /\ head.pc = "Serve"
         /\ \/ got[r] = {} /\ GetPartitionRange(head.total, world, r) = NoRange
            \/ \A w \in Workers :
                 \/ /\ table[w] # NoTable
                    /\ From(got[r], w) =
                         {w} \X Selected(table[w], GetPartitionRange(head.total, world, r))
                 \/ /\ From(got[r], w) = {}
                    /\ \A i \in Nat :
                         /\ StartOf(rows, head.groups, w) <= i
                         /\ i < StartOf(rows, head.groups, w) + FileRows(rows, head.groups[w])
                         => ~InRange(i, GetPartitionRange(head.total, world, r))
<1>1. ClientState(r) /\ client[r].pc \in {"Refused", "Done"}
  BY DEF ReadInv, Finished
<1>2. CASE client[r].pc = "Refused"
  BY Zenon, <1>1, <1>2 DEF ClientState
<1>3. CASE client[r].pc = "Done"
  <2>1. /\ head.pc = "Serve" /\ client[r].range = GetPartitionRange(head.total, world, r)
        /\ \A w \in Workers : HasRead(rows, head.groups, w, table[w], client[r], got[r])
    BY Zenon, <1>1, <1>3 DEF ClientState
  <2> QED BY Zenon, <1>3, <2>1 DEF HasRead
<1> QED BY ZenonT(30), <1>1, <1>2, <1>3

(* Once every client has read its partition, every row of the table was    *)
(* delivered exactly once: for every table, number of workers, number of   *)
(* clients and batch size, whichever do_put calls failed, as long as the   *)
(* data files can be read and the Pods did not restart (partition_tasks,   *)
(* get_partition_range, get_workers_to_connect, fetch_partitions, do_get). *)
THEOREM EpochIsExact ==
  ASSUME MaxReadFaults = 0
  PROVE  Spec => []EpochExact
<1>1. ASSUME GroupInv, LoadInv, ReadInv, Finished, faults.restart = 0, NEW row \in AllRows
      PROVE  Cardinality(Deliveries(row)) = 1
  <2> DEFINE R(r) == GetPartitionRange(head.total, world, r)
             F(w) == Range(head.groups[w])
             s(w) == StartOf(rows, head.groups, w)
             k(w) == FileRows(rows, head.groups[w])
  <2>1. rows \in Seq(Nat) /\ Grouped(rows, head.groups) /\ world \in Nat \ {0}
    BY Zenon, <1>1 DEF GroupInv, ReadInv
  <2>2. \A r \in Ranks :
          /\ head.pc = "Serve"
          /\ \/ got[r] = {} /\ R(r) = NoRange
             \/ \A w \in Workers :
                  \/ table[w] # NoTable /\ From(got[r], w) = {w} \X Selected(table[w], R(r))
                  \/ /\ From(got[r], w) = {}
                     /\ \A i \in Nat : s(w) <= i /\ i < s(w) + k(w) => ~InRange(i, R(r))
    BY Zenon, <1>1, FinishedClient
  <2>3. head.pc = "Serve"
    <3>1. 0 \in Ranks
      BY <2>1 DEF Ranks
    <3> QED BY Zenon, <2>2, <3>1
  <2>4. Complete(rows, head.groups) /\ Numbered(rows, head.groups, head.total)
    BY Zenon, <1>1, <2>3 DEF LoadInv
  <2>5. \A w \in Workers : table[w] # NoTable => TableOf(rows, head.groups, w, table[w])
    BY Zenon, <1>1 DEF LoadInv
  <2>6. head.total \in Nat
    BY Zenon, <2>4 DEF Numbered
  <2>7. \A r \in Ranks : R(r) \in [start : Int, end : Int]
    BY Zenon, <2>1, <2>6, RangeType DEF Ranks
  <2>8. PICK f \in Files : row \in Row(f)
    BY Zenon, <1>1 DEF AllRows
  <2>9. row[1] = f /\ row[2] \in 1 .. rows[f] /\ row = <<f, row[2]>>
    BY <2>8 DEF Row
  <2>10. PICK w \in Workers : f \in F(w)
    BY Zenon, <2>4, <2>8 DEF Complete, Files
  <2>11. \A v \in Workers : f \in F(v) => v = w
    <3>1. SUFFICES ASSUME NEW v \in Workers, f \in F(v) PROVE v = w
      BY Zenon
    <3>2. PICK i \in DOMAIN head.groups[w] : f = head.groups[w][i]
      BY Zenon, <2>10 DEF Range
    <3>3. PICK j \in DOMAIN head.groups[v] : f = head.groups[v][j]
      BY Zenon, <3>1 DEF Range
    <3>4. \A a, b \in Workers : \A x \in DOMAIN head.groups[a], y \in DOMAIN head.groups[b] :
            head.groups[a][x] = head.groups[b][y] => a = b
      BY Zenon, <2>1 DEF Grouped
    <3> QED BY Zenon, <3>1, <3>2, <3>3, <3>4
  <2>12. s(w) \in Nat /\ k(w) \in Nat /\ s(w) + k(w) <= head.total
    <3>1. s(w) \in Nat
      BY Zenon, <2>1, StartIndexIsStartOf
    <3>2. k(w) \in Nat
      BY Zenon, <2>1, GroupSize
    <3>3. head.groups[w] # <<>>
      BY <2>10 DEF Range
    <3> QED BY Zenon, <2>4, <3>1, <3>2, <3>3 DEF Numbered
  <2>13. k(w) # 0
    <3>1. head.groups[w] \in Seq(DOMAIN rows)
      BY Zenon, <2>1 DEF Grouped
    <3>2. rows[f] \in Nat /\ rows[f] # 0
      BY SMTT(30), <2>1, <2>8, <2>9 DEF Files
    <3>3. rows[f] <= k(w)
      BY Zenon, <2>1, <2>10, <3>1, FileInGroup
    <3> QED BY SMTT(30), <2>12, <3>2, <3>3
  (* A row number of the worker is in the range of a client that asked it. *)
  <2>14. ASSUME NEW i \in Nat, s(w) <= i, i < s(w) + k(w)
         PROVE  \E r \in Ranks :
                  /\ InRange(i, R(r)) /\ table[w] # NoTable
                  /\ From(got[r], w) = {w} \X Selected(table[w], R(r))
    <3>1. i \in 0 .. head.total - 1
      <4> HIDE DEF s, k
      <4> QED BY <2>6, <2>12, <2>14
    <3>2. PICK r \in Ranks : InRange(i, R(r))
      BY Zenon, <2>1, <2>6, <3>1, NoGap DEF Ranks
    <3>3. R(r) # NoRange
      BY Zenon, <3>2 DEF InRange
    <3> HIDE DEF R, s, k
    <3> QED BY ZenonT(30), <2>2, <2>14, <3>2, <3>3
  <2>15. table[w] # NoTable
    <3> HIDE DEF R, s, k
    <3>1. s(w) <= s(w) /\ s(w) < s(w) + k(w)
      BY <2>12, <2>13
    <3> QED BY Zenon, <2>12, <2>14, <3>1
  <2> DEFINE t == table[w]
             I(x) == CacheIndex(t, x[1], x[2])
  <2>16. Holds(rows, t, F(w)) /\ t.start = s(w)
    <3>1. head.groups[w] # <<>>
      BY <2>10 DEF Range
    <3> QED BY Zenon, <2>5, <2>15, <3>1 DEF TableOf
  <2>17. row \in RowsOfFiles(rows, F(w))
    BY <2>1, <2>8, <2>9, <2>10 DEF RowsOfFiles, Files
  <2>18. /\ \E x \in Places(t.batches) : At(t.batches, x) = row
         /\ \A x, y \in Places(t.batches) : At(t.batches, x) = At(t.batches, y) => x = y
    BY Zenon, <2>16, <2>17 DEF Holds, BatchesOf
  <2>19. PICK x \in Places(t.batches) : At(t.batches, x) = row
    BY Zenon, <2>18
  <2>20. I(x) \in Nat /\ s(w) <= I(x) /\ I(x) < s(w) + k(w)
    BY Zenon, <2>16, IndexInTable DEF FileRows
  <2>21. PICK r \in Ranks : InRange(I(x), R(r)) /\ From(got[r], w) = {w} \X Selected(t, R(r))
    BY Zenon, <2>14, <2>20
  <2>22. row \in Selected(t, R(r))
    <3>1. R(r).start \in Int /\ R(r).end \in Int
      BY Zenon, <2>7
    <3> HIDE DEF R
    <3> QED BY ZenonT(30), <2>16, <2>19, <2>21, <3>1, SelectedRows
  <2>23. <<r, w>> \in Deliveries(row)
    <3>1. <<w, row>> \in From(got[r], w)
      BY Zenon, <2>21, <2>22
    <3> QED BY Zenon, <3>1 DEF From, Deliveries
  <2>24. ASSUME NEW q \in Ranks, NEW v \in Workers, <<v, row>> \in got[q]
         PROVE  q = r /\ v = w
    <3>1. <<v, row>> \in From(got[q], v)
      BY Zenon, <2>24 DEF From
    <3>2. table[v] # NoTable /\ row \in Selected(table[v], R(q))
      <4> HIDE DEF R, s, k
      <4>1. table[v] # NoTable /\ From(got[q], v) = {v} \X Selected(table[v], R(q))
        BY Zenon, <2>2, <2>24, <3>1
      <4> QED BY <3>1, <4>1
    <3>3. Holds(rows, table[v], F(v))
      BY Zenon, <2>5, <3>2 DEF TableOf
    <3>4. PICK y \in Places(table[v].batches) :
            /\ At(table[v].batches, y) = row
            /\ InRange(CacheIndex(table[v], y[1], y[2]), R(q))
      <4>1. R(q).start \in Int /\ R(q).end \in Int
        BY <2>7
      <4> HIDE DEF R
      <4> QED BY ZenonT(30), <3>2, <3>3, <4>1, SelectedRows
    <3>5. row \in RowsOfFiles(rows, F(v))
      BY Zenon, <3>3, <3>4 DEF Holds, BatchesOf
    <3>6. v = w
      BY ZenonT(30), <2>9, <2>11, <3>5 DEF RowsOfFiles
    <3>7. y = x
      BY Zenon, <2>18, <2>19, <3>4, <3>6
    <3>8. InRange(I(x), R(q))
      BY Zenon, <3>4, <3>6, <3>7
    <3>9. q = r
      BY ZenonT(30), <2>1, <2>6, <2>20, <2>21, <3>8, NoOverlap DEF Ranks
    <3> QED BY Zenon, <3>6, <3>9
  <2>25. Deliveries(row) = {<<r, w>>}
    <3>1. ASSUME NEW z \in Deliveries(row) PROVE z = <<r, w>>
      <4>1. z \in Ranks \X Workers /\ <<z[2], row>> \in got[z[1]]
        BY Zenon, <3>1 DEF Deliveries
      <4> QED BY SMTT(30), <2>24, <4>1
    <3> QED BY Zenon, <2>23, <3>1
  <2> QED BY ZenonT(30), <2>25, FS_Singleton
<1>2. GroupInv /\ LoadInv /\ ReadInv => EpochExact
  BY <1>1 DEF EpochExact
<1> QED BY <1>2, CacheHolds, PTL
=============================================================================
