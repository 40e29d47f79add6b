--------------------------- MODULE BuildPhaseProofs ---------------------------
(***************************************************************************)
(* The build phase for every runtime template and every TrainJob: what the *)
(* webhooks admit can be built, and the JobSet, the PodGroup, the hostfile *)
(* and the world the ML framework is told agree.                           *)
(***************************************************************************)
EXTENDS BuildPhase, InductionLemmas

-----------------------------------------------------------------------------
(***************************************************************************)
(* The order of the jobs.                                                  *)
(***************************************************************************)
LEMMA MaxOfTwo ==
  ASSUME NEW a \in Int, NEW b \in Int
  PROVE  Max({a, b}) = IF a >= b THEN a ELSE b
<1> DEFINE S == {a, b}
           m == IF a >= b THEN a ELSE b
<1>1. m \in S /\ \A y \in S : m >= y
  OBVIOUS
<1>2. Max(S) \in S /\ \A y \in S : Max(S) >= y
  BY <1>1, Zenon DEF Max
<1> QED BY <1>1, <1>2

LEMMA OrderIs ==
  ASSUME runtime \in RuntimeSpecs, DistinctNames(runtime), NEW name
  PROVE  /\ \A i \in DOMAIN runtime.jobs : runtime.jobs[i].name = name => Order(name) = i
         /\ (\A i \in DOMAIN runtime.jobs : runtime.jobs[i].name # name) => Order(name) = 1
         /\ Order(name) \in Nat
<1> DEFINE js == runtime.jobs
           M == {i \in DOMAIN js : js[i].name = name}
<1>1. DOMAIN js = 1 .. Len(js) /\ Len(js) \in Nat
  BY DEF RuntimeSpecs
<1>2. ASSUME NEW i \in DOMAIN js, js[i].name = name PROVE Order(name) = i /\ i \in Nat
  <2>1. M = {i}
    BY Zenon, <1>2 DEF DistinctNames
  <2>2. M \union {1} = {i, 1} /\ i \in Int /\ i >= 1
    BY <1>1, <2>1
  <2>3. Max({i, 1}) = i
    BY <2>2, MaxOfTwo
  <2> QED BY <2>2, <2>3 DEF Order
<1>3. ASSUME \A i \in DOMAIN js : js[i].name # name PROVE Order(name) = 1
  <2>1. M \union {1} = {1, 1}
    BY Zenon, <1>3
  <2>2. Max({1, 1}) = 1
    BY MaxOfTwo
  <2> QED BY Zenon, <2>1, <2>2 DEF Order
<1>4. Order(name) \in Nat
  BY <1>2, <1>3
<1> QED BY Zenon, <1>2, <1>3, <1>4

(* The stable sort is a permutation into the order of the template.        *)
LEMMA SortedMerge ==
  ASSUME runtime \in RuntimeSpecs, DistinctNames(runtime),
         NEW n \in Nat, NEW merged, DOMAIN merged = 1 .. n
  PROVE  \E q \in Bijection(1 .. n, 1 .. n) :
           /\ RestoreOrder(merged) = [v \in 1 .. n |-> merged[q[v]]]
           /\ \A v, w \in 1 .. n :
                v < w => Order(merged[q[v]].name) <= Order(merged[q[w]].name)
<1> DEFINE D == 1 .. n
           o == [i \in D |-> Order(merged[i].name)]
           B(i, k) == o[i] < o[k] \/ (o[i] = o[k] /\ i <= k)
           S(k) == {i \in D : B(i, k)}
           Place == [k \in D |-> Cardinality(S(k))]
           q == [v \in D |-> CHOOSE k \in D : Place[k] = v]
<1>1. o \in [D -> Nat]
  BY Zenon, OrderIs
<1>2. IsFiniteSet(D) /\ Cardinality(D) = n
  BY FS_Interval
<1> HIDE DEF o
<1>3. ASSUME NEW k \in D
      PROVE  IsFiniteSet(S(k)) /\ Cardinality(S(k)) \in 1 .. n /\ k \in S(k)
  <2>1. k \in S(k) /\ S(k) \subseteq D
    BY <1>1
  <2>2. IsFiniteSet(S(k)) /\ Cardinality(S(k)) \in Nat /\ Cardinality(S(k)) <= n
    <3> HIDE DEF S
    <3> QED BY <1>2, <2>1, FS_Subset, FS_CardinalityType
  <2>3. Cardinality(S(k)) # 0
    <3> HIDE DEF S
    <3> QED BY Zenon, <2>1, <2>2, FS_EmptySet
  <2> HIDE DEF S
  <2> QED BY <2>1, <2>2, <2>3
<1>4. ASSUME NEW i \in D, NEW k \in D, B(i, k), i # k
      PROVE  Cardinality(S(i)) < Cardinality(S(k))
  <2>1. S(i) \subseteq S(k) /\ k \notin S(i)
    BY <1>1, <1>4
  <2>2. k \in S(k) /\ IsFiniteSet(S(k)) /\ Cardinality(S(k)) \in Nat /\ Cardinality(S(i)) \in Nat
    <3> HIDE DEF S
    <3> QED BY <1>3
  <2> HIDE DEF S
  <2>3. Cardinality(S(i)) <= Cardinality(S(k)) /\ (Cardinality(S(i)) = Cardinality(S(k)) => S(i) = S(k))
    BY Zenon, <2>1, <2>2, FS_Subset
  <2> QED BY <2>1, <2>2, <2>3
<1>5. \A i, k \in D : B(i, k) \/ B(k, i)
  BY <1>1
<1> HIDE DEF B
<1>6. \A k \in D : Place[k] = Cardinality(S(k)) /\ Place[k] \in D
  BY Zenon, <1>3
<1> HIDE DEF S
<1>7. Place \in [D -> D]
  BY Zenon, <1>6
<1> HIDE DEF Place
<1>8. \A i, k \in D : i # k => Place[i] # Place[k]
  <2> SUFFICES ASSUME NEW i \in D, NEW k \in D, i # k PROVE Place[i] # Place[k]
    BY Zenon
  <2>1. Place[i] < Place[k] \/ Place[k] < Place[i]
    BY Zenon, <1>4, <1>5, <1>6
  <2> QED BY <1>6, <2>1
<1>9. \A v \in D : \E k \in D : Place[k] = v
  <2> DEFINE I == {Place[k] : k \in D}
  <2>1. Place \in Bijection(D, I)
    <3>1. Place \in [D -> I]
      BY Zenon, <1>7
    <3>2. \A v \in I : \E k \in D : Place[k] = v
      BY Zenon
    <3> HIDE DEF I
    <3> QED BY Zenon, <1>8, <3>1, <3>2 DEF Bijection, Injection, Surjection, IsInjective
  <2>2. I \subseteq D
    BY Zenon, <1>6
  <2> HIDE DEF I
  <2>3. IsFiniteSet(I) /\ Cardinality(I) = Cardinality(D)
    BY Zenon, <1>2, <2>1, FS_Bijection DEF ExistsBijection
  <2>4. I = D
    BY Zenon, <1>2, <2>2, <2>3, FS_Subset
  <2> QED BY Zenon, <2>4 DEF I
<1>10. \A v \in D : q[v] \in D /\ Place[q[v]] = v
  BY Zenon, <1>9
<1>11. RestoreOrder(merged) = [v \in D |-> merged[q[v]]]
  <2>1. \A k \in D : Place[k] = Cardinality({i \in D : \/ Order(merged[i].name) < Order(merged[k].name)
                                                        \/ /\ Order(merged[i].name) = Order(merged[k].name)
                                                           /\ i <= k})
    <3> SUFFICES ASSUME NEW k \in D
                 PROVE  S(k) = {i \in D : \/ Order(merged[i].name) < Order(merged[k].name)
                                          \/ /\ Order(merged[i].name) = Order(merged[k].name)
                                             /\ i <= k}
      BY Zenon, <1>6
    <3>1. \A i \in D : o[i] = Order(merged[i].name)
      BY Zenon DEF o
    <3> QED BY Zenon, <3>1 DEF S, B
  <2>2. \A v \in D : q[v] = CHOOSE k \in D :
          Cardinality({i \in D : \/ Order(merged[i].name) < Order(merged[k].name)
                                 \/ /\ Order(merged[i].name) = Order(merged[k].name)
                                    /\ i <= k}) = v
    BY <2>1
  <2> DEFINE C(k) == Cardinality({i \in D : \/ Order(merged[i].name) < Order(merged[k].name)
                                            \/ /\ Order(merged[i].name) = Order(merged[k].name)
                                               /\ i <= k})
  <2>3. RestoreOrder(merged) = [v \in D |-> merged[CHOOSE k \in D : C(k) = v]]
    BY DEF RestoreOrder
  <2>4. \A v \in D : q[v] = CHOOSE k \in D : C(k) = v
    BY Zenon, <2>2
  <2> HIDE DEF q, C
  <2> QED BY Zenon, <2>3, <2>4
<1>12. q \in Bijection(D, D)
  <2>1. q \in [D -> D]
    BY Zenon, <1>9
  <2>2. \A v, w \in D : q[v] = q[w] => v = w
    BY Zenon, <1>10
  <2>3. \A k \in D : \E v \in D : q[v] = k
    <3> SUFFICES ASSUME NEW k \in D PROVE q[Place[k]] = k
      BY Zenon, <1>6
    <3>1. Place[k] \in D
      BY Zenon, <1>6
    <3>2. q[Place[k]] \in D /\ Place[q[Place[k]]] = Place[k]
      BY Zenon, <1>10, <3>1
    <3> QED BY Zenon, <1>8, <3>2
  <2> HIDE DEF q
  <2> QED BY Zenon, <2>1, <2>2, <2>3 DEF Bijection, Injection, Surjection, IsInjective
<1> HIDE DEF q
<1>13. ASSUME NEW v \in D, NEW w \in D, v < w
       PROVE  Order(merged[q[v]].name) <= Order(merged[q[w]].name)
  <2>1. q[v] \in D /\ q[w] \in D /\ Place[q[v]] = v /\ Place[q[w]] = w
    BY Zenon, <1>10
  <2>2. ~B(q[w], q[v]) \/ q[v] = q[w]
    <3> SUFFICES ASSUME B(q[w], q[v]), q[v] # q[w] PROVE FALSE
      BY Zenon
    <3>1. Place[q[w]] < Place[q[v]]
      BY Zenon, <1>4, <1>6, <2>1
    <3> QED BY <1>13, <2>1, <3>1
  <2>3. B(q[v], q[w])
    BY Zenon, <1>5, <2>1, <2>2
  <2>4. o[q[v]] <= o[q[w]]
    BY <1>1, <2>1, <2>3 DEF B
  <2> QED BY Zenon, <2>1, <2>4 DEF o
<1> QED BY Zenon, <1>11, <1>12, <1>13

Replicated(rt) == \A i \in DOMAIN rt.jobs : rt.jobs[i].replicas >= 1

(* A merged template is a permutation of the template, or of it and the    *)
(* added job, that keeps the template's jobs in their order.               *)
Extended(js, ext) ==
  /\ ext \in Seq(ReplicatedJobs) /\ Len(ext) >= Len(js)
  /\ \A i \in 1 .. Len(ext) : ext[i] = IF i <= Len(js) THEN js[i] ELSE AddedJob
  /\ Len(ext) <= Len(js) + 1
Rearranged(js, ext, s, new) ==
  /\ s \in Bijection(1 .. Len(ext), 1 .. Len(ext))
  /\ new = [v \in 1 .. Len(ext) |-> ext[s[v]]]
  /\ \A v, w \in 1 .. Len(ext) : v < w /\ s[v] <= Len(js) /\ s[w] <= Len(js) => s[v] <= s[w]

LEMMA BijectionParts ==
  ASSUME NEW D, NEW f
  PROVE  f \in Bijection(D, D) <=>
           /\ f \in [D -> D] /\ \A i, k \in D : f[i] = f[k] => i = k
           /\ \A k \in D : \E i \in D : f[i] = k
<1>1. f \in [D -> D] => DOMAIN f = D
  OBVIOUS
<1> QED BY Zenon, <1>1 DEF Bijection, Injection, Surjection, IsInjective

LEMMA MergedIsRearranged ==
  ASSUME runtime \in RuntimeSpecs, DistinctNames(runtime), NEW merged \in Merges(runtime.jobs)
  PROVE  \E ext, s : Extended(runtime.jobs, ext)
                     /\ Rearranged(runtime.jobs, ext, s, RestoreOrder(merged))
<1> DEFINE js == runtime.jobs
           r == RestoreOrder(merged)
<1>1. js \in Seq(ReplicatedJobs) /\ Len(js) \in Nat /\ DOMAIN js = 1 .. Len(js)
  BY DEF RuntimeSpecs
<1>2. AddedJob \in ReplicatedJobs
  BY DEF AddedJob, ReplicatedJobs, JobNames, Ancestors, Unset
<1>3. PICK ext \in Seq(ReplicatedJobs) : Extended(js, ext) /\ merged \in Reorderings(ext)
  <2>1. Extended(js, js) /\ Append(js, AddedJob) \in Seq(ReplicatedJobs)
        /\ Extended(js, Append(js, AddedJob))
    <3> HIDE DEF js
    <3> HIDE DEF AddedJob
    <3> QED BY <1>1, <1>2 DEF Extended
  <2> QED BY Zenon, <1>1, <2>1 DEF Merges
<1> DEFINE n == Len(ext)
           D == 1 .. n
<1>4. n \in Nat /\ DOMAIN ext = D
  BY <1>3
<1>5. PICK p \in Bijection(D, D) : merged = [i \in D |-> ext[p[i]]]
  BY Zenon, <1>3, <1>4 DEF Reorderings
<1> HIDE DEF n
<1>6. DOMAIN merged = D /\ \A i \in D : merged[i] = ext[p[i]]
  BY Zenon, <1>5
<1>7. PICK q \in Bijection(D, D) :
        /\ r = [v \in D |-> merged[q[v]]]
        /\ \A v, w \in D : v < w => Order(merged[q[v]].name) <= Order(merged[q[w]].name)
  BY Zenon, <1>4, <1>6, SortedMerge
<1> DEFINE s == [v \in D |-> p[q[v]]]
<1>8. /\ p \in [D -> D] /\ \A i, k \in D : p[i] = p[k] => i = k
      /\ \A k \in D : \E i \in D : p[i] = k
      /\ q \in [D -> D] /\ \A i, k \in D : q[i] = q[k] => i = k
      /\ \A k \in D : \E i \in D : q[i] = k
  BY Zenon, BijectionParts
<1>9. s \in Bijection(D, D)
  <2>1. s \in [D -> D] /\ \A v \in D : s[v] = p[q[v]]
    BY Zenon, <1>8
  <2>2. \A i, k \in D : s[i] = s[k] => i = k
    BY Zenon, <1>8, <2>1
  <2>3. ASSUME NEW k \in D PROVE \E i \in D : s[i] = k
    <3>1. PICK j \in D : p[j] = k
      BY Zenon, <1>8
    <3>2. PICK i \in D : q[i] = j
      BY Zenon, <1>8
    <3>3. s[i] = k
      BY Zenon, <2>1, <3>1, <3>2
    <3> QED BY Zenon, <3>3
  <2> HIDE DEF s
  <2> QED BY Zenon, <2>1, <2>2, <2>3, BijectionParts
<1>10. \A v \in D : s[v] \in D /\ merged[q[v]] = ext[s[v]]
  BY Zenon, <1>6, <1>8
<1>11. r = [v \in D |-> ext[s[v]]]
  BY Zenon, <1>7, <1>10
<1> HIDE DEF s, r
<1>12. \A i \in D : i <= Len(js) => Order(ext[i].name) = i
  <2> SUFFICES ASSUME NEW i \in D, i <= Len(js) PROVE Order(ext[i].name) = i
    BY Zenon
  <2>1. i \in DOMAIN js /\ ext[i] = js[i]
    BY <1>1, <1>3, <1>4 DEF Extended, n
  <2> QED BY Zenon, <2>1, OrderIs
<1>13. ASSUME NEW v \in D, NEW w \in D, v < w, s[v] <= Len(js), s[w] <= Len(js)
       PROVE  s[v] <= s[w]
  <2>1. Order(merged[q[v]].name) <= Order(merged[q[w]].name)
    BY Zenon, <1>7, <1>13
  <2> QED BY Zenon, <1>10, <1>12, <1>13, <2>1
<1>14. Rearranged(js, ext, s, r)
  BY Zenon, <1>9, <1>11, <1>13 DEF Rearranged, n
<1> QED BY Zenon, <1>3, <1>14 DEF r

(* What the patches leave is a template of the same conventions.           *)
LEMMA MergedIsWellFormed ==
  ASSUME NEW rt \in RuntimeSpecs, WellFormed(rt), Replicated(rt),
         \A i \in DOMAIN rt.jobs : rt.jobs[i].name # AddedJob.name,
         NEW ext, NEW s, NEW js, Extended(rt.jobs, ext), Rearranged(rt.jobs, ext, s, js)
  PROVE  LET new == [rt EXCEPT !.jobs = js]
         IN new \in RuntimeSpecs /\ WellFormed(new) /\ Replicated(new)
<1> DEFINE old == rt.jobs
           m == Len(old)
           n == Len(ext)
           D == 1 .. n
           new == [rt EXCEPT !.jobs = js]
<1>1. old \in Seq(ReplicatedJobs) /\ m \in Nat /\ DOMAIN old = 1 .. m
  BY DEF RuntimeSpecs
<1>2. /\ ext \in Seq(ReplicatedJobs) /\ n \in Nat /\ m <= n /\ n <= m + 1
      /\ \A i \in D : ext[i] \in ReplicatedJobs /\ ext[i] = IF i <= m THEN old[i] ELSE AddedJob
  BY <1>1 DEF Extended
<1>3. js = [v \in D |-> ext[s[v]]]
  BY Zenon DEF Rearranged
<1>4. /\ s \in [D -> D] /\ \A i, k \in D : s[i] = s[k] => i = k
      /\ \A k \in D : \E i \in D : s[i] = k
  BY Zenon, BijectionParts DEF Rearranged
<1>5. /\ new.jobs = js /\ new.policy = rt.policy /\ new.numNodes = rt.numNodes
      /\ new.subdomain = rt.subdomain
  BY Zenon DEF RuntimeSpecs
<1>6. \A v, w \in D : v < w /\ s[v] <= m /\ s[w] <= m => s[v] <= s[w]
  BY Zenon DEF Rearranged
<1> HIDE DEF m, n
<1>7. DOMAIN js = D /\ \A v \in D : js[v] = ext[s[v]] /\ s[v] \in D
  BY Zenon, <1>3, <1>4
<1>8. js \in Seq(ReplicatedJobs)
  BY <1>2, <1>3, <1>4
<1>9. new \in RuntimeSpecs
  BY Zenon, <1>8 DEF RuntimeSpecs
<1>10. \A i \in D : i \in 1 .. m \/ i = m + 1
  BY <1>1, <1>2
<1>11. /\ \A i \in 1 .. m : i \in D /\ ext[i] = old[i] /\ i # m + 1 /\ i <= m
       /\ m + 1 \in D => ext[m + 1] = AddedJob
  BY SMTT(30), <1>1, <1>2
<1>12. /\ AddedJob.ancestor # "trainer" /\ AddedJob.dependsOn = {} /\ AddedJob.parallelism = Unset
       /\ AddedJob.replicas = 1 /\ AddedJob.name = "other" /\ Unset # 0
  BY DEF AddedJob, Unset
<1> HIDE DEF D, old, new
<1>13. WellFormed(rt)
  OBVIOUS
<1>14. DistinctNames(new)
  <2>1. \A i, k \in 1 .. m : old[i].name = old[k].name => i = k
    BY Zenon, <1>1 DEF WellFormed, DistinctNames, old
  <2>2. \A i \in 1 .. m : old[i].name # AddedJob.name
    BY Zenon, <1>1 DEF old
  <2>3. \A i, k \in D : ext[i].name = ext[k].name => i = k
    BY Zenon, <1>10, <1>11, <2>1, <2>2
  <2>4. ASSUME NEW i \in D, NEW k \in D, js[i].name = js[k].name PROVE i = k
    <3>1. s[i] \in D /\ s[k] \in D /\ ext[s[i]].name = ext[s[k]].name
      BY Zenon, <1>7, <2>4
    <3>2. s[i] = s[k]
      BY Zenon, <2>3, <3>1
    <3> QED BY Zenon, <1>4, <3>2
  <2> QED BY Zenon, <1>5, <1>7, <2>4 DEF DistinctNames
<1>15. DependsOnPreceding(new)
  <2> SUFFICES ASSUME NEW v \in D, NEW dep \in js[v].dependsOn
               PROVE  \E w \in 1 .. v - 1 : js[w].name = dep[1]
    BY Zenon, <1>5, <1>7 DEF DependsOnPreceding
  <2>1. s[v] \in 1 .. m /\ js[v] = old[s[v]]
    BY Zenon, <1>7, <1>10, <1>11, <1>12
  <2>2. PICK k \in 1 .. s[v] - 1 : old[k].name = dep[1]
    BY Zenon, <1>1, <2>1 DEF WellFormed, DependsOnPreceding, old
  <2>3. k \in 1 .. m /\ k < s[v] /\ s[v] <= m /\ k <= m
    BY <1>1, <2>1, <2>2
  <2>4. PICK w \in D : s[w] = k
    BY Zenon, <1>4, <1>11, <2>3
  <2>5. js[w].name = dep[1]
    BY Zenon, <1>7, <1>11, <2>2, <2>3, <2>4
  <2>6. v \in Int /\ w \in Int /\ w >= 1
    BY <1>2 DEF D
  <2>7. ~(v < w)
    BY <1>6, <2>1, <2>3, <2>4
  <2>8. v # w
    BY <2>1, <2>3, <2>4
  <2>9. w \in 1 .. v - 1
    BY <2>6, <2>7, <2>8
  <2> QED BY Zenon, <2>5, <2>9
<1>16. NoEmptyJob(new)
  <2>1. \A i \in 1 .. m : old[i].parallelism # 0
    BY Zenon, <1>1 DEF WellFormed, NoEmptyJob, old
  <2>2. \A i \in D : ext[i].parallelism # 0
    BY Zenon, <1>10, <1>11, <1>12, <2>1
  <2> QED BY Zenon, <1>5, <1>7, <2>2 DEF NoEmptyJob
<1>17. OneTrainer(new)
  <2>1. PICK t \in 1 .. m :
          /\ {k \in 1 .. m : old[k].ancestor = "trainer"} = {t}
          /\ old[t].name = "node" \/ (rt.policy = "MPI" /\ old[t].name = "launcher")
    BY Zenon, <1>1 DEF WellFormed, OneTrainer, old
  <2>2. \A i \in D : ext[i].ancestor = "trainer" <=> i = t
    <3>1. \A i \in 1 .. m : old[i].ancestor = "trainer" <=> i = t
      BY Zenon, <2>1
    <3> QED BY Zenon, <1>10, <1>11, <1>12, <3>1
  <2>3. PICK v \in D : s[v] = t
    BY Zenon, <1>4, <1>11
  <2>4. {k \in D : js[k].ancestor = "trainer"} = {v}
    <3>1. ASSUME NEW k \in D PROVE js[k].ancestor = "trainer" <=> k = v
      <4>1. js[k].ancestor = "trainer" <=> s[k] = t
        BY Zenon, <1>7, <2>2
      <4>2. s[k] = t <=> k = v
        BY Zenon, <1>4, <2>3
      <4> QED BY Zenon, <4>1, <4>2
    <3> QED BY Zenon, <3>1
  <2>5. js[v] = old[t]
    BY Zenon, <1>7, <1>11, <2>3
  <2> QED BY Zenon, <1>5, <1>7, <2>1, <2>4, <2>5 DEF OneTrainer
<1>18. MeetsInDefault(new)
  BY Zenon, <1>5 DEF WellFormed, MeetsInDefault
<1>19. OneLauncherPod(new)
  <2> SUFFICES ASSUME new.policy = "MPI"
               PROVE  /\ \E i \in D : js[i].name = "node"
                      /\ new.numNodes \in {Unset, 1}
                      /\ \A i \in D : js[i].name = "launcher" => js[i].parallelism \in {Unset, 1}
    BY Zenon, <1>5, <1>7 DEF OneLauncherPod
  <2>1. /\ \E i \in 1 .. m : old[i].name = "node"
        /\ rt.numNodes \in {Unset, 1}
        /\ \A i \in 1 .. m : old[i].name = "launcher" => old[i].parallelism \in {Unset, 1}
    BY Zenon, <1>1, <1>5 DEF WellFormed, OneLauncherPod, old
  <2>2. PICK t \in 1 .. m : old[t].name = "node"
    BY Zenon, <2>1
  <2>3. PICK v \in D : s[v] = t
    BY Zenon, <1>4, <1>11
  <2>4. js[v].name = "node"
    BY Zenon, <1>7, <1>11, <2>2, <2>3
  <2>5. \A i \in D : ext[i].name = "launcher" => ext[i].parallelism \in {Unset, 1}
    BY Zenon, <1>10, <1>11, <1>12, <2>1
  <2>6. ASSUME NEW i \in D, js[i].name = "launcher" PROVE js[i].parallelism \in {Unset, 1}
    <3>1. s[i] \in D /\ js[i] = ext[s[i]]
      BY Zenon, <1>7
    <3>2. ext[s[i]].name = "launcher"
      BY Zenon, <2>6, <3>1
    <3>3. ext[s[i]].parallelism \in {Unset, 1}
      BY Zenon, <2>5, <3>1, <3>2
    <3> QED BY Zenon, <3>1, <3>3
  <2> QED BY Zenon, <1>5, <2>1, <2>4, <2>6
<1>20. Replicated(new)
  <2>1. \A i \in 1 .. m : old[i].replicas >= 1
    BY Zenon, <1>1 DEF Replicated, old
  <2>2. \A i \in D : ext[i].replicas >= 1
    BY <1>10, <1>11, <1>12, <2>1
  <2> QED BY Zenon, <1>5, <1>7, <2>2 DEF Replicated
<1> QED BY Zenon, <1>9, <1>14, <1>15, <1>16, <1>17, <1>18, <1>19, <1>20 DEF WellFormed, new

-----------------------------------------------------------------------------
(***************************************************************************)
(* The sizes of the PodSets, as functions of the inputs.                   *)
(***************************************************************************)
PodSetType == [name : JobNames, ancestor : Ancestors, count : Nat, gpus : Nat]

CountOf(rt, job) ==
  Max({IF job.ancestor = "trainer" /\ rt.policy # "None" THEN Deref(rt.numNodes, 1)
       ELSE Deref(job.parallelism, 1) * job.replicas, 1})

FirstTrainer(rt, i) ==
  /\ i \in DOMAIN rt.jobs /\ rt.jobs[i].ancestor = "trainer"
  /\ \A k \in 1 .. i - 1 : rt.jobs[k].ancestor # "trainer"

(* The PodSet that gets the nodes of the TrainJob, and how many.           *)
IsTarget(rt, i) ==
  IF rt.policy = "MPI" THEN i \in DOMAIN rt.jobs /\ rt.jobs[i].name = "node"
  ELSE FirstTrainer(rt, i)
Asked(rt, tr) ==
  IF rt.policy = "MPI" /\ rt.launcherAsNode /\ tr.numNodes # Unset
  THEN Max({tr.numNodes - 1, 1}) ELSE tr.numNodes
SizeOf(rt, tr, i) ==
  IF Asked(rt, tr) # Unset /\ IsTarget(rt, i) THEN Asked(rt, tr) ELSE CountOf(rt, rt.jobs[i])

LEMMA CountType ==
  ASSUME NEW rt \in RuntimeSpecs, NEW job \in ReplicatedJobs
  PROVE  CountOf(rt, job) \in Nat \ {0}
<1> DEFINE n == IF job.ancestor = "trainer" /\ rt.policy # "None" THEN Deref(rt.numNodes, 1)
                ELSE Deref(job.parallelism, 1) * job.replicas
<1>1. job.replicas \in Nat /\ Deref(job.parallelism, 1) \in Nat
  BY DEF ReplicatedJobs, Deref, Unset
<1>2. Deref(rt.numNodes, 1) \in Nat
  BY DEF RuntimeSpecs, Deref, Unset
<1>3. Deref(job.parallelism, 1) * job.replicas \in Nat
  BY <1>1
<1>4. n \in Nat
  BY <1>2, <1>3
<1>5. CountOf(rt, job) = Max({n, 1})
  BY DEF CountOf
<1> HIDE DEF n
<1>6. Max({n, 1}) \in Nat \ {0}
  BY <1>4, MaxOfTwo
<1> QED BY <1>5, <1>6

LEMMA CountIsPodCount ==
  ASSUME NEW job
  PROVE  Max({PodCount(job), 1}) = CountOf(runtime, job)
BY DEF PodCount, CountOf, IsTrainer

LEMMA AskedType ==
  ASSUME NEW rt, NEW tr \in TrainerSpecs
  PROVE  /\ Asked(rt, tr) \in Nat \union {Unset} /\ (Asked(rt, tr) = Unset <=> tr.numNodes = Unset)
         /\ rt.policy = "MPI" /\ rt.launcherAsNode /\ tr.numNodes >= 2 =>
              Asked(rt, tr) = tr.numNodes - 1
<1>1. tr.numNodes \in Nat \union {Unset}
  BY DEF TrainerSpecs
<1>2. ASSUME tr.numNodes \in Nat
      PROVE  Max({tr.numNodes - 1, 1}) = IF tr.numNodes - 1 >= 1 THEN tr.numNodes - 1 ELSE 1
  BY <1>2, MaxOfTwo
<1> QED BY <1>1, <1>2 DEF Asked, Unset

(* The first match of a search through a list.                             *)
LEMMA FirstMatch ==
  ASSUME NEW ps, NEW n \in Nat, Len(ps) = n, NEW M \in SUBSET (1 .. n)
  PROVE  /\ M = {} => First(ps, M) = n + 1
         /\ \A i \in M : (\A k \in M : i <= k) => First(ps, M) = i
         /\ M # {} => First(ps, M) \in M /\ \A k \in M : First(ps, M) <= k
<1> DEFINE S == M \union {n + 1}
<1>1. First(ps, M) = Min(S)
  BY DEF First
<1>2. Min(S) \in S /\ \A x \in S : Min(S) <= x
  <2>1. S \in SUBSET Nat /\ S # {}
    OBVIOUS
  <2> HIDE DEF S
  <2> QED BY Zenon, <2>1, MinOfNaturals
<1>3. \A i \in M : i \in Nat /\ i <= n /\ i # n + 1
  OBVIOUS
<1> DEFINE f == Min(S)
<1>4. (f \in M \/ f = n + 1) /\ (\A x \in M : f <= x) /\ f <= n + 1
  BY Zenon, <1>2
<1> HIDE DEF f
<1>5. M = {} => f = n + 1
  BY <1>4
<1>6. M # {} => f \in M /\ \A k \in M : f <= k
  <2> SUFFICES ASSUME NEW k \in M PROVE f # n + 1
    BY Zenon, <1>4
  <2> QED BY <1>3, <1>4
<1>7. ASSUME NEW i \in M, \A k \in M : i <= k PROVE f = i
  <2>1. f \in M
    BY <1>6
  <2>2. i <= f /\ f <= i
    BY Zenon, <1>4, <1>7, <2>1
  <2>3. i \in Nat /\ f \in Nat
    BY Zenon, <1>3, <2>1
  <2> HIDE DEF S
  <2> QED BY <2>2, <2>3
<1> QED BY Zenon, <1>1, <1>5, <1>6, <1>7 DEF f

LEMMA TrainerIsFirst ==
  ASSUME NEW rt \in RuntimeSpecs, NEW js \in Seq(ReplicatedJobs), js = rt.jobs,
         NEW ps, Len(ps) = Len(js), NEW M, M = {i \in 1 .. Len(js) : js[i].ancestor = "trainer"}
  PROVE  /\ \A i : FirstTrainer(rt, i) => First(ps, M) = i
         /\ First(ps, M) <= Len(js) => FirstTrainer(rt, First(ps, M))
         /\ First(ps, M) \in 1 .. Len(js) + 1
<1>1. Len(js) \in Nat /\ DOMAIN js = 1 .. Len(js)
  OBVIOUS
<1> DEFINE f == First(ps, M)
<1>2. /\ M = {} => f = Len(js) + 1
      /\ \A i \in M : (\A k \in M : i <= k) => f = i
      /\ M # {} => f \in M /\ \A k \in M : f <= k
  <2> DEFINE n == Len(js)
  <2>1. M \in SUBSET (1 .. n) /\ n \in Nat /\ Len(ps) = n
    BY Zenon, <1>1
  <2> HIDE DEF n
  <2>2. /\ M = {} => f = n + 1
        /\ \A i \in M : (\A k \in M : i <= k) => f = i
        /\ M # {} => f \in M /\ \A k \in M : f <= k
    BY SMTT(30), <2>1, FirstMatch
  <2> QED BY <2>2 DEF n
<1> HIDE DEF f
<1>3. ASSUME NEW i, FirstTrainer(rt, i) PROVE f = i
  <2>1. i \in M
    BY <1>1, <1>3 DEF FirstTrainer
  <2>2. \A k \in M : i <= k
    BY <1>1, <1>3 DEF FirstTrainer
  <2> QED BY <1>2, <2>1, <2>2
<1>4. ASSUME f <= Len(js) PROVE FirstTrainer(rt, f)
  <2>1. M # {}
    BY <1>1, <1>2, <1>4
  <2>2. f \in M /\ \A k \in M : f <= k
    BY <1>2, <2>1
  <2> QED BY <1>1, <2>2 DEF FirstTrainer
<1>5. f \in 1 .. Len(js) + 1
  BY <1>1, <1>2
<1> QED BY Zenon, <1>3, <1>4, <1>5 DEF f

-----------------------------------------------------------------------------
(***************************************************************************)
(* The inductive invariant, conjunct by conjunct; rt and tr stand for the  *)
(* inputs, js, ps, w for the values of jobs, podSets and world.            *)
(***************************************************************************)
(* What ValidateJobSet, ValidateMPI and the other plugins leave.           *)
Admissible(rt, tr) ==
  /\ \A i : FirstTrainer(rt, i) /\ rt.jobs[i].replicas > 1 =>
       Deref(tr.numNodes, CountOf(rt, rt.jobs[i])) % rt.jobs[i].replicas = 0
  /\ rt.policy \in {"Torch", "XGBoost", "Flux"} =>
       \A i : FirstTrainer(rt, i) => rt.jobs[i].replicas = 1
  /\ rt.policy = "MPI" => \A i \in DOMAIN rt.jobs :
       rt.jobs[i].name \in {"launcher", "node"} => rt.jobs[i].replicas = 1
  /\ rt.policy = "MPI" /\ rt.launcherAsNode /\ tr.numNodes >= 2 =>
       \A name \in {"launcher", "node"} : \E i \in DOMAIN rt.jobs : rt.jobs[i].name = name

(* The jobs and the PodSets are those of the template, one for one.        *)
Described(tmpl, js, ps) ==
  /\ js \in Seq(ReplicatedJobs) /\ Len(js) = Len(tmpl)
  /\ ps \in Seq(PodSetType) /\ Len(ps) = Len(tmpl)
  /\ \A i \in 1 .. Len(tmpl) :
       /\ js[i].name = tmpl[i].name /\ js[i].ancestor = tmpl[i].ancestor
       /\ js[i].replicas = tmpl[i].replicas /\ js[i].dependsOn = tmpl[i].dependsOn
       /\ ps[i].name = tmpl[i].name /\ ps[i].ancestor = tmpl[i].ancestor
       /\ ps[i].gpus = js[i].gpus

Templated(rt, ps) == \A i \in DOMAIN rt.jobs : ps[i].count = CountOf(rt, rt.jobs[i])
Sized(rt, tr, ps) == \A i \in DOMAIN rt.jobs : ps[i].count = SizeOf(rt, tr, i)

(* WorkersPerRank as a function of the inputs and the PodSets.             *)
NodeGPUs(ps) ==
  LET i == First(ps, {k \in DOMAIN ps : ps[k].name = "node" \/ ps[k].ancestor = "trainer"})
  IN IF i > Len(ps) THEN 0 ELSE ps[i].gpus
Workers(rt, tr, ps) ==
  IF rt.policy = "XGBoost" THEN Max({Deref(tr.gpus, NodeGPUs(ps)), 1}) ELSE 1

(* The world is that of one replica of the trainer.                        *)
WorldOK(rt, tr, ps, w) ==
  /\ w.size # Unset =>
       /\ rt.policy \in {"Torch", "JAX", "XGBoost", "Flux"}
       /\ \A i : FirstTrainer(rt, i) => /\ w.size = ps[i].count * Workers(rt, tr, ps)
                                        /\ rt.jobs[i].replicas = 1
  /\ rt.policy = "Flux" /\ w.size = Unset => \A i : ~FirstTrainer(rt, i)

Synced(js, ps) ==
  \A i \in DOMAIN js : js[i].parallelism \in Nat /\ js[i].replicas \in Nat \ {0}
                       /\ ps[i].count = js[i].replicas * js[i].parallelism

(* Hosts and BuildPodGroup as functions of the state.                      *)
EndpointsOf(rt, js, ps, i) ==
  LET per == ps[i].count \div js[i].replicas
  IN [k \in 1 .. js[i].replicas * per |->
        Endpoint(js[i].name, (k - 1) \div per, (k - 1) % per, rt.subdomain)]
IsNodeOf(rt, js, i) ==
  js[i].name = "node" \/ (rt.launcherAsNode /\ js[i].name = "launcher")
HostSeqs(rt, js, ps) ==
  [i \in DOMAIN js |-> IF IsNodeOf(rt, js, i) THEN EndpointsOf(rt, js, ps, i) ELSE <<>>]
HostsOf(rt, js, ps, w) ==
  CASE rt.policy = "MPI" -> FlattenSeq(HostSeqs(rt, js, ps))
    [] rt.policy = "Flux" ->
         IF w.size = 0 THEN <<Endpoint("node", 0, -1, "default")>>
         ELSE [k \in 1 .. w.size |-> Endpoint("node", 0, k - 1, "default")]
    [] OTHER -> <<>>
GroupOf(ps) ==
  [minMember |-> SumOver([i \in DOMAIN ps |-> ps[i].count]),
   gpus |-> SumOver([i \in DOMAIN ps |-> ps[i].count * ps[i].gpus])]

Early == {"ValidateRuntime", "MergeRuntimePatches", "Validate", "Rejected", "NewRuntimeInfo"}
Late == {"EnforceMLPolicy", "PreBuildSync", "Build", "Created", "Error"}

BuildInv ==
  /\ runtime \in RuntimeSpecs /\ WellFormed(runtime)
  /\ trainer \in Trainers /\ pc \in Early \union Late
  /\ pc \in {"ValidateRuntime", "MergeRuntimePatches"} => runtime \in Runtimes
  /\ pc \in Early => jobs = <<>>
  /\ pc \notin {"ValidateRuntime", "Rejected"} => Replicated(runtime)
  /\ pc \in {"NewRuntimeInfo"} \union Late => Admissible(runtime, trainer)
  /\ pc \in Late => Described(runtime.jobs, jobs, podSets)
  /\ pc = "EnforceMLPolicy" => Templated(runtime, podSets)
  /\ pc \in {"PreBuildSync", "Build", "Created", "Error"} =>
       Sized(runtime, trainer, podSets) /\ WorldOK(runtime, trainer, podSets, world)
  /\ pc \in {"Build", "Created"} => Synced(jobs, podSets)
  /\ pc = "Created" =>
       /\ hostfile = HostsOf(runtime, jobs, podSets, world)
       /\ podGroup = GroupOf(podSets)

-----------------------------------------------------------------------------
(***************************************************************************)
(* The searches of the webhooks and the plugins.                           *)
(***************************************************************************)
Matching(tmpl, ps) ==
  /\ DOMAIN ps = 1 .. Len(tmpl) /\ Len(ps) = Len(tmpl)
  /\ \A k \in 1 .. Len(tmpl) : ps[k].ancestor = tmpl[k].ancestor /\ ps[k].name = tmpl[k].name

LEMMA TrainerFound ==
  ASSUME NEW rt \in RuntimeSpecs, NEW ps, Matching(rt.jobs, ps)
  PROVE  /\ \A i : FirstTrainer(rt, i) => TrainerIdx(ps) = i /\ TrainerCount(ps) = ps[i].count
         /\ TrainerIdx(ps) <= Len(ps) => FirstTrainer(rt, TrainerIdx(ps))
         /\ TrainerIdx(ps) \in Nat
<1> DEFINE js == rt.jobs
           M == {i \in 1 .. Len(js) : js[i].ancestor = "trainer"}
           f == First(ps, M)
<1>1. js \in Seq(ReplicatedJobs) /\ Len(js) \in Nat /\ DOMAIN js = 1 .. Len(js)
  BY DEF RuntimeSpecs
<1>2. Len(ps) = Len(js) /\ DOMAIN ps = 1 .. Len(js)
  BY DEF Matching
<1>3. M = {i \in DOMAIN ps : ps[i].ancestor = "trainer"}
  BY Zenon, <1>2 DEF Matching
<1>4. TrainerIdx(ps) = f
  BY Zenon, <1>3 DEF TrainerIdx
<1>5. /\ \A i : FirstTrainer(rt, i) => f = i
      /\ f <= Len(js) => FirstTrainer(rt, f)
      /\ f \in 1 .. Len(js) + 1
  BY Zenon, <1>1, <1>2, TrainerIsFirst
<1> HIDE DEF f
<1>6. \A i : FirstTrainer(rt, i) => i \in 1 .. Len(js)
  BY Zenon, <1>1 DEF FirstTrainer
<1>7. f \in Nat
  BY <1>1, <1>5
<1>8. ASSUME NEW i, FirstTrainer(rt, i) PROVE TrainerCount(ps) = ps[i].count
  <2>1. TrainerIdx(ps) = i /\ ~(i > Len(ps))
    BY <1>1, <1>2, <1>4, <1>5, <1>6, <1>8
  <2> QED BY Zenon, <2>1 DEF TrainerCount
<1> QED BY Zenon, <1>2, <1>4, <1>5, <1>7, <1>8

LEMMA SelfMatching ==
  ASSUME NEW rt \in RuntimeSpecs
  PROVE  Matching(rt.jobs, rt.jobs)
BY DEF RuntimeSpecs, Matching

LEMMA ReplicasFound ==
  ASSUME runtime \in RuntimeSpecs, NEW i, FirstTrainer(runtime, i)
  PROVE  TrainerReplicas = runtime.jobs[i].replicas
<1> DEFINE js == runtime.jobs
<1>1. TrainerIdx(js) = i
  BY Zenon, SelfMatching, TrainerFound
<1>2. i \in 1 .. Len(js) /\ Len(js) \in Nat
  BY DEF FirstTrainer, RuntimeSpecs
<1>3. TrainerIdx(js) = First(js, {k \in DOMAIN js : IsTrainer(js[k])})
  BY DEF TrainerIdx, IsTrainer
<1>4. ~(i > Len(js))
  BY <1>2
<1> HIDE DEF js
<1> QED BY Zenon, <1>1, <1>3, <1>4 DEF TrainerReplicas, js

NamedIdx(ps, name) == First(ps, {k \in DOMAIN ps : ps[k].name = name})

LEMMA NamedFound ==
  ASSUME NEW rt \in RuntimeSpecs, DistinctNames(rt), NEW ps, Matching(rt.jobs, ps),
         NEW name
  PROVE  /\ NamedIdx(ps, name) \in Nat
         /\ \A i \in 1 .. Len(rt.jobs) : rt.jobs[i].name = name => NamedIdx(ps, name) = i
         /\ NamedIdx(ps, name) <= Len(ps) =>
              /\ NamedIdx(ps, name) \in 1 .. Len(rt.jobs)
              /\ rt.jobs[NamedIdx(ps, name)].name = name
<1> DEFINE js == rt.jobs
           n == Len(js)
           M == {k \in DOMAIN ps : ps[k].name = name}
           f == First(ps, M)
<1>1. n \in Nat /\ DOMAIN js = 1 .. n
  BY DEF RuntimeSpecs
<1>2. M = {k \in 1 .. n : js[k].name = name} /\ Len(ps) = n
  BY Zenon DEF Matching
<1>3. \A i, k \in 1 .. n : js[i].name = js[k].name => i = k
  BY Zenon, <1>1 DEF DistinctNames
<1> HIDE DEF js, n
<1>4. M \in SUBSET (1 .. n)
  BY Zenon, <1>2
<1>5. /\ M = {} => f = n + 1
      /\ M # {} => f \in M
  BY Zenon, <1>1, <1>2, <1>4, FirstMatch
<1> HIDE DEF f
<1>6. \A i, k \in M : i = k
  BY <1>2, <1>3
<1>7. f \in Nat /\ (f <= n => M # {})
  BY <1>1, <1>4, <1>5
<1>8. \A i \in 1 .. n : js[i].name = name => f = i
  <2> SUFFICES ASSUME NEW i \in 1 .. n, js[i].name = name PROVE f = i
    OBVIOUS
  <2>1. i \in M
    BY Zenon, <1>2
  <2> QED BY Zenon, <1>5, <1>6, <2>1
<1>9. f <= n => f \in 1 .. n /\ js[f].name = name
  BY Zenon, <1>2, <1>5, <1>7
<1> QED BY <1>2, <1>7, <1>8, <1>9 DEF f, js, n, NamedIdx

LEMMA JobReplicasFound ==
  ASSUME runtime \in RuntimeSpecs, DistinctNames(runtime), NEW i \in DOMAIN runtime.jobs
  PROVE  JobReplicas(runtime.jobs[i].name) = runtime.jobs[i].replicas
<1> DEFINE js == runtime.jobs
           f == NamedIdx(js, js[i].name)
<1>1. i \in 1 .. Len(js) /\ Len(js) \in Nat
  BY DEF RuntimeSpecs
<1>2. f = i
  BY <1>1, SelfMatching, NamedFound
<1>3. JobReplicas(js[i].name) = IF f > Len(js) THEN 1 ELSE js[f].replicas
  BY Zenon DEF JobReplicas, NamedIdx
<1> HIDE DEF f
<1> QED BY <1>1, <1>2, <1>3

(***************************************************************************)
(* What the webhooks admit.                                                *)
(***************************************************************************)
LEMMA NewPodSetIs ==
  ASSUME runtime \in RuntimeSpecs, trainer \in TrainerSpecs, NEW job \in ReplicatedJobs
  PROVE  /\ NewJob(job) \in ReplicatedJobs /\ NewPodSet(job) \in PodSetType
         /\ NewJob(job).name = job.name /\ NewJob(job).ancestor = job.ancestor
         /\ NewJob(job).replicas = job.replicas /\ NewJob(job).dependsOn = job.dependsOn
         /\ NewPodSet(job).name = job.name /\ NewPodSet(job).ancestor = job.ancestor
         /\ NewPodSet(job).count = CountOf(runtime, job)
         /\ NewPodSet(job).gpus = NewJob(job).gpus
<1>1. trainer.gpus \in Nat \union {Unset} /\ job.gpus \in Nat
  BY DEF TrainerSpecs, ReplicatedJobs
<1>2. MergeGPUs(job.gpus, trainer.gpus) \in Nat
  BY Zenon, <1>1 DEF MergeGPUs, Unset
<1>3. NewJob(job) = job \/ NewJob(job) = [job EXCEPT !.gpus = MergeGPUs(job.gpus, trainer.gpus)]
  BY DEF NewJob
<1>4. /\ NewJob(job) \in ReplicatedJobs
      /\ NewJob(job).name = job.name /\ NewJob(job).ancestor = job.ancestor
      /\ NewJob(job).replicas = job.replicas /\ NewJob(job).dependsOn = job.dependsOn
  BY Zenon, <1>2, <1>3 DEF ReplicatedJobs
<1>5. CountOf(runtime, job) \in Nat
  BY Zenon, CountType
<1>6. NewPodSet(job) = [name |-> job.name, ancestor |-> job.ancestor,
                        count |-> CountOf(runtime, job), gpus |-> NewJob(job).gpus]
  BY Zenon, CountIsPodCount DEF NewPodSet
<1>7. NewPodSet(job) \in PodSetType
  BY <1>4, <1>5, <1>6 DEF PodSetType, ReplicatedJobs
<1> QED BY <1>4, <1>6, <1>7

LEMMA InfoDescribes ==
  ASSUME runtime \in RuntimeSpecs, trainer \in TrainerSpecs
  PROVE  /\ Described(runtime.jobs, InfoJobs(runtime.jobs), InfoPodSets(runtime.jobs))
         /\ Templated(runtime, InfoPodSets(runtime.jobs))
<1> DEFINE tmpl == runtime.jobs
           n == Len(tmpl)
           js == InfoJobs(tmpl)
           ps == InfoPodSets(tmpl)
<1>1. n \in Nat /\ DOMAIN tmpl = 1 .. n /\ \A i \in 1 .. n : tmpl[i] \in ReplicatedJobs
  BY DEF RuntimeSpecs
<1>2. js = [i \in 1 .. n |-> NewJob(tmpl[i])] /\ ps = [i \in 1 .. n |-> NewPodSet(tmpl[i])]
  BY Zenon, <1>1 DEF InfoJobs, InfoPodSets
<1>3. \A i \in 1 .. n : /\ js[i] \in ReplicatedJobs /\ ps[i] \in PodSetType
                        /\ js[i].name = tmpl[i].name /\ js[i].ancestor = tmpl[i].ancestor
                        /\ js[i].replicas = tmpl[i].replicas /\ js[i].dependsOn = tmpl[i].dependsOn
                        /\ ps[i].name = tmpl[i].name /\ ps[i].ancestor = tmpl[i].ancestor
                        /\ ps[i].count = CountOf(runtime, tmpl[i]) /\ ps[i].gpus = js[i].gpus
  <2> TAKE i \in 1 .. n
  <2>1. js[i] = NewJob(tmpl[i]) /\ ps[i] = NewPodSet(tmpl[i]) /\ tmpl[i] \in ReplicatedJobs
    BY Zenon, <1>1, <1>2
  <2> HIDE DEF js, ps, tmpl, n
  <2> QED BY SMTT(30), <2>1, NewPodSetIs
<1> HIDE DEF js, ps, n
<1>4. js \in Seq(ReplicatedJobs) /\ Len(js) = n /\ ps \in Seq(PodSetType) /\ Len(ps) = n
  BY SMTT(30), <1>1, <1>2, <1>3
<1>5. Described(tmpl, js, ps)
  BY Zenon, <1>3, <1>4 DEF Described, n
<1>6. Templated(runtime, ps)
  BY Zenon, <1>1, <1>3 DEF Templated
<1> QED BY Zenon, <1>5, <1>6 DEF js, ps

LEMMA DescribedMatches ==
  ASSUME NEW tmpl, NEW js, NEW ps, Described(tmpl, js, ps)
  PROVE  Matching(tmpl, ps) /\ Matching(tmpl, js)
BY DEF Described, Matching

LEMMA WhatIsAdmitted ==
  ASSUME runtime \in RuntimeSpecs, trainer \in TrainerSpecs, DistinctNames(runtime),
         ValidateJobSet, ValidateMPI, ValidateTorch, ValidateXGBoost, ValidateFlux
  PROVE  Admissible(runtime, trainer)
<1> DEFINE tmpl == runtime.jobs
           ps == InfoPodSets(tmpl)
<1>1. Described(tmpl, InfoJobs(tmpl), ps) /\ Templated(runtime, ps)
  BY Zenon, InfoDescribes
<1>2. Matching(tmpl, ps)
  BY Zenon, <1>1, DescribedMatches
<1>3. ASSUME NEW i, FirstTrainer(runtime, i), tmpl[i].replicas > 1
      PROVE  Deref(trainer.numNodes, CountOf(runtime, tmpl[i])) % tmpl[i].replicas = 0
  <2>1. TrainerReplicas = tmpl[i].replicas
    BY Zenon, <1>3, ReplicasFound
  <2>2. TrainerCount(ps) = ps[i].count
    BY Zenon, <1>2, <1>3, TrainerFound
  <2>3. ps[i].count = CountOf(runtime, tmpl[i])
    BY Zenon, <1>1, <1>3 DEF Templated, FirstTrainer
  <2> QED BY Zenon, <1>3, <2>1, <2>2, <2>3 DEF ValidateJobSet
<1>4. ASSUME runtime.policy \in {"Torch", "XGBoost", "Flux"}, NEW i, FirstTrainer(runtime, i)
      PROVE  tmpl[i].replicas = 1
  BY Zenon, <1>4, ReplicasFound DEF ValidateTorch, ValidateXGBoost, ValidateFlux
<1>5. ASSUME runtime.policy = "MPI", NEW i \in DOMAIN tmpl, tmpl[i].name \in {"launcher", "node"}
      PROVE  tmpl[i].replicas = 1
  BY Zenon, <1>5, JobReplicasFound DEF ValidateMPI
<1>6. ASSUME runtime.policy = "MPI", runtime.launcherAsNode, trainer.numNodes >= 2,
             NEW name \in {"launcher", "node"}
      PROVE  \E i \in DOMAIN tmpl : tmpl[i].name = name
  <2>1. name \in {j.name : j \in Range(tmpl)}
    BY Zenon, <1>6 DEF ValidateMPI
  <2>2. PICK j \in Range(tmpl) : j.name = name
    BY Zenon, <2>1
  <2> QED BY Zenon, <2>2 DEF Range
<1> QED BY Zenon, <1>3, <1>4, <1>5, <1>6 DEF Admissible

(***************************************************************************)
(* EnforceMLPolicy: the PodSets get their sizes.                           *)
(***************************************************************************)
LEMMA EnforcedIsSized ==
  ASSUME runtime \in RuntimeSpecs, trainer \in TrainerSpecs, DistinctNames(runtime),
         Described(runtime.jobs, jobs, podSets), Templated(runtime, podSets)
  PROVE  /\ Described(runtime.jobs, jobs, EnforcedPodSets)
         /\ Sized(runtime, trainer, EnforcedPodSets)
<1> DEFINE tmpl == runtime.jobs
           n == Len(tmpl)
           idx == IF runtime.policy = "MPI" THEN NamedIdx(podSets, "node") ELSE TrainerIdx(podSets)
           a == Asked(runtime, trainer)
           new == EnforcedPodSets
<1>1. n \in Nat /\ DOMAIN tmpl = 1 .. n /\ Len(podSets) = n
  BY DEF RuntimeSpecs, Described
<1>2. Matching(tmpl, podSets)
  BY Zenon, DescribedMatches
<1>3. /\ idx \in Nat /\ \A i \in 1 .. n : IsTarget(runtime, i) => idx = i
      /\ idx <= n => idx \in 1 .. n /\ IsTarget(runtime, idx)
  <2>1. CASE runtime.policy = "MPI"
    BY SMTT(30), <1>1, <1>2, <2>1, NamedFound DEF IsTarget
  <2>2. CASE runtime.policy # "MPI"
    <3>1. \A i : FirstTrainer(runtime, i) => i \in 1 .. n
      BY Zenon, <1>1 DEF FirstTrainer
    <3> QED BY Zenon, <1>1, <1>2, <2>2, <3>1, TrainerFound DEF IsTarget
  <2> QED BY Zenon, <2>1, <2>2
<1>4. new = SetCount(podSets, idx, a)
  BY Zenon DEF EnforcedPodSets, MPINodes, Asked, NodeIdx, NamedIdx
<1>5. a \in Nat \union {Unset}
  BY Zenon, AskedType
<1> HIDE DEF idx, a, new
<1>6. CASE a = Unset \/ idx > n
  <2>1. new = podSets
    BY Zenon, <1>1, <1>4, <1>6 DEF SetCount
  <2>2. ASSUME NEW i \in 1 .. n PROVE SizeOf(runtime, trainer, i) = CountOf(runtime, tmpl[i])
    <3>1. a = Unset \/ ~IsTarget(runtime, i)
      BY <1>1, <1>3, <1>6
    <3> QED BY Zenon, <3>1 DEF SizeOf, a
  <2>3. Sized(runtime, trainer, podSets)
    BY Zenon, <1>1, <2>2 DEF Templated, Sized
  <2> QED BY Zenon, <2>1, <2>3 DEF new
<1>7. CASE a # Unset /\ ~(idx > n)
  <2>1. idx \in 1 .. n /\ IsTarget(runtime, idx) /\ a \in Nat
    BY <1>1, <1>3, <1>5, <1>7
  <2>2. new = [podSets EXCEPT ![idx].count = a]
    BY Zenon, <1>1, <1>4, <1>7 DEF SetCount
  <2>3. podSets \in Seq(PodSetType)
    BY Zenon DEF Described
  <2>4. \A i \in 1 .. n : /\ podSets[i] \in PodSetType
                          /\ new[i] = IF i = idx THEN [podSets[i] EXCEPT !.count = a] ELSE podSets[i]
    BY <1>1, <2>2, <2>3
  <2>5. \A i \in 1 .. n : /\ new[i] \in PodSetType /\ new[i].name = podSets[i].name
                          /\ new[i].ancestor = podSets[i].ancestor /\ new[i].gpus = podSets[i].gpus
                          /\ new[i].count = IF i = idx THEN a ELSE podSets[i].count
    BY Zenon, <2>1, <2>4 DEF PodSetType
  <2>6. new \in Seq(PodSetType) /\ Len(new) = n
    <3>1. DOMAIN podSets = 1 .. n
      BY <1>1, <2>3
    <3>2. new = [i \in 1 .. n |-> new[i]]
      BY Zenon, <2>2, <3>1
    <3>3. \A i \in 1 .. n : new[i] \in PodSetType
      BY Zenon, <2>5
    <3> HIDE DEF n
    <3> QED BY <1>1, <3>2, <3>3
  <2>7. Described(tmpl, jobs, new)
    BY SMTT(30), <1>1, <2>5, <2>6 DEF Described
  <2>8. ASSUME NEW i \in 1 .. n PROVE new[i].count = SizeOf(runtime, trainer, i)
    <3>1. IsTarget(runtime, i) <=> i = idx
      BY Zenon, <1>3, <2>1
    <3>2. podSets[i].count = CountOf(runtime, tmpl[i])
      <4>1. i \in DOMAIN runtime.jobs
        BY Zenon, <1>1
      <4> QED BY <4>1, Zenon DEF Templated
    <3> QED BY Zenon, <1>7, <2>5, <3>1, <3>2 DEF SizeOf, a
  <2>9. Sized(runtime, trainer, new)
    BY Zenon, <1>1, <2>8 DEF Sized
  <2> QED BY Zenon, <2>7, <2>9 DEF new
<1> QED BY Zenon, <1>6, <1>7

LEMMA WorkersFound ==
  ASSUME NEW tmpl, NEW ps, Described(tmpl, jobs, ps)
  PROVE  WorkersPerRank = Workers(runtime, trainer, ps)
<1> DEFINE n == Len(tmpl)
           M == {k \in DOMAIN jobs : jobs[k].name = "node" \/ IsTrainer(jobs[k])}
<1>1. /\ DOMAIN jobs = 1 .. n /\ DOMAIN ps = 1 .. n /\ Len(jobs) = n /\ Len(ps) = n /\ n \in Nat
      /\ \A i \in 1 .. n : /\ jobs[i].name = ps[i].name /\ jobs[i].ancestor = ps[i].ancestor
                           /\ jobs[i].gpus = ps[i].gpus
  <2>1. jobs \in Seq(ReplicatedJobs) /\ ps \in Seq(PodSetType) /\ Len(jobs) = n /\ Len(ps) = n
    BY Zenon DEF Described
  <2>2. \A i \in 1 .. n : /\ jobs[i].name = ps[i].name /\ jobs[i].ancestor = ps[i].ancestor
                          /\ jobs[i].gpus = ps[i].gpus
    BY Zenon DEF Described
  <2> HIDE DEF n
  <2>3. DOMAIN jobs = 1 .. n /\ DOMAIN ps = 1 .. n /\ n \in Nat
    BY <2>1
  <2> QED BY Zenon, <2>1, <2>2, <2>3
<1> HIDE DEF n
<1>2. M = {k \in DOMAIN ps : ps[k].name = "node" \/ ps[k].ancestor = "trainer"} /\ M \in SUBSET (1 .. n)
  BY Zenon, <1>1 DEF IsTrainer
<1> HIDE DEF M
<1> DEFINE f == First(jobs, M)
<1>3. First(ps, M) = f
  BY Zenon, <1>1 DEF First
<1>4. ~(f > n) => f \in 1 .. n
  <2>1. (M = {} => f = n + 1) /\ (M # {} => f \in M)
    BY Zenon, <1>1, <1>2, FirstMatch
  <2> HIDE DEF f
  <2> QED BY SMTT(30), <1>1, <1>2, <2>1
<1>5. ResourcesOfRuntime = IF f > n THEN 0 ELSE jobs[f].gpus
  BY Zenon, <1>1 DEF ResourcesOfRuntime, M
<1>6. NodeGPUs(ps) = IF f > n THEN 0 ELSE ps[f].gpus
  BY Zenon, <1>1, <1>2, <1>3 DEF NodeGPUs
<1> HIDE DEF f
<1>7. ResourcesOfRuntime = NodeGPUs(ps)
  BY Zenon, <1>1, <1>4, <1>5, <1>6
<1> QED BY Zenon, <1>7 DEF WorkersPerRank, Workers, WorkersPerNode, NumGPUPerNode

LEMMA WorkersType ==
  ASSUME NEW rt, NEW tr \in TrainerSpecs, NEW ps \in Seq(PodSetType)
  PROVE  Workers(rt, tr, ps) \in Nat \ {0}
<1> DEFINE M == {k \in DOMAIN ps : ps[k].name = "node" \/ ps[k].ancestor = "trainer"}
           f == First(ps, M)
           n == Len(ps)
           g == Deref(tr.gpus, NodeGPUs(ps))
<1>1. n \in Nat /\ DOMAIN ps = 1 .. n /\ \A i \in 1 .. n : ps[i] \in PodSetType
  OBVIOUS
<1>2. \A i \in 1 .. n : ps[i].gpus \in Nat
  BY Zenon, <1>1 DEF PodSetType
<1> HIDE DEF n
<1>3. (M = {} => f = n + 1) /\ (M # {} => f \in M) /\ M \in SUBSET (1 .. n)
  <2>1. M \in SUBSET (1 .. n)
    BY Zenon, <1>1
  <2> HIDE DEF M
  <2> QED BY Zenon, <1>1, <2>1, FirstMatch DEF n
<1>4. NodeGPUs(ps) = IF f > n THEN 0 ELSE ps[f].gpus
  BY Zenon DEF NodeGPUs, n
<1> HIDE DEF M, f
<1>5. NodeGPUs(ps) \in Nat
  <2>3. M = {} => ~(~(f > n))
    BY SMTT(30), <1>1, <1>3
  <2>4. M # {} => f \in 1 .. n
    BY Zenon, <1>3
  <2>1. ~(f > n) => f \in 1 .. n
    BY Zenon, <2>3, <2>4
  <2>2. 0 \in Nat
    OBVIOUS
  <2> QED BY Zenon, <1>2, <1>4, <2>1, <2>2
<1>6. g \in Nat
  <2>1. tr.gpus \in Nat \union {Unset}
    BY Zenon DEF TrainerSpecs
  <2> QED BY Zenon, <1>5, <2>1 DEF Deref
<1> HIDE DEF g
<1>7. Max({g, 1}) \in Nat \ {0}
  BY <1>6, MaxOfTwo
<1>8. 1 \in Nat \ {0}
  OBVIOUS
<1> QED BY Zenon, <1>7, <1>8 DEF Workers, g

LEMMA WorldIsOfTrainer ==
  ASSUME runtime \in RuntimeSpecs, trainer \in TrainerSpecs, NEW ps,
         Described(runtime.jobs, jobs, ps), Admissible(runtime, trainer)
  PROVE  WorldOK(runtime, trainer, ps, NewWorld(ps))
<1> DEFINE w == NewWorld(ps)
           four == {"Torch", "JAX", "XGBoost", "Flux"}
           k == Workers(runtime, trainer, ps)
<1>1. ASSUME NEW i, FirstTrainer(runtime, i)
      PROVE  /\ TrainerCount(ps) = ps[i].count /\ ps[i].count \in Nat
             /\ TrainerReplicas = runtime.jobs[i].replicas
             /\ runtime.policy \in {"Torch", "XGBoost", "Flux"} => runtime.jobs[i].replicas = 1
  <2>1. Matching(runtime.jobs, ps)
    BY Zenon, DescribedMatches
  <2>2. ps[i] \in PodSetType
    BY <1>1 DEF Described, FirstTrainer, RuntimeSpecs
  <2>3. ps[i].count \in Nat
    BY Zenon, <2>2 DEF PodSetType
  <2> QED BY Zenon, <1>1, <2>1, <2>3, TrainerFound, ReplicasFound DEF Admissible
<1>2. runtime.policy \notin four => w.size = Unset
  BY DEF NewWorld, NoWorld, MPISlots
<1>3. runtime.policy \in {"Torch", "Flux"} => w.size = TrainerCount(ps)
  BY DEF NewWorld, TorchEnvs, FluxFlags
<1>4. runtime.policy = "JAX" =>
        w.size = IF TrainerReplicas = 1 THEN TrainerCount(ps) ELSE Unset
  BY DEF NewWorld, JAXEnvs, NoWorld
<1>5. runtime.policy = "XGBoost" => w.size = TrainerCount(ps) * WorkersPerNode
  BY DEF NewWorld, XGBoostEnvs
<1>6. k = IF runtime.policy = "XGBoost" THEN WorkersPerNode ELSE 1
  BY Zenon, WorkersFound DEF WorkersPerRank
<1>7. k \in Nat \ {0}
  BY Zenon, WorkersType DEF Described
<1> HIDE DEF w, k
<1>8. \A m \in Nat : m # Unset /\ m * 1 = m /\ m * k # Unset
  <2> TAKE m \in Nat
  <2>1. m * k \in Nat
    BY <1>7
  <2> QED BY <2>1 DEF Unset
<1>9. ASSUME NEW i, FirstTrainer(runtime, i), w.size # Unset
      PROVE  w.size = ps[i].count * k /\ runtime.jobs[i].replicas = 1
  BY Zenon, <1>1, <1>2, <1>3, <1>4, <1>5, <1>6, <1>8, <1>9
<1>10. runtime.policy = "Flux" /\ w.size = Unset => \A i : ~FirstTrainer(runtime, i)
  BY Zenon, <1>1, <1>3, <1>8
<1>11. WorldOK(runtime, trainer, ps, w)
  BY Zenon, <1>2, <1>9, <1>10 DEF WorldOK, k
<1> QED BY Zenon, <1>11 DEF w

(***************************************************************************)
(* PreBuildSync and Build.                                                 *)
(***************************************************************************)
LEMMA SyncedParallelism ==
  ASSUME NEW tmpl, Len(tmpl) \in Nat, Described(tmpl, jobs, podSets),
         \A i \in DOMAIN jobs : Divisible(i)
  PROVE  /\ Described(tmpl, SyncParallelCount, podSets) /\ Synced(SyncParallelCount, podSets)
<1> DEFINE n == Len(tmpl)
           new == SyncParallelCount
<1>1. /\ jobs \in Seq(ReplicatedJobs) /\ DOMAIN jobs = 1 .. n
      /\ \A i \in 1 .. n : jobs[i] \in ReplicatedJobs /\ podSets[i] \in PodSetType
  BY DEF Described
<1>2. \A i \in 1 .. n : jobs[i].replicas \in Nat \ {0} /\ podSets[i].count \in Nat
  <2> TAKE i \in 1 .. n
  <2>1. jobs[i] \in ReplicatedJobs /\ podSets[i] \in PodSetType
    BY Zenon, <1>1
  <2>2. jobs[i].replicas \in Nat /\ podSets[i].count \in Nat
    BY Zenon, <2>1 DEF ReplicatedJobs, PodSetType
  <2>3. jobs[i].replicas >= 1
    BY Zenon, <1>1 DEF Divisible
  <2> QED BY <2>2, <2>3
<1>3. ASSUME NEW i \in 1 .. n
      PROVE  /\ PodsPerReplica(i) \in Nat
             /\ podSets[i].count = jobs[i].replicas * PodsPerReplica(i)
  <2> DEFINE c == podSets[i].count
             r == jobs[i].replicas
  <2>1. c \in Nat /\ r \in Nat \ {0} /\ c % r = 0
    BY Zenon, <1>1, <1>2 DEF Divisible
  <2>2. PodsPerReplica(i) = c \div r
    BY DEF PodsPerReplica
  <2> HIDE DEF c, r
  <2>3. c \div r \in Nat /\ c = (r * (c \div r)) + (c % r)
    BY Zenon, <2>1, Division
  <2>4. c = r * (c \div r)
    <3> DEFINE q == r * (c \div r)
    <3>1. q \in Nat /\ c = q + 0
      BY <2>1, <2>3
    <3> HIDE DEF q
    <3>2. c = q
      BY <3>1
    <3> QED BY Zenon, <3>2 DEF q
  <2> QED BY Zenon, <2>2, <2>3, <2>4 DEF c, r
<1>4. \A i \in 1 .. n : new[i] = [jobs[i] EXCEPT !.parallelism = PodsPerReplica(i)]
  BY Zenon, <1>1 DEF SyncParallelCount
<1>5. \A i \in 1 .. n : /\ new[i] \in ReplicatedJobs /\ new[i].name = jobs[i].name
                        /\ new[i].ancestor = jobs[i].ancestor /\ new[i].replicas = jobs[i].replicas
                        /\ new[i].dependsOn = jobs[i].dependsOn /\ new[i].gpus = jobs[i].gpus
                        /\ new[i].parallelism = PodsPerReplica(i)
  <2> TAKE i \in 1 .. n
  <2> DEFINE job == jobs[i]
             x == new[i]
             per == PodsPerReplica(i)
  <2>1. job \in ReplicatedJobs /\ per \in Nat /\ x = [job EXCEPT !.parallelism = per]
    BY Zenon, <1>1, <1>3, <1>4
  <2> HIDE DEF job, x, per, n, new
  <2>2. /\ x \in ReplicatedJobs /\ x.name = job.name /\ x.ancestor = job.ancestor
        /\ x.replicas = job.replicas /\ x.dependsOn = job.dependsOn /\ x.gpus = job.gpus
        /\ x.parallelism = per
    BY Zenon, <2>1 DEF ReplicatedJobs
  <2> QED BY Zenon, <2>2 DEF x, job, per
<1>6. DOMAIN new = 1 .. n
  BY Zenon, <1>1 DEF SyncParallelCount
<1>7. new = [i \in 1 .. n |-> new[i]]
  BY Zenon, <1>1 DEF SyncParallelCount
<1> HIDE DEF new
<1>8. new \in Seq(ReplicatedJobs) /\ Len(new) = n
  BY SMTT(30), <1>5, <1>6, <1>7
<1>9. Described(tmpl, new, podSets)
  BY SMTT(30), <1>5, <1>8 DEF Described
<1>10. Synced(new, podSets)
  BY SMTT(30), <1>2, <1>3, <1>5, <1>6 DEF Synced
<1> QED BY Zenon, <1>9, <1>10 DEF new

LEMMA HostsAndGroup ==
  Hosts = HostsOf(runtime, jobs, podSets, world) /\ BuildPodGroup = GroupOf(podSets)
BY DEF Hosts, HostsOf, BuildHostFile, HostSeqs, GenerateHostlist, IsNode, IsNodeOf, Endpoints,
       EndpointsOf, PodsPerReplica, BuildPodGroup, GroupOf

-----------------------------------------------------------------------------
(***************************************************************************)
(* The invariant is inductive, for templates of these conventions.         *)
(***************************************************************************)
TemplatesAreWellFormed == \A rt \in Runtimes : WellFormed(rt)

LEMMA InputTypes ==
  /\ \A rt \in Runtimes :
       rt \in RuntimeSpecs /\ \A i \in DOMAIN rt.jobs : rt.jobs[i].name # AddedJob.name
  /\ trainer \in Trainers => trainer \in TrainerSpecs
BY Zenon, InputsAssumption

LEMMA InitBuild ==
  ASSUME TemplatesAreWellFormed
  PROVE  Init => BuildInv
BY Zenon, InputTypes DEF Init, BuildInv, Early, Late, TemplatesAreWellFormed

LEMMA NextBuild ==
  ASSUME TemplatesAreWellFormed, BuildInv, [Next]_vars
  PROVE  BuildInv'
<1>1. /\ runtime \in RuntimeSpecs /\ trainer \in TrainerSpecs /\ DistinctNames(runtime)
      /\ WellFormed(runtime) /\ trainer \in Trainers
  BY Zenon, InputTypes DEF BuildInv, WellFormed
<1>2. CASE ValidateRuntime
  <2>1. /\ UNCHANGED <<runtime, trainer, jobs>> /\ pc = "ValidateRuntime"
        /\ pc' = IF ValidateReplicatedJobs THEN "MergeRuntimePatches" ELSE "Rejected"
    BY Zenon, <1>2 DEF ValidateRuntime, built
  <2>2. ValidateReplicatedJobs => Replicated(runtime)
    BY Zenon DEF ValidateReplicatedJobs, Range, Replicated
  <2>3. jobs = <<>> /\ runtime \in Runtimes
    BY Zenon, <2>1 DEF BuildInv, Early
  <2> QED BY Zenon, <1>1, <2>1, <2>2, <2>3 DEF BuildInv, Early, Late
<1>9. CASE MergeRuntimePatches
  <2>1. UNCHANGED <<trainer, jobs>> /\ pc = "MergeRuntimePatches" /\ pc' = "Validate"
    BY Zenon, <1>9 DEF MergeRuntimePatches, built
  <2>2. jobs = <<>> /\ Replicated(runtime) /\ runtime \in Runtimes
    BY Zenon, <2>1 DEF BuildInv, Early
  <2>3. PICK merged \in Merges(runtime.jobs) :
          runtime' = [runtime EXCEPT !.jobs = RestoreOrder(merged)]
    BY Zenon, <1>9 DEF MergeRuntimePatches
  <2>4. PICK ext, s : Extended(runtime.jobs, ext)
                      /\ Rearranged(runtime.jobs, ext, s, RestoreOrder(merged))
    BY Zenon, <1>1, MergedIsRearranged
  <2>5. \A i \in DOMAIN runtime.jobs : runtime.jobs[i].name # AddedJob.name
    BY Zenon, <2>2, InputTypes
  <2>6. (runtime \in RuntimeSpecs)' /\ WellFormed(runtime') /\ Replicated(runtime')
    BY Zenon, <1>1, <2>2, <2>3, <2>4, <2>5, MergedIsWellFormed
  <2> QED BY Zenon, <1>1, <2>1, <2>2, <2>6 DEF BuildInv, Early, Late
<1>3. CASE Validate
  <2>1. /\ UNCHANGED <<runtime, trainer, jobs>> /\ pc = "Validate"
        /\ \/ pc' = "NewRuntimeInfo" /\ ValidateJobSet /\ ValidateMPI /\ ValidateTorch
              /\ ValidateXGBoost /\ ValidateFlux
           \/ pc' = "Rejected"
    BY Zenon, <1>3 DEF Validate, built
  <2>2. pc' = "NewRuntimeInfo" => Admissible(runtime, trainer)
    BY Zenon, <1>1, <2>1, WhatIsAdmitted
  <2>3. jobs = <<>> /\ Replicated(runtime)
    BY Zenon, <2>1 DEF BuildInv, Early
  <2> QED BY Zenon, <1>1, <2>1, <2>2, <2>3 DEF BuildInv, Early, Late
<1>4. CASE NewRuntimeInfo
  <2>1. /\ UNCHANGED <<runtime, trainer>> /\ pc = "NewRuntimeInfo" /\ pc' = "EnforceMLPolicy"
    BY Zenon, <1>4 DEF NewRuntimeInfo
  <2>2. jobs' = InfoJobs(runtime.jobs) /\ podSets' = InfoPodSets(runtime.jobs)
    BY Zenon, <1>4 DEF NewRuntimeInfo
  <2>4. Described(runtime.jobs, jobs', podSets') /\ Templated(runtime, podSets')
    BY Zenon, <1>1, <2>2, InfoDescribes
  <2>5. Admissible(runtime, trainer) /\ Replicated(runtime)
    BY Zenon, <2>1 DEF BuildInv
  <2> QED BY Zenon, <1>1, <2>1, <2>4, <2>5 DEF BuildInv, Early, Late
<1>5. CASE EnforceMLPolicy
  <2>1. /\ UNCHANGED <<runtime, trainer, jobs>> /\ pc = "EnforceMLPolicy" /\ pc' = "PreBuildSync"
        /\ podSets' = EnforcedPodSets /\ world' = NewWorld(EnforcedPodSets)
    BY Zenon, <1>5 DEF EnforceMLPolicy
  <2>2. /\ Described(runtime.jobs, jobs, podSets) /\ Templated(runtime, podSets)
        /\ Admissible(runtime, trainer) /\ Replicated(runtime)
    BY Zenon, <2>1 DEF BuildInv, Late
  <2>3. Described(runtime.jobs, jobs, podSets') /\ Sized(runtime, trainer, podSets')
    BY Zenon, <1>1, <2>1, <2>2, EnforcedIsSized
  <2>4. WorldOK(runtime, trainer, podSets', world')
    BY Zenon, <1>1, <2>1, <2>2, <2>3, WorldIsOfTrainer
  <2> QED BY Zenon, <1>1, <2>1, <2>2, <2>3, <2>4 DEF BuildInv, Early, Late
<1>6. CASE PreBuildSync
  <2>1. /\ UNCHANGED <<runtime, trainer, podSets, world>> /\ pc = "PreBuildSync"
        /\ \/ pc' = "Build" /\ jobs' = SyncParallelCount /\ \A i \in DOMAIN jobs : Divisible(i)
           \/ pc' = "Error" /\ jobs' = jobs
    BY Zenon, <1>6 DEF PreBuildSync
  <2>2. /\ Described(runtime.jobs, jobs, podSets) /\ Sized(runtime, trainer, podSets)
        /\ WorldOK(runtime, trainer, podSets, world)
        /\ Admissible(runtime, trainer) /\ Replicated(runtime)
    BY Zenon, <2>1 DEF BuildInv, Late
  <2>3. Len(runtime.jobs) \in Nat
    BY <1>1 DEF RuntimeSpecs
  <2>4. /\ Described(runtime.jobs, jobs', podSets)
        /\ pc' = "Build" => Synced(jobs', podSets)
    BY Zenon, <2>1, <2>2, <2>3, SyncedParallelism
  <2> QED BY Zenon, <1>1, <2>1, <2>2, <2>4 DEF BuildInv, Early, Late
<1>7. CASE Build
  <2>1. /\ UNCHANGED <<runtime, trainer, jobs, podSets, world>> /\ pc = "Build" /\ pc' = "Created"
        /\ hostfile' = HostsOf(runtime, jobs, podSets, world) /\ podGroup' = GroupOf(podSets)
    BY Zenon, <1>7, HostsAndGroup DEF Build
  <2>2. /\ Described(runtime.jobs, jobs, podSets) /\ Sized(runtime, trainer, podSets)
        /\ WorldOK(runtime, trainer, podSets, world) /\ Synced(jobs, podSets)
        /\ Admissible(runtime, trainer) /\ Replicated(runtime)
    BY Zenon, <2>1 DEF BuildInv, Late
  <2> QED BY Zenon, <1>1, <2>1, <2>2 DEF BuildInv, Early, Late
<1>8. CASE StartJobs \/ Schedule \/ UNCHANGED vars
  <2>1. UNCHANGED <<runtime, trainer, pc, built>>
    BY Zenon, <1>8 DEF StartJobs, StartJob, Schedule, vars
  <2>2. UNCHANGED <<runtime, trainer, pc, jobs, podSets, world, hostfile, podGroup>>
    BY Zenon, <2>1 DEF built
  <2> QED BY Zenon, <2>2 DEF BuildInv
<1> QED BY Zenon, <1>2, <1>3, <1>4, <1>5, <1>6, <1>7, <1>8, <1>9 DEF Next

LEMMA BuildHolds ==
  ASSUME TemplatesAreWellFormed
  PROVE  Spec => []BuildInv
<1>1. BuildInv /\ [Next]_vars => BuildInv'
  BY NextBuild
<1> QED BY <1>1, InitBuild, PTL DEF Spec

-----------------------------------------------------------------------------
(***************************************************************************)
(* Theorems about the jobs of the JobSet.                                  *)
(***************************************************************************)

\* Whatever order a patch leaves the jobs in, the JobSet that newRuntimeInfo builds
\* lists every job after those its dependsOn names, when the template does, also
\* when the patch adds a job (the sort of mergeRuntimePatches).
THEOREM DependenciesAreFirst ==
  ASSUME \A rt \in Runtimes : WellFormed(rt)
  PROVE  Spec => []DependenciesFirst
<1>1. BuildInv => DependenciesFirst
  <2> SUFFICES ASSUME BuildInv PROVE DependenciesFirst
    BY Zenon
  <2> DEFINE tmpl == runtime.jobs
  <2>1. runtime \in RuntimeSpecs /\ DependsOnPreceding(runtime)
    BY Zenon DEF BuildInv, WellFormed
  <2>2. jobs = <<>> \/ Described(tmpl, jobs, podSets)
    BY Zenon DEF BuildInv
  <2>3. CASE jobs = <<>>
    BY <2>3 DEF DependenciesFirst
  <2>4. CASE Described(tmpl, jobs, podSets)
    <3>1. /\ DOMAIN jobs = 1 .. Len(tmpl) /\ DOMAIN tmpl = 1 .. Len(tmpl) /\ Len(tmpl) \in Nat
          /\ \A i \in 1 .. Len(tmpl) : /\ jobs[i].name = tmpl[i].name
                                         /\ jobs[i].dependsOn = tmpl[i].dependsOn
      BY <2>1, <2>4 DEF Described, RuntimeSpecs
    <3>2. \A i \in 1 .. Len(tmpl) : \A dep \in tmpl[i].dependsOn :
            \E k \in 1 .. i - 1 : tmpl[k].name = dep[1]
      BY Zenon, <2>1, <3>1 DEF DependsOnPreceding
    <3> HIDE DEF tmpl
    <3>3. \A i \in 1 .. Len(tmpl) : \A k \in 1 .. i - 1 : k \in 1 .. Len(tmpl)
      BY <3>1
    <3> QED BY SMTT(30), <3>1, <3>2, <3>3 DEF DependenciesFirst
  <2> QED BY Zenon, <2>2, <2>3, <2>4
<1>2. TemplatesAreWellFormed
  BY DEF TemplatesAreWellFormed
<1>3. Spec => []BuildInv
  BY Zenon, <1>2, BuildHolds
<1> QED BY <1>1, <1>3, PTL

LEMMA TheTrainer ==
  ASSUME NEW rt \in RuntimeSpecs, OneTrainer(rt)
  PROVE  \E t \in 1 .. Len(rt.jobs) :
           /\ FirstTrainer(rt, t)
           /\ \A i \in 1 .. Len(rt.jobs) : rt.jobs[i].ancestor = "trainer" <=> i = t
           /\ rt.jobs[t].name = "node" \/ (rt.policy = "MPI" /\ rt.jobs[t].name = "launcher")
<1> DEFINE js == rt.jobs
           n == Len(js)
<1>1. n \in Nat /\ DOMAIN js = 1 .. n
  BY DEF RuntimeSpecs
<1>2. PICK t \in DOMAIN js :
        /\ {k \in DOMAIN js : js[k].ancestor = "trainer"} = {t}
        /\ js[t].name = "node" \/ (rt.policy = "MPI" /\ js[t].name = "launcher")
  BY Zenon DEF OneTrainer
<1>3. \A i \in DOMAIN js : js[i].ancestor = "trainer" <=> i = t
  BY Zenon, <1>2
<1>4. t \in 1 .. n
  BY Zenon, <1>1
<1>5. \A k \in 1 .. t - 1 : k \in DOMAIN js /\ k # t
  BY <1>1, <1>4
<1>6. FirstTrainer(rt, t)
  BY Zenon, <1>3, <1>4, <1>5 DEF FirstTrainer
<1> QED BY Zenon, <1>1, <1>2, <1>3, <1>4, <1>6

LEMMA ProductDivides ==
  ASSUME NEW a \in Nat, NEW b \in Nat \ {0}
  PROVE  (a * b) % b = 0
<1> DEFINE c == a * b
           q == c \div b
           m == c % b
<1>1. c \in Nat
  OBVIOUS
<1>2. q \in Nat /\ m \in 0 .. b - 1 /\ c = (b * q) + m
  BY Zenon, <1>1, Division
<1>3. b * q = q * b
  BY <1>2
<1>4. q * b \in Nat
  BY <1>2
<1> HIDE DEF q, m
<1>5. a * b + 1 = q * b + (m + 1)
  <2> DEFINE x == q * b
  <2>1. c = x + m /\ x \in Nat
    BY Zenon, <1>2, <1>3, <1>4
  <2> HIDE DEF x, c
  <2>2. c + 1 = x + (m + 1)
    BY <1>1, <1>2, <2>1
  <2> QED BY Zenon, <2>2 DEF x, c
<1>6. 1 \in 1 .. b /\ m + 1 \in 1 .. b
  BY <1>2
<1>7. 1 = m + 1
  BY <1>2, <1>5, <1>6, OnePlace
<1>8. m = 0
  BY <1>2, <1>7
<1> QED BY Zenon, <1>8 DEF m

(* A job that is neither the trainer nor sized by MPI keeps its Pods.      *)
LEMMA OtherJobSize ==
  ASSUME NEW rt \in RuntimeSpecs, NoEmptyJob(rt), NEW i \in DOMAIN rt.jobs,
         rt.jobs[i].ancestor # "trainer", rt.jobs[i].replicas >= 1
  PROVE  CountOf(rt, rt.jobs[i]) = Deref(rt.jobs[i].parallelism, 1) * rt.jobs[i].replicas
<1> DEFINE job == rt.jobs[i]
           p == Deref(job.parallelism, 1)
           r == job.replicas
           c == p * r
<1>1. job \in ReplicatedJobs
  BY DEF RuntimeSpecs
<1>2. job.parallelism # 0
  BY Zenon DEF NoEmptyJob
<1>3. p \in Nat \ {0} /\ r \in Nat \ {0}
  BY <1>1, <1>2 DEF ReplicatedJobs, Deref, Unset
<1>4. CountOf(rt, job) = Max({c, 1})
  BY Zenon DEF CountOf
<1> HIDE DEF p, r
<1>5. c \in Nat /\ 1 * r <= c
  BY <1>3, MultiplicationMonotone
<1>6. c >= 1
  BY <1>3, <1>5
<1> HIDE DEF c
<1>7. Max({c, 1}) = c
  BY SMTT(30), <1>5, <1>6, MaxOfTwo
<1> QED BY Zenon, <1>4, <1>7 DEF c, p, r

LEMMA SizesDivide ==
  ASSUME NEW rt \in RuntimeSpecs, NEW tr \in TrainerSpecs, NoEmptyJob(rt), OneTrainer(rt),
         Replicated(rt), Admissible(rt, tr), NEW i \in DOMAIN rt.jobs
  PROVE  SizeOf(rt, tr, i) % rt.jobs[i].replicas = 0
<1> DEFINE job == rt.jobs[i]
           r == job.replicas
           size == SizeOf(rt, tr, i)
<1>1. job \in ReplicatedJobs /\ i \in 1 .. Len(rt.jobs)
  BY DEF RuntimeSpecs
<1>2. r \in Nat \ {0}
  <2>1. r >= 1
    BY Zenon DEF Replicated
  <2>2. r \in Nat
    BY Zenon, <1>1 DEF ReplicatedJobs
  <2> QED BY SMTT(30), <2>1, <2>2
<1>3. size \in Nat
  <2>1. CountOf(rt, job) \in Nat
    BY Zenon, <1>1, CountType
  <2>2. Asked(rt, tr) \in Nat \union {Unset}
    BY Zenon, AskedType
  <2> QED BY Zenon, <2>1, <2>2 DEF SizeOf
<1>4. PICK t \in 1 .. Len(rt.jobs) :
        /\ FirstTrainer(rt, t)
        /\ \A k \in 1 .. Len(rt.jobs) : rt.jobs[k].ancestor = "trainer" <=> k = t
        /\ rt.jobs[t].name = "node" \/ (rt.policy = "MPI" /\ rt.jobs[t].name = "launcher")
  BY Zenon, TheTrainer
<1>5. CASE r = 1
  <2> HIDE DEF size, r
  <2> QED BY SMTT(30), <1>3, <1>5 DEF size, r
<1>6. CASE r > 1 /\ i = t
  <2>1. rt.policy # "MPI"
    BY SMTT(30), <1>4, <1>6 DEF Admissible
  <2>2. Asked(rt, tr) = tr.numNodes /\ IsTarget(rt, i)
    BY Zenon, <1>4, <1>6, <2>1 DEF Asked, IsTarget
  <2>3. size = Deref(tr.numNodes, CountOf(rt, job))
    BY Zenon, <2>2 DEF SizeOf, Deref
  <2>4. Deref(tr.numNodes, CountOf(rt, job)) % r = 0
    BY Zenon, <1>4, <1>6 DEF Admissible
  <2> QED BY Zenon, <2>3, <2>4
<1>7. CASE r > 1 /\ i # t
  <2>1. job.ancestor # "trainer"
    BY Zenon, <1>1, <1>4, <1>7
  <2>2. ~IsTarget(rt, i)
    <3>1. CASE rt.policy = "MPI"
      <4>1. r = 1 \/ job.name # "node"
        BY Zenon, <3>1 DEF Admissible
      <4> QED BY SMTT(30), <1>2, <1>7, <3>1, <4>1 DEF IsTarget
    <3>2. CASE rt.policy # "MPI"
      BY Zenon, <2>1, <3>2 DEF IsTarget, FirstTrainer
    <3> QED BY Zenon, <3>1, <3>2
  <2>3. size = CountOf(rt, job)
    BY Zenon, <2>2 DEF SizeOf
  <2>4. r >= 1
    BY SMTT(30), <1>2
  <2>5. CountOf(rt, job) = Deref(job.parallelism, 1) * r
    BY Zenon, <2>1, <2>4, OtherJobSize
  <2>6. Deref(job.parallelism, 1) \in Nat
    BY Zenon, <1>1 DEF ReplicatedJobs, Deref, Unset
  <2> DEFINE p == Deref(job.parallelism, 1)
  <2> HIDE DEF p, r, size
  <2>7. (p * r) % r = 0
    BY Zenon, <1>2, <2>6, ProductDivides DEF p
  <2> QED BY Zenon, <2>3, <2>5, <2>7 DEF p, r, size
<1> QED BY <1>2, <1>5, <1>6, <1>7

\* What ValidateRuntime and Validate admit can be built: podsPerReplica never finds
\* Pods that its replicas do not divide, whatever the sizes and the patches, for
\* well-formed templates.
THEOREM AdmittedAlwaysBuilds ==
  ASSUME \A rt \in Runtimes : WellFormed(rt)
  PROVE  Spec => []AdmittedBuilds
<1>1. TemplatesAreWellFormed
  BY Zenon DEF TemplatesAreWellFormed
<1>2. Spec => []BuildInv
  BY Zenon, <1>1, BuildHolds
<1>3. Init => AdmittedBuilds
  BY DEF Init, AdmittedBuilds
<1>4. AdmittedBuilds /\ BuildInv /\ [Next]_vars => AdmittedBuilds'
  <2> SUFFICES ASSUME AdmittedBuilds, BuildInv, [Next]_vars PROVE pc' # "Error"
    BY Zenon DEF AdmittedBuilds
  <2>1. CASE PreBuildSync
    <3>1. pc = "PreBuildSync"
      BY Zenon, <2>1 DEF PreBuildSync
    <3>2. /\ runtime \in RuntimeSpecs /\ trainer \in TrainerSpecs
          /\ NoEmptyJob(runtime) /\ OneTrainer(runtime)
      BY Zenon, InputTypes DEF BuildInv, WellFormed
    <3>3. /\ Replicated(runtime) /\ Admissible(runtime, trainer)
          /\ Described(runtime.jobs, jobs, podSets) /\ Sized(runtime, trainer, podSets)
      BY Zenon, <3>1 DEF BuildInv, Late
    <3>4. ASSUME NEW i \in DOMAIN jobs PROVE Divisible(i)
      <4>1. i \in DOMAIN runtime.jobs /\ jobs[i].replicas = runtime.jobs[i].replicas
        BY SMTT(30), <3>2, <3>3 DEF Described, RuntimeSpecs
      <4>2. podSets[i].count = SizeOf(runtime, trainer, i)
        BY Zenon, <3>3, <4>1 DEF Sized
      <4>3. SizeOf(runtime, trainer, i) % runtime.jobs[i].replicas = 0
        BY Zenon, <3>2, <3>3, <4>1, SizesDivide
      <4>4. runtime.jobs[i].replicas >= 1
        BY Zenon, <3>3, <4>1 DEF Replicated
      <4> QED BY Zenon, <4>1, <4>2, <4>3, <4>4 DEF Divisible
    <3> QED BY Zenon, <2>1, <3>4 DEF PreBuildSync
  <2>2. CASE \/ ValidateRuntime \/ MergeRuntimePatches \/ Validate \/ NewRuntimeInfo
             \/ EnforceMLPolicy \/ Build
    BY Zenon, <2>2 DEF ValidateRuntime, MergeRuntimePatches, Validate, NewRuntimeInfo, EnforceMLPolicy, Build
  <2>3. CASE StartJobs \/ Schedule \/ UNCHANGED vars
    BY Zenon, <2>3 DEF StartJobs, StartJob, Schedule, vars, AdmittedBuilds
  <2> QED BY Zenon, <2>1, <2>2, <2>3 DEF Next
<1> QED BY <1>2, <1>3, <1>4, PTL DEF Spec

-----------------------------------------------------------------------------
(***************************************************************************)
(* The Pods of a job, and of all of them.                                  *)
(***************************************************************************)
JobPods(sd, job) ==
  {Endpoint(job.name, r, i, sd) : r \in 0 .. job.replicas - 1, i \in 0 .. job.parallelism - 1}

LEMMA EndpointParts ==
  ASSUME NEW a, NEW r, NEW i, NEW sd, NEW b, NEW q, NEW k, NEW td,
         Endpoint(a, r, i, sd) = Endpoint(b, q, k, td)
  PROVE  a = b /\ r = q /\ i = k /\ sd = td
BY DEF Endpoint

LEMMA CountedFromZero ==
  ASSUME NEW n \in Nat
  PROVE  IsFiniteSet(0 .. n - 1) /\ Cardinality(0 .. n - 1) = n
<1>1. 0 \in Int /\ n - 1 \in Int
  OBVIOUS
<1>2. /\ IsFiniteSet(0 .. (n - 1))
      /\ Cardinality(0 .. (n - 1)) = IF 0 > n - 1 THEN 0 ELSE (n - 1) - 0 + 1
  BY Zenon, <1>1, FS_Interval
<1>3. (IF 0 > n - 1 THEN 0 ELSE (n - 1) - 0 + 1) = n
  OBVIOUS
<1> QED BY <1>2, <1>3

LEMMA PodsCounted ==
  ASSUME NEW sd, NEW job, job.replicas \in Nat, job.parallelism \in Nat
  PROVE  /\ IsFiniteSet(JobPods(sd, job))
         /\ Cardinality(JobPods(sd, job)) = job.replicas * job.parallelism
<1> DEFINE A == 0 .. job.replicas - 1
           B == 0 .. job.parallelism - 1
           D == A \X B
           T == JobPods(sd, job)
           f == [x \in D |-> Endpoint(job.name, x[1], x[2], sd)]
<1>1. IsFiniteSet(A) /\ Cardinality(A) = job.replicas
  BY Zenon, CountedFromZero
<1>2. IsFiniteSet(B) /\ Cardinality(B) = job.parallelism
  BY Zenon, CountedFromZero
<1>3. T = {Endpoint(job.name, r, i, sd) : r \in A, i \in B}
  BY DEF JobPods
<1> HIDE DEF A, B, T
<1>4. IsFiniteSet(D) /\ Cardinality(D) = job.replicas * job.parallelism
  BY <1>1, <1>2, FS_Product
<1>5. \A x \in D : x[1] \in A /\ x[2] \in B /\ x = <<x[1], x[2]>>
  OBVIOUS
<1>6. \A x \in D : f[x] \in T
  BY <1>3, <1>5
<1>7. \A y \in T : \E x \in D : f[x] = y
  <2> SUFFICES ASSUME NEW r \in A, NEW i \in B
               PROVE  \E x \in D : f[x] = Endpoint(job.name, r, i, sd)
    BY <1>3
  <2>1. <<r, i>> \in D /\ f[<<r, i>>] = Endpoint(job.name, r, i, sd)
    BY Zenon
  <2> QED BY Zenon, <2>1
<1>8. \A x, y \in D : f[x] = f[y] => x = y
  <2> SUFFICES ASSUME NEW x \in D, NEW y \in D, f[x] = f[y] PROVE x = y
    BY Zenon
  <2>1. Endpoint(job.name, x[1], x[2], sd) = Endpoint(job.name, y[1], y[2], sd)
    BY Zenon
  <2>2. x[1] = y[1] /\ x[2] = y[2]
    BY <2>1, EndpointParts
  <2> QED BY Zenon, <1>5, <2>2
<1>9. f \in [D -> T]
  BY Zenon, <1>6
<1> HIDE DEF f, D
<1>10. f \in Bijection(D, T)
  BY Zenon, <1>7, <1>8, <1>9 DEF Bijection, Injection, Surjection, IsInjective
<1>11. ExistsBijection(D, T)
  BY Zenon, <1>10 DEF ExistsBijection
<1>12. IsFiniteSet(T) /\ Cardinality(T) = Cardinality(D)
  BY Zenon, <1>4, <1>11, FS_Bijection
<1> QED BY Zenon, <1>4, <1>12 DEF T

(* The union of disjoint sets P[1], ..., P[n].                             *)
Disjoint(P, n) ==
  /\ \A i \in 1 .. n : IsFiniteSet(P[i])
  /\ \A i, k \in 1 .. n : i # k => P[i] \cap P[k] = {}
Counts(c, P, n) == \A i \in 1 .. n : c[i] \in Nat /\ c[i] = Cardinality(P[i])

LEMMA UnionCounted ==
  ASSUME NEW n \in Nat, NEW P, Disjoint(P, n), NEW c, Counts(c, P, n)
  PROVE  /\ IsFiniteSet(UNION {P[i] : i \in 1 .. n})
         /\ Cardinality(UNION {P[i] : i \in 1 .. n}) = Total(c, 1 .. n)
<1> DEFINE U(k) == UNION {P[i] : i \in 1 .. k}
           W == {k \in 0 .. n : IsFiniteSet(U(k)) /\ Cardinality(U(k)) = Total(c, 1 .. k)}
<1>1. 0 \in W
  <2>1. 1 .. 0 = {} /\ U(0) = {}
    OBVIOUS
  <2>2. Total(c, {}) = 0
    BY Zenon, TotalEmpty
  <2> QED BY <2>1, <2>2, FS_EmptySet
<1>2. ASSUME NEW k \in 1 .. n, k - 1 \in W PROVE k \in W
  <2>1. U(k) = U(k - 1) \union P[k]
    <3>1. 1 .. k = (1 .. k - 1) \union {k}
      OBVIOUS
    <3> QED BY Zenon, <3>1
  <2>2. U(k - 1) \cap P[k] = {}
    <3>1. \A i \in 1 .. k - 1 : P[i] \cap P[k] = {}
      BY DEF Disjoint
    <3> QED BY Zenon, <3>1
  <2> DEFINE L == U(k - 1)
  <2>3. IsFiniteSet(L) /\ Cardinality(L) = Total(c, 1 .. k - 1) /\ IsFiniteSet(P[k])
    BY Zenon, <1>2 DEF Disjoint
  <2>4. c[k] \in Nat /\ c[k] = Cardinality(P[k]) /\ \A i \in 1 .. k : c[i] \in Nat
    BY DEF Counts
  <2>5. Total(c, 1 .. k) = c[k] + Total(c, 1 .. k - 1) /\ Total(c, 1 .. k - 1) \in Nat
    BY SMTT(30), <2>4, TotalLast
  <2> HIDE DEF U, W
  <2>6. /\ IsFiniteSet(L \union P[k])
        /\ Cardinality(L \union P[k]) = Cardinality(L) + Cardinality(P[k]) - Cardinality({})
    BY SMTT(30), <2>2, <2>3, FS_Union
  <2>7. Cardinality({}) = 0
    BY Zenon, FS_EmptySet
  <2>8. Cardinality(U(k)) = Total(c, 1 .. k) /\ IsFiniteSet(U(k))
    <3> HIDE DEF L
    <3> QED BY SMTT(30), <2>1, <2>3, <2>4, <2>5, <2>6, <2>7 DEF L
  <2> QED BY <2>8 DEF W
<1>3. 0 .. n \subseteq W
  <2> HIDE DEF W
  <2> QED BY Zenon, <1>1, <1>2, IntervalInduction
<1>4. n \in W
  BY <1>3
<1> QED BY Zenon, <1>4

(***************************************************************************)
(* The Pods of the jobs of some names, job by job.                         *)
(***************************************************************************)
PodsIn(sd, js, names) ==
  [i \in 1 .. Len(js) |-> IF js[i].name \in names THEN JobPods(sd, js[i]) ELSE {}]

LEMMA PodsAreUnion ==
  ASSUME jobs \in Seq(ReplicatedJobs), NEW names
  PROVE  Pods(names) = UNION {PodsIn(runtime.subdomain, jobs, names)[i] : i \in 1 .. Len(jobs)}
<1> DEFINE P == PodsIn(runtime.subdomain, jobs, names)
           n == Len(jobs)
           U == UNION {P[i] : i \in 1 .. n}
<1>1. DOMAIN jobs = 1 .. n
  OBVIOUS
<1>2. \A i \in 1 .. n : P[i] = IF jobs[i].name \in names THEN PodsOf(jobs[i]) ELSE {}
  BY DEF PodsIn, PodsOf, JobPods
<1>3. Pods(names) = UNION {PodsOf(j) : j \in {x \in Range(jobs) : x.name \in names}}
  BY Zenon DEF Pods
<1>4. Range(jobs) = {jobs[i] : i \in 1 .. n}
  BY Zenon, <1>1 DEF Range
<1> HIDE DEF P, n
<1>5. ASSUME NEW y \in Pods(names) PROVE y \in U
  <2>1. PICK x \in Range(jobs) : x.name \in names /\ y \in PodsOf(x)
    BY Zenon, <1>3
  <2>2. PICK i \in 1 .. n : x = jobs[i]
    BY Zenon, <1>4
  <2>3. y \in P[i]
    BY Zenon, <1>2, <2>1, <2>2
  <2> QED BY Zenon, <2>3
<1>6. ASSUME NEW y \in U PROVE y \in Pods(names)
  <2>1. PICK i \in 1 .. n : y \in P[i]
    BY Zenon
  <2>2. jobs[i].name \in names /\ y \in PodsOf(jobs[i])
    BY Zenon, <1>2, <2>1
  <2> QED BY Zenon, <1>3, <1>4, <2>2
<1>7. Pods(names) = U
  BY Zenon, <1>5, <1>6
<1> QED BY Zenon, <1>7 DEF P, n

Unlike(js) == \A i, k \in 1 .. Len(js) : js[i].name = js[k].name => i = k

LEMMA PodsInDisjoint ==
  ASSUME NEW js, Len(js) \in Nat, Unlike(js), NEW sd, NEW names,
         \A i \in 1 .. Len(js) : js[i].replicas \in Nat /\ js[i].parallelism \in Nat
  PROVE  /\ Disjoint(PodsIn(sd, js, names), Len(js))
         /\ \A i \in 1 .. Len(js) :
              Cardinality(PodsIn(sd, js, names)[i]) =
                IF js[i].name \in names THEN js[i].replicas * js[i].parallelism ELSE 0
<1> DEFINE P == PodsIn(sd, js, names)
           n == Len(js)
<1>1. \A i \in 1 .. n : P[i] = IF js[i].name \in names THEN JobPods(sd, js[i]) ELSE {}
  BY Zenon DEF PodsIn
<1> HIDE DEF P, n
<1>2. \A i \in 1 .. n : js[i].replicas \in Nat /\ js[i].parallelism \in Nat
  BY Zenon DEF n
<1>3. ASSUME NEW i \in 1 .. n
      PROVE  /\ IsFiniteSet(P[i])
             /\ Cardinality(P[i]) =
                  IF js[i].name \in names THEN js[i].replicas * js[i].parallelism ELSE 0
  <2>1. CASE js[i].name \in names
    BY Zenon, <1>1, <1>2, <2>1, PodsCounted
  <2>2. CASE js[i].name \notin names
    BY Zenon, <1>1, <2>2, FS_EmptySet
  <2> QED BY Zenon, <2>1, <2>2
<1>4. \A i \in 1 .. n : \A x \in P[i] : x.job = js[i].name
  <2> TAKE i \in 1 .. n
  <2> TAKE x \in P[i]
  <2>1. x \in JobPods(sd, js[i])
    BY Zenon, <1>1
  <2> QED BY <2>1 DEF JobPods, Endpoint
<1>5. ASSUME NEW i \in 1 .. n, NEW k \in 1 .. n, i # k PROVE P[i] \cap P[k] = {}
  <2>1. js[i].name # js[k].name
    BY Zenon, <1>5 DEF Unlike, n
  <2> QED BY Zenon, <1>4, <2>1
<1>6. Disjoint(P, n)
  BY Zenon, <1>3, <1>5 DEF Disjoint
<1> QED BY Zenon, <1>3, <1>6 DEF P, n

(* The number of the Pods of some jobs.                                    *)
LEMMA PodsOfNames ==
  ASSUME jobs \in Seq(ReplicatedJobs), Unlike(jobs), NEW names, NEW c,
         \A i \in 1 .. Len(jobs) : jobs[i].parallelism \in Nat,
         \A i \in 1 .. Len(jobs) :
           c[i] = IF jobs[i].name \in names THEN jobs[i].replicas * jobs[i].parallelism ELSE 0
  PROVE  Cardinality(Pods(names)) = Total(c, 1 .. Len(jobs))
<1> DEFINE n == Len(jobs)
           P == PodsIn(runtime.subdomain, jobs, names)
<1>1. n \in Nat /\ \A i \in 1 .. n : jobs[i].replicas \in Nat /\ jobs[i].parallelism \in Nat
  <2>1. n \in Nat /\ \A i \in 1 .. n : jobs[i] \in ReplicatedJobs
    BY SMTT(30)
  <2> QED BY Zenon, <2>1 DEF ReplicatedJobs
<1>2. Disjoint(P, n) /\ \A i \in 1 .. n : Cardinality(P[i]) = c[i]
  BY <1>1, PodsInDisjoint
<1>3. \A i \in 1 .. n : c[i] \in Nat
  <2> TAKE i \in 1 .. n
  <2>1. jobs[i].replicas * jobs[i].parallelism \in Nat
    BY SMTT(30), <1>1
  <2> QED BY <2>1
<1>4. Counts(c, P, n)
  BY Zenon, <1>2, <1>3 DEF Counts
<1> HIDE DEF P, n
<1>5. Cardinality(UNION {P[i] : i \in 1 .. n}) = Total(c, 1 .. n)
  BY Zenon, <1>1, <1>2, <1>4, UnionCounted
<1> QED BY Zenon, <1>5, PodsAreUnion DEF P, n

LEMMA SumIsTotal ==
  ASSUME NEW f
  PROVE  SumOver(f) = Total(f, DOMAIN f)
BY Zenon DEF SumOver, Total

(* What is known of the jobs of a JobSet that was created.                 *)
LEMMA CreatedJobs ==
  ASSUME TemplatesAreWellFormed, BuildInv, pc = "Created"
  PROVE  /\ runtime \in RuntimeSpecs /\ trainer \in TrainerSpecs
         /\ DistinctNames(runtime) /\ Described(runtime.jobs, jobs, podSets)
         /\ jobs \in Seq(ReplicatedJobs) /\ Len(jobs) = Len(runtime.jobs) /\ Len(jobs) \in Nat
         /\ DOMAIN jobs = 1 .. Len(jobs) /\ DOMAIN podSets = 1 .. Len(jobs)
         /\ DOMAIN runtime.jobs = 1 .. Len(jobs) /\ Unlike(jobs)
         /\ \A i \in 1 .. Len(jobs) :
              /\ jobs[i].name = runtime.jobs[i].name /\ jobs[i].ancestor = runtime.jobs[i].ancestor
              /\ jobs[i].name \in JobNames /\ jobs[i].replicas = runtime.jobs[i].replicas
              /\ jobs[i].parallelism \in Nat /\ jobs[i].replicas \in Nat \ {0}
              /\ podSets[i].count \in Nat /\ podSets[i].count = jobs[i].replicas * jobs[i].parallelism
              /\ podSets[i].gpus = jobs[i].gpus /\ jobs[i].gpus \in Nat
<1> DEFINE n == Len(jobs)
           tmpl == runtime.jobs
<1>1. runtime \in RuntimeSpecs /\ trainer \in TrainerSpecs /\ DistinctNames(runtime)
  BY Zenon, InputTypes DEF BuildInv, WellFormed
<1>2. Described(tmpl, jobs, podSets) /\ Synced(jobs, podSets)
  BY Zenon DEF BuildInv, Late
<1>3. /\ jobs \in Seq(ReplicatedJobs) /\ n = Len(tmpl) /\ n \in Nat
      /\ DOMAIN jobs = 1 .. n /\ DOMAIN podSets = 1 .. n
      /\ \A i \in 1 .. n : jobs[i] \in ReplicatedJobs /\ podSets[i] \in PodSetType
  BY <1>2 DEF Described
<1>4. DOMAIN tmpl = 1 .. n
  BY SMTT(30), <1>1, <1>3 DEF RuntimeSpecs
<1>5. \A i \in 1 .. n : /\ jobs[i].name = tmpl[i].name /\ jobs[i].ancestor = tmpl[i].ancestor
                        /\ jobs[i].replicas = tmpl[i].replicas /\ podSets[i].gpus = jobs[i].gpus
  BY Zenon, <1>2, <1>3 DEF Described
<1>6. \A i \in 1 .. n : jobs[i].name \in JobNames /\ jobs[i].gpus \in Nat /\ podSets[i].count \in Nat
  <2> TAKE i \in 1 .. n
  <2>1. jobs[i] \in ReplicatedJobs /\ podSets[i] \in PodSetType
    BY Zenon, <1>3
  <2> QED BY Zenon, <2>1 DEF ReplicatedJobs, PodSetType
<1>7. \A i \in 1 .. n : /\ jobs[i].parallelism \in Nat /\ jobs[i].replicas \in Nat \ {0}
                        /\ podSets[i].count = jobs[i].replicas * jobs[i].parallelism
  BY Zenon, <1>2, <1>3 DEF Synced
<1>8. Unlike(jobs)
  BY <1>1, <1>4, <1>5 DEF Unlike, DistinctNames
<1> HIDE DEF n
<1>9. /\ jobs \in Seq(ReplicatedJobs) /\ n = Len(tmpl) /\ n \in Nat
      /\ DOMAIN jobs = 1 .. n /\ DOMAIN podSets = 1 .. n
  BY Zenon, <1>3
<1> QED BY Zenon, <1>1, <1>2, <1>9, <1>4, <1>5, <1>6, <1>7, <1>8 DEF n

\* The gang is the JobSet, for every number of jobs, replicas and Pods: minMember
\* and minResources, which Build of the gang plugins sums over the PodSets, are the
\* Pods and the GPUs of the JobSet that syncParallelCount sized.
THEOREM GangAlwaysMatches ==
  ASSUME \A rt \in Runtimes : WellFormed(rt)
  PROVE  Spec => []GangMatchesJobSet
<1>1. TemplatesAreWellFormed
  BY Zenon DEF TemplatesAreWellFormed
<1>2. BuildInv => GangMatchesJobSet
  <2> SUFFICES ASSUME BuildInv, pc = "Created"
               PROVE  /\ podGroup.minMember = Cardinality(AllPods)
                      /\ podGroup.gpus =
                           SumOver([i \in DOMAIN jobs |-> jobs[i].gpus * Cardinality(PodsOf(jobs[i]))])
    BY Zenon DEF GangMatchesJobSet
  <2> DEFINE n == Len(jobs)
             c == [i \in DOMAIN podSets |-> podSets[i].count]
             g == [i \in DOMAIN podSets |-> podSets[i].count * podSets[i].gpus]
             h == [i \in DOMAIN jobs |-> jobs[i].gpus * Cardinality(PodsOf(jobs[i]))]
  <2>1. /\ jobs \in Seq(ReplicatedJobs) /\ n \in Nat
        /\ DOMAIN jobs = 1 .. n /\ DOMAIN podSets = 1 .. n /\ Unlike(jobs)
    BY Zenon, <1>1, CreatedJobs
  <2>2. \A i \in 1 .. n :
          /\ jobs[i].name \in JobNames /\ jobs[i].parallelism \in Nat /\ jobs[i].replicas \in Nat
          /\ podSets[i].count \in Nat /\ podSets[i].count = jobs[i].replicas * jobs[i].parallelism
          /\ podSets[i].gpus = jobs[i].gpus /\ jobs[i].gpus \in Nat
    BY Zenon, <1>1, CreatedJobs
  <2>3. podGroup.minMember = SumOver(c) /\ podGroup.gpus = SumOver(g)
    BY SMTT(30) DEF BuildInv, GroupOf
  <2>4. /\ \A i \in 1 .. n : c[i] = podSets[i].count /\ g[i] = podSets[i].count * podSets[i].gpus
        /\ \A i \in 1 .. n : h[i] = jobs[i].gpus * Cardinality(PodsOf(jobs[i]))
        /\ DOMAIN c = 1 .. n /\ DOMAIN g = 1 .. n /\ DOMAIN h = 1 .. n
    BY Zenon, <2>1
  <2> HIDE DEF c, g, h, n
  <2>5. Cardinality(AllPods) = Total(c, 1 .. n)
    <3>1. \A i \in 1 .. n : jobs[i].parallelism \in Nat
      BY Zenon, <2>2
    <3>2. \A i \in 1 .. n :
            c[i] = IF jobs[i].name \in JobNames THEN jobs[i].replicas * jobs[i].parallelism ELSE 0
      BY Zenon, <2>2, <2>4
    <3> QED BY Zenon, <2>1, <3>1, <3>2, PodsOfNames DEF AllPods, n
  <2>6. \A i \in 1 .. n : g[i] \in Nat /\ h[i] = g[i]
    <3> TAKE i \in 1 .. n
    <3>1. PodsOf(jobs[i]) = JobPods(runtime.subdomain, jobs[i])
      BY SMTT(30) DEF PodsOf, JobPods
    <3>2. Cardinality(PodsOf(jobs[i])) = podSets[i].count
      BY <2>2, <3>1, PodsCounted
    <3> DEFINE x == podSets[i].count
               y == jobs[i].gpus
    <3>3. x \in Nat /\ y \in Nat /\ g[i] = x * y /\ h[i] = y * x
      BY Zenon, <2>2, <2>4, <3>2
    <3> HIDE DEF x, y
    <3> QED BY <3>3
  <2>7. Total(g, 1 .. n) = Total(h, 1 .. n)
    <3> DEFINE S == 1 .. n
    <3>1. IsFiniteSet(S)
      BY <2>1, FS_Interval
    <3>2. \A i \in S : g[i] \in Nat /\ h[i] = g[i]
      BY Zenon, <2>6
    <3> HIDE DEF S
    <3>3. Total(g, S) = Total(h, S)
      BY Zenon, <3>1, <3>2, TotalSame
    <3> QED BY Zenon, <3>3 DEF S
  <2>8. SumOver(c) = Total(c, 1 .. n) /\ SumOver(g) = Total(g, 1 .. n) /\ SumOver(h) = Total(h, 1 .. n)
    BY Zenon, <2>4, SumIsTotal
  <2> QED BY Zenon, <2>3, <2>5, <2>7, <2>8 DEF h
<1>3. Spec => []BuildInv
  BY Zenon, <1>1, BuildHolds
<1> QED BY <1>2, <1>3, PTL

-----------------------------------------------------------------------------
(***************************************************************************)
(* The Pods of the trainer, and the ranks of one replica.                  *)
(***************************************************************************)
LEMMA OneReplicaPods ==
  ASSUME NEW sd, NEW job, job.replicas = 1
  PROVE  JobPods(sd, job) = {Endpoint(job.name, 0, i, sd) : i \in 0 .. job.parallelism - 1}
<1>1. 0 .. job.replicas - 1 = {0}
  BY SMTT(30)
<1> QED BY <1>1 DEF JobPods

LEMMA TrainerPodsFound ==
  ASSUME TemplatesAreWellFormed, BuildInv, pc = "Created", OneTrainer(runtime)
  PROVE  \E t \in 1 .. Len(jobs) :
           /\ FirstTrainer(runtime, t)
           /\ jobs[t].name = "node" \/ (runtime.policy = "MPI" /\ jobs[t].name = "launcher")
           /\ TrainerPods = JobPods(runtime.subdomain, jobs[t])
           /\ Cardinality(TrainerPods) = podSets[t].count
<1> DEFINE n == Len(jobs)
           tmpl == runtime.jobs
<1>1. /\ runtime \in RuntimeSpecs /\ n = Len(tmpl) /\ DOMAIN jobs = 1 .. n
      /\ \A i \in 1 .. n :
           /\ jobs[i].name = tmpl[i].name /\ jobs[i].ancestor = tmpl[i].ancestor
           /\ jobs[i].parallelism \in Nat /\ jobs[i].replicas \in Nat
           /\ podSets[i].count = jobs[i].replicas * jobs[i].parallelism
  BY Zenon, CreatedJobs
<1>2. PICK t \in 1 .. n :
        /\ FirstTrainer(runtime, t)
        /\ \A i \in 1 .. n : tmpl[i].ancestor = "trainer" <=> i = t
        /\ tmpl[t].name = "node" \/ (runtime.policy = "MPI" /\ tmpl[t].name = "launcher")
  BY SMTT(30), <1>1, TheTrainer
<1> HIDE DEF n, tmpl
<1>3. Range(jobs) = {jobs[i] : i \in 1 .. n}
  BY Zenon, <1>1 DEF Range
<1>4. {x \in Range(jobs) : IsTrainer(x)} = {jobs[t]}
  <2>1. \A i \in 1 .. n : jobs[i].ancestor = "trainer" <=> i = t
    BY SMTT(30), <1>1, <1>2
  <2>2. \A i \in 1 .. n : jobs[i] \in {x \in Range(jobs) : IsTrainer(x)} => i = t
    BY Zenon, <2>1 DEF IsTrainer
  <2>3. jobs[t] \in {x \in Range(jobs) : IsTrainer(x)}
    BY Zenon, <1>3, <2>1 DEF IsTrainer
  <2>4. \A x \in Range(jobs) : \E i \in 1 .. n : x = jobs[i]
    BY Zenon, <1>3
  <2> QED BY Zenon, <2>2, <2>3, <2>4
<1>5. TrainerPods = PodsOf(jobs[t])
  BY Zenon, <1>4 DEF TrainerPods
<1>6. PodsOf(jobs[t]) = JobPods(runtime.subdomain, jobs[t])
  BY SMTT(30) DEF PodsOf, JobPods
<1>7. Cardinality(JobPods(runtime.subdomain, jobs[t])) = podSets[t].count
  BY SMTT(30), <1>1, PodsCounted
<1> QED BY Zenon, <1>1, <1>2, <1>5, <1>6, <1>7 DEF n

(* Where there is a world, it is the Pods of one job node, in the default  *)
(* subdomain.                                                              *)
LEMMA WorldPods ==
  ASSUME TemplatesAreWellFormed, BuildInv, pc = "Created", OneTrainer(runtime),
         MeetsInDefault(runtime), world.size # Unset
  PROVE  LET c == Cardinality(TrainerPods)
         IN /\ c \in Nat /\ world.size = c * Workers(runtime, trainer, podSets)
            /\ TrainerPods = {Endpoint("node", 0, i, "default") : i \in 0 .. c - 1}
<1>1. PICK t \in 1 .. Len(jobs) :
        /\ FirstTrainer(runtime, t)
        /\ jobs[t].name = "node" \/ (runtime.policy = "MPI" /\ jobs[t].name = "launcher")
        /\ TrainerPods = JobPods(runtime.subdomain, jobs[t])
        /\ Cardinality(TrainerPods) = podSets[t].count
  BY Zenon, TrainerPodsFound
<1>2. WorldOK(runtime, trainer, podSets, world)
  BY Zenon DEF BuildInv
<1>3. /\ runtime.policy \in {"Torch", "JAX", "XGBoost", "Flux"}
      /\ world.size = podSets[t].count * Workers(runtime, trainer, podSets)
      /\ runtime.jobs[t].replicas = 1
  BY Zenon, <1>1, <1>2 DEF WorldOK
<1>4. runtime.subdomain = "default"
  BY Zenon, <1>3 DEF MeetsInDefault
<1>5. /\ jobs[t].replicas = 1 /\ jobs[t].parallelism \in Nat
      /\ podSets[t].count = jobs[t].replicas * jobs[t].parallelism
  BY ZenonT(30), <1>3, CreatedJobs
<1>6. podSets[t].count = jobs[t].parallelism
  BY SMTT(30), <1>5
<1>7. TrainerPods = {Endpoint("node", 0, i, "default") : i \in 0 .. jobs[t].parallelism - 1}
  <2>1. jobs[t].name = "node"
    BY Zenon, <1>1, <1>3
  <2>2. TrainerPods = JobPods("default", jobs[t])
    BY Zenon, <1>1, <1>4
  <2>3. JobPods("default", jobs[t]) =
          {Endpoint(jobs[t].name, 0, i, "default") : i \in 0 .. jobs[t].parallelism - 1}
    BY Zenon, <1>5, OneReplicaPods
  <2> QED BY ZenonT(30), <2>1, <2>2, <2>3
<1>8. Cardinality(TrainerPods) = jobs[t].parallelism
  BY Zenon, <1>1, <1>6
<1>9. world.size = jobs[t].parallelism * Workers(runtime, trainer, podSets)
  BY Zenon, <1>3, <1>6
<1> QED BY Zenon, <1>5, <1>7, <1>8, <1>9

\* For every size: where Torch, JAX, XGBoost or Flux is told how many members it has,
\* the completion indexes of the trainer Pods are the ranks, from 0 and each once, the
\* number told is that of the Pods (of XGBoost, that of the Pods times the GPUs of
\* one), and the Pod with rank 0 has the address at which they meet (EnforceMLPolicy
\* of the plugins, syncParallelCount).
THEOREM RanksAlwaysMatch ==
  ASSUME \A rt \in Runtimes : WellFormed(rt)
  PROVE  Spec => []RanksMatchWorld
<1>1. TemplatesAreWellFormed
  BY Zenon DEF TemplatesAreWellFormed
<1>2. BuildInv => RanksMatchWorld
  <2> DEFINE c == Cardinality(TrainerPods)
  <2> SUFFICES ASSUME BuildInv, pc = "Created", world.size # Unset
               PROVE  /\ {p.index : p \in TrainerPods} = 0 .. c - 1
                      /\ world.size = c * WorkersPerRank
                      /\ TrainerPods # {} => MasterAddr \in TrainerPods
    BY Zenon DEF RanksMatchWorld
  <2> DEFINE R == 0 .. c - 1
             T == {Endpoint("node", 0, i, "default") : i \in R}
  <2>1. OneTrainer(runtime) /\ MeetsInDefault(runtime)
    BY Zenon DEF BuildInv, WellFormed
  <2>2. c \in Nat /\ world.size = c * Workers(runtime, trainer, podSets) /\ TrainerPods = T
    BY Zenon, <1>1, <2>1, WorldPods
  <2>3. WorkersPerRank = Workers(runtime, trainer, podSets)
    BY Zenon, <1>1, CreatedJobs, WorkersFound
  <2> HIDE DEF c
  <2>4. R # {} => 0 \in R
    BY <2>2
  <2> HIDE DEF R
  <2>5. \A i \in R : Endpoint("node", 0, i, "default").index = i
    BY Zenon DEF Endpoint
  <2>6. {p.index : p \in T} = R
    BY Zenon, <2>5
  <2>7. 0 \in R => MasterAddr \in T
    BY DEF MasterAddr
  <2>8. T # {} => R # {}
    BY Zenon
  <2> HIDE DEF T
  <2> QED BY Zenon, <2>2, <2>3, <2>4, <2>6, <2>7, <2>8 DEF R
<1>3. Spec => []BuildInv
  BY Zenon, <1>1, BuildHolds
<1> QED BY <1>2, <1>3, PTL

-----------------------------------------------------------------------------
(***************************************************************************)
(* The hosts of MPI: the endpoints of a job, replica by replica, are its   *)
(* Pods, each once.                                                        *)
(***************************************************************************)
Hosting(name, sd, r, per) ==
  [k \in 1 .. r * per |-> Endpoint(name, (k - 1) \div per, (k - 1) % per, sd)]
PodGrid(name, sd, r, per) ==
  {Endpoint(name, a, b, sd) : a \in 0 .. r - 1, b \in 0 .. per - 1}
EndpointType(sd) == [job : JobNames, replica : Nat, index : Nat, subdomain : {sd}]

LEMMA PlaceOfHost ==
  ASSUME NEW r \in Nat, NEW per \in Nat \ {0}, NEW k \in 1 .. r * per
  PROVE  /\ (k - 1) \div per \in 0 .. r - 1 /\ (k - 1) % per \in 0 .. per - 1
         /\ k = (((k - 1) \div per) * per) + (((k - 1) % per) + 1)
<1> DEFINE q == (k - 1) \div per
           m == (k - 1) % per
           N == r * per
           x == q * per
<1>1. N \in Nat
  OBVIOUS
<1>2. k - 1 \in Nat /\ k - 1 < N
  <2> HIDE DEF N
  <2>1. k \in 1 .. N
    BY DEF N
  <2> QED BY <1>1, <2>1
<1>3. q \in Nat /\ m \in 0 .. per - 1 /\ k - 1 = (per * q) + m
  BY Zenon, <1>2, Division
<1>4. per * q = x /\ x \in Nat
  <2> HIDE DEF q
  <2> QED BY <1>3
<1> HIDE DEF q, m
<1>5. q < r
  <2> SUFFICES ASSUME r <= q PROVE FALSE
    BY <1>3
  <2>1. N <= x
    BY Zenon, <1>3, MultiplicationMonotone
  <2> HIDE DEF N, x
  <2> QED BY <1>1, <1>2, <1>3, <1>4, <2>1
<1>6. k = x + (m + 1)
  <2>1. k \in Int
    OBVIOUS
  <2> HIDE DEF x, N
  <2> QED BY <1>2, <1>3, <1>4, <2>1
<1>7. q \in 0 .. r - 1
  BY <1>3, <1>5
<1> QED BY Zenon, <1>3, <1>6, <1>7 DEF q, m, x

LEMMA HostOfPlace ==
  ASSUME NEW r \in Nat, NEW per \in Nat \ {0}, NEW a \in 0 .. r - 1, NEW b \in 0 .. per - 1
  PROVE  \E k \in 1 .. r * per : (k - 1) \div per = a /\ (k - 1) % per = b
<1> DEFINE x == a * per
           N == r * per
           k == x + (b + 1)
<1>1. x \in Nat /\ N \in Nat /\ (a + 1) * per <= N /\ (a + 1) * per = x + per
  <2>1. a \in Nat /\ a + 1 \in Nat /\ a + 1 <= r /\ per \in Nat
    OBVIOUS
  <2>2. (a + 1) * per <= N
    BY Zenon, <2>1, MultiplicationMonotone
  <2> QED BY <2>1, <2>2
<1>2. k \in 1 .. N
  <2> HIDE DEF x, N
  <2> QED BY <1>1
<1>3. /\ k = (((k - 1) \div per) * per) + (((k - 1) % per) + 1)
      /\ (k - 1) \div per \in 0 .. r - 1 /\ (k - 1) % per \in 0 .. per - 1
  <2> HIDE DEF k
  <2> QED BY Zenon, <1>2, PlaceOfHost DEF N
<1> DEFINE q == (k - 1) \div per
           m == (k - 1) % per
<1> HIDE DEF q, m
<1>4. a * per + (b + 1) = q * per + (m + 1)
  BY Zenon, <1>3 DEF q, m
<1>5. q \in Nat /\ m + 1 \in 1 .. per /\ b + 1 \in 1 .. per /\ a \in Nat
  BY <1>3 DEF q, m
<1>6. a = q /\ b + 1 = m + 1
  <2> HIDE DEF k
  <2> QED BY <1>4, <1>5, OnePlace
<1>7. b = m
  <2>1. m \in Nat /\ b \in Nat
    BY <1>3 DEF m
  <2> QED BY <1>6, <2>1
<1> HIDE DEF k
<1> QED BY Zenon, <1>2, <1>6, <1>7 DEF q, m, N

LEMMA HostingIsPods ==
  ASSUME NEW name \in JobNames, NEW sd, NEW r \in Nat, NEW per \in Nat
  PROVE  /\ Hosting(name, sd, r, per) \in Seq(EndpointType(sd))
         /\ Range(Hosting(name, sd, r, per)) = PodGrid(name, sd, r, per)
         /\ IsInjective(Hosting(name, sd, r, per))
<1> DEFINE N == r * per
           h == Hosting(name, sd, r, per)
           Pd == {Endpoint(name, a, b, sd) : a \in 0 .. r - 1, b \in 0 .. per - 1}
           q(k) == (k - 1) \div per
           m(k) == (k - 1) % per
<1>1. N \in Nat /\ h = [k \in 1 .. N |-> Endpoint(name, q(k), m(k), sd)]
  BY DEF Hosting
<1>2. CASE per = 0
  <2>1. N = 0 /\ 1 .. N = {} /\ 0 .. per - 1 = {}
    BY <1>2
  <2>2. h = [k \in {} |-> Endpoint(name, q(k), m(k), sd)]
    BY Zenon, <1>1, <2>1
  <2>3. h = <<>> /\ DOMAIN h = {}
    BY <2>2
  <2>4. Pd = {}
    BY <2>1
  <2> HIDE DEF h, Pd
  <2>5. h \in Seq(EndpointType(sd)) /\ Range(h) = {} /\ IsInjective(h)
    BY <2>3 DEF Range, IsInjective
  <2>6. h \in Seq(EndpointType(sd)) /\ Range(h) = Pd /\ IsInjective(h)
    BY Zenon, <2>4, <2>5
  <2> QED BY <2>6 DEF h, Pd, PodGrid
<1>3. CASE per # 0
  <2>1. ASSUME NEW k \in 1 .. N
        PROVE  q(k) \in 0 .. r - 1 /\ m(k) \in 0 .. per - 1 /\ k = q(k) * per + (m(k) + 1)
    BY Zenon, <1>3, <2>1, PlaceOfHost
  <2>2. \A a \in 0 .. r - 1, b \in 0 .. per - 1 : \E k \in 1 .. N : q(k) = a /\ m(k) = b
    BY Zenon, <1>3, HostOfPlace
  <2> HIDE DEF q, m, N, h
  <2>3. DOMAIN h = 1 .. N /\ \A k \in 1 .. N : h[k] = Endpoint(name, q(k), m(k), sd)
    BY Zenon, <1>1
  <2>4. \A k \in 1 .. N : h[k] \in EndpointType(sd)
    BY <2>1, <2>3 DEF EndpointType, Endpoint
  <2>5. h \in Seq(EndpointType(sd))
    BY <1>1, <2>4
  <2>6. Range(h) = {h[k] : k \in 1 .. N}
    BY Zenon, <2>3 DEF Range
  <2>7. Range(h) \subseteq Pd
    BY SMTT(30), <2>1, <2>3, <2>6
  <2>8. Pd \subseteq Range(h)
    <3> SUFFICES ASSUME NEW a \in 0 .. r - 1, NEW b \in 0 .. per - 1
                 PROVE  Endpoint(name, a, b, sd) \in Range(h)
      OBVIOUS
    <3> QED BY <2>2, <2>3, <2>6
  <2>9. ASSUME NEW k \in 1 .. N, NEW l \in 1 .. N, h[k] = h[l] PROVE k = l
    <3>1. q(k) = q(l) /\ m(k) = m(l)
      BY <2>3, <2>9, EndpointParts
    <3>2. k = q(k) * per + (m(k) + 1) /\ l = q(l) * per + (m(l) + 1)
      BY Zenon, <2>1
    <3> QED BY Zenon, <3>1, <3>2
  <2>10. IsInjective(h)
    BY Zenon, <2>3, <2>9 DEF IsInjective
  <2> QED BY <2>5, <2>7, <2>8, <2>10 DEF h, PodGrid
<1> QED BY Zenon, <1>2, <1>3

(* Appending lists without a common element, and a list of such lists.     *)
LEMMA JoinedInjective ==
  ASSUME NEW T, NEW s \in Seq(T), NEW u \in Seq(T), IsInjective(s), IsInjective(u),
         Range(s) \cap Range(u) = {}
  PROVE  s \o u \in Seq(T) /\ Range(s \o u) = Range(s) \union Range(u) /\ IsInjective(s \o u)
<1> DEFINE l == Len(s)
           m == Len(u)
           v == s \o u
<1>1. /\ l \in Nat /\ m \in Nat /\ DOMAIN s = 1 .. l /\ DOMAIN u = 1 .. m
      /\ v \in Seq(T) /\ DOMAIN v = 1 .. l + m
      /\ \A i \in 1 .. l + m : v[i] = IF i <= l THEN s[i] ELSE u[i - l]
  OBVIOUS
<1> HIDE DEF l, m, v
<1>2. /\ Range(s) = {s[i] : i \in 1 .. l} /\ Range(u) = {u[i] : i \in 1 .. m}
      /\ Range(v) = {v[i] : i \in 1 .. l + m}
  BY Zenon, <1>1 DEF Range
<1>3. \A i \in 1 .. l : i \in 1 .. l + m /\ v[i] = s[i]
  BY <1>1
<1>4. \A i \in 1 .. m : l + i \in 1 .. l + m /\ v[l + i] = u[i]
  <2> TAKE i \in 1 .. m
  <2>1. l + i \in 1 .. l + m /\ ~(l + i <= l) /\ (l + i) - l = i
    BY <1>1
  <2> QED BY Zenon, <1>1, <2>1
<1>5. \A i \in 1 .. l + m : \/ i \in 1 .. l /\ v[i] = s[i]
                            \/ i - l \in 1 .. m /\ v[i] = u[i - l] /\ ~(i <= l)
  BY <1>1
<1>6. Range(v) = Range(s) \union Range(u)
  <2>1. Range(v) \subseteq Range(s) \union Range(u)
    BY Zenon, <1>2, <1>5
  <2>2. Range(s) \subseteq Range(v)
    BY Zenon, <1>2, <1>3
  <2>3. Range(u) \subseteq Range(v)
    <3> SUFFICES ASSUME NEW i \in 1 .. m PROVE u[i] \in Range(v)
      BY Zenon, <1>2
    <3> QED BY Zenon, <1>2, <1>4
  <2> QED BY Zenon, <2>1, <2>2, <2>3
<1>7. ASSUME NEW i \in 1 .. l + m, NEW k \in 1 .. l + m, v[i] = v[k] PROVE i = k
  <2>1. i \in Int /\ k \in Int
    OBVIOUS
  <2>2. CASE i \in 1 .. l /\ k \in 1 .. l
    BY ZenonT(30), <1>1, <1>3, <1>7, <2>2 DEF IsInjective
  <2>3. CASE i \notin 1 .. l /\ k \notin 1 .. l
    <3>1. /\ i - l \in 1 .. m /\ v[i] = u[i - l]
          /\ k - l \in 1 .. m /\ v[k] = u[k - l]
      BY Zenon, <1>5, <2>3
    <3>2. i - l = k - l
      BY Zenon, <1>1, <1>7, <3>1 DEF IsInjective
    <3> QED BY SMTT(30), <1>1, <2>1, <3>2
  <2>4. CASE i \in 1 .. l /\ k \notin 1 .. l
    <3>1. v[i] \in Range(s) /\ v[k] \in Range(u)
      BY Zenon, <1>2, <1>5, <1>3, <2>4
    <3> QED BY Zenon, <1>7, <3>1
  <2>5. CASE i \notin 1 .. l /\ k \in 1 .. l
    <3>1. v[k] \in Range(s) /\ v[i] \in Range(u)
      BY Zenon, <1>2, <1>5, <1>3, <2>5
    <3> QED BY Zenon, <1>7, <3>1
  <2> QED BY Zenon, <2>2, <2>3, <2>4, <2>5
<1>8. IsInjective(v)
  BY Zenon, <1>1, <1>7 DEF IsInjective
<1> QED BY Zenon, <1>1, <1>6, <1>8 DEF v

Apart(seqs, n) ==
  /\ \A i \in 1 .. n : IsInjective(seqs[i])
  /\ \A i, k \in 1 .. n : i # k => Range(seqs[i]) \cap Range(seqs[k]) = {}

LEMMA FlattenInjective ==
  ASSUME NEW T, NEW V, V = Seq(T), NEW n \in Nat \ {0}, NEW seqs \in Seq(V), Len(seqs) = n,
         Apart(seqs, n)
  PROVE  /\ Range(FlattenSeq(seqs)) = UNION {Range(seqs[i]) : i \in 1 .. n}
         /\ IsInjective(FlattenSeq(seqs))
<1>1. PICK fl \in [1 .. n -> V] : IsFlatten(fl, n, seqs)
  BY Zenon, FlattenLoop
<1> DEFINE U(k) == UNION {Range(seqs[i]) : i \in 1 .. k}
           Ok(k) == Range(fl[k]) = U(k) /\ IsInjective(fl[k])
           W == {k \in 0 .. n : k = 0 \/ Ok(k)}
<1>2. \A i \in 1 .. n : seqs[i] \in V /\ fl[i] \in V
  OBVIOUS
<1>3. FlattenSeq(seqs) = fl[n]
  BY Zenon, <1>1 DEF IsFlatten
<1>0. \A k \in 1 .. n : fl[k] = IF k = 1 THEN seqs[k] ELSE fl[k - 1] \o seqs[k]
  BY Zenon, <1>1 DEF IsFlatten
<1>4. 0 \in W
  OBVIOUS
<1>5. ASSUME NEW k \in 1 .. n, k - 1 \in W PROVE k \in W
  <2>1. CASE k = 1
    <3>1. U(1) = Range(seqs[1])
      OBVIOUS
    <3>2. IsInjective(seqs[1])
      BY DEF Apart
    <3> HIDE DEF U
    <3> QED BY <1>0, <2>1, <3>1, <3>2
  <2>2. CASE k # 1
    <3>1. k \in 2 .. n /\ k - 1 \in 1 .. n
      BY <2>2
    <3>2. Ok(k - 1)
      BY SMTT(30), <1>5, <3>1
    <3>3. U(k) = U(k - 1) \union Range(seqs[k])
      <4>1. 1 .. k = (1 .. k - 1) \union {k}
        OBVIOUS
      <4> QED BY Zenon, <4>1
    <3>4. U(k - 1) \cap Range(seqs[k]) = {}
      <4>1. \A i \in 1 .. k - 1 : Range(seqs[i]) \cap Range(seqs[k]) = {}
        BY <3>1 DEF Apart
      <4> QED BY Zenon, <4>1
    <3>5. IsInjective(seqs[k])
      BY Zenon DEF Apart
    <3> HIDE DEF U
    <3>6. fl[k - 1] \in Seq(T) /\ seqs[k] \in Seq(T)
      BY Zenon, <1>2, <3>1
    <3>7. Range(fl[k - 1]) \cap Range(seqs[k]) = {} /\ IsInjective(fl[k - 1])
      BY Zenon, <3>2, <3>4
    <3>8. /\ Range(fl[k - 1] \o seqs[k]) = Range(fl[k - 1]) \union Range(seqs[k])
          /\ IsInjective(fl[k - 1] \o seqs[k])
      BY SMTT(30), <3>5, <3>6, <3>7, JoinedInjective
    <3>9. fl[k] = fl[k - 1] \o seqs[k]
      BY Zenon, <1>0, <2>2
    <3>10. Ok(k)
      BY <3>2, <3>3, <3>8, <3>9
    <3> QED BY <3>10
  <2> QED BY Zenon, <2>1, <2>2
<1>6. 0 .. n \subseteq W
  <2> HIDE DEF W
  <2> QED BY Zenon, <1>4, <1>5, IntervalInduction
<1>7. n \in W /\ n # 0
  <2> HIDE DEF W
  <2> QED BY <1>6
<1> QED BY Zenon, <1>3, <1>7

LEMMA QuotientOfProduct ==
  ASSUME NEW a \in Nat, NEW b \in Nat \ {0}
  PROVE  (b * a) \div b = a
<1> DEFINE c == a * b
           q == c \div b
           m == c % b
           x == q * b
<1>1. c \in Nat /\ c % b = 0
  BY SMTT(30), ProductDivides
<1>2. q \in Nat /\ c = (b * q) + m /\ m = 0
  BY Zenon, <1>1, Division
<1> HIDE DEF q, m
<1>3. b * q = x /\ x \in Nat
  BY <1>2
<1>4. a * b + 1 = q * b + 1
  <2> HIDE DEF c, x
  <2>1. c = x
    BY SMTT(30), <1>1, <1>2, <1>3
  <2> QED BY Zenon, <2>1 DEF c, x
<1>5. a = q
  <2>1. 1 \in 1 .. b
    OBVIOUS
  <2> HIDE DEF c, x
  <2> QED BY Zenon, <1>2, <1>4, <2>1, OnePlace
<1>6. b * a = c
  OBVIOUS
<1> HIDE DEF c
<1> QED BY Zenon, <1>5, <1>6 DEF q

LEMMA HostingOfJob ==
  ASSUME NEW sd, NEW job, job.name \in JobNames, job.replicas \in Nat, job.parallelism \in Nat
  PROVE  LET h == Hosting(job.name, sd, job.replicas, job.parallelism)
         IN h \in Seq(EndpointType(sd)) /\ Range(h) = JobPods(sd, job) /\ IsInjective(h)
<1> DEFINE name == job.name
           r == job.replicas
           per == job.parallelism
<1>1. /\ name \in JobNames /\ r \in Nat /\ per \in Nat
      /\ JobPods(sd, job) = PodGrid(name, sd, r, per)
  BY DEF JobPods, PodGrid
<1> HIDE DEF name, r, per
<1>2. /\ Hosting(name, sd, r, per) \in Seq(EndpointType(sd))
      /\ Range(Hosting(name, sd, r, per)) = PodGrid(name, sd, r, per)
      /\ IsInjective(Hosting(name, sd, r, per))
  BY Zenon, <1>1, HostingIsPods
<1> QED BY Zenon, <1>1, <1>2 DEF name, r, per

LEMMA MPIHosts ==
  ASSUME TemplatesAreWellFormed, BuildInv, pc = "Created", runtime.policy = "MPI", jobs # <<>>
  PROVE  Range(hostfile) = Pods(MPIJobNames) /\ IsInjective(hostfile)
<1> DEFINE n == Len(jobs)
           sd == runtime.subdomain
           seqs == HostSeqs(runtime, jobs, podSets)
           P == PodsIn(sd, jobs, MPIJobNames)
           T == EndpointType(sd)
           V == Seq(T)
<1>1. /\ jobs \in Seq(ReplicatedJobs) /\ n \in Nat /\ DOMAIN jobs = 1 .. n /\ Unlike(jobs)
  BY Zenon, CreatedJobs
<1>2. \A i \in 1 .. n :
        /\ jobs[i].name \in JobNames /\ jobs[i].parallelism \in Nat /\ jobs[i].replicas \in Nat \ {0}
        /\ podSets[i].count = jobs[i].replicas * jobs[i].parallelism
  BY Zenon, CreatedJobs
<1>3. hostfile = FlattenSeq(seqs)
  BY Zenon DEF BuildInv, HostsOf
<1>4. n \in Nat \ {0}
  BY <1>1
<1>5. seqs = [i \in 1 .. n |-> seqs[i]] /\ DOMAIN seqs = 1 .. n
  BY Zenon, <1>1 DEF HostSeqs
<1>6. \A i \in 1 .. n : seqs[i] = IF IsNodeOf(runtime, jobs, i)
                                  THEN EndpointsOf(runtime, jobs, podSets, i) ELSE <<>>
  BY Zenon, <1>1 DEF HostSeqs
<1>7. \A i \in 1 .. n : IsNodeOf(runtime, jobs, i) <=> jobs[i].name \in MPIJobNames
  BY Zenon DEF IsNodeOf, MPIJobNames
<1>8. ASSUME NEW i \in 1 .. n
      PROVE  EndpointsOf(runtime, jobs, podSets, i) =
               Hosting(jobs[i].name, sd, jobs[i].replicas, jobs[i].parallelism)
  <2>1. podSets[i].count \div jobs[i].replicas = jobs[i].parallelism
    <3>1. /\ podSets[i].count = jobs[i].replicas * jobs[i].parallelism
          /\ jobs[i].parallelism \in Nat /\ jobs[i].replicas \in Nat \ {0}
      BY Zenon, <1>2
    <3>2. (jobs[i].replicas * jobs[i].parallelism) \div jobs[i].replicas = jobs[i].parallelism
      BY Zenon, <3>1, QuotientOfProduct
    <3> QED BY Zenon, <3>1, <3>2
  <2> QED BY Zenon, <2>1 DEF EndpointsOf, Hosting
<1>9. \A i \in 1 .. n : P[i] = IF jobs[i].name \in MPIJobNames THEN JobPods(sd, jobs[i]) ELSE {}
  BY Zenon DEF PodsIn
<1> HIDE DEF n, sd, seqs, P, T
<1>10. ASSUME NEW i \in 1 .. n
       PROVE  seqs[i] \in Seq(T) /\ Range(seqs[i]) = P[i] /\ IsInjective(seqs[i])
  <2>1. CASE jobs[i].name \in MPIJobNames
    <3>1. seqs[i] = Hosting(jobs[i].name, sd, jobs[i].replicas, jobs[i].parallelism)
      BY Zenon, <1>6, <1>7, <1>8, <2>1
    <3>2. /\ jobs[i].name \in JobNames /\ jobs[i].parallelism \in Nat /\ jobs[i].replicas \in Nat
      BY Zenon, <1>2
    <3>3. P[i] = JobPods(sd, jobs[i])
      BY Zenon, <1>9, <2>1
    <3> QED BY Zenon, <3>1, <3>2, <3>3, HostingOfJob DEF T
  <2>2. CASE jobs[i].name \notin MPIJobNames
    <3>1. seqs[i] = <<>> /\ P[i] = {}
      BY Zenon, <1>6, <1>7, <1>9, <2>2
    <3> QED BY SMTT(30), <3>1 DEF Range, IsInjective
  <2> QED BY Zenon, <2>1, <2>2
<1>11. seqs \in Seq(V) /\ Len(seqs) = n
  <2>1. \A i \in 1 .. n : seqs[i] \in V
    BY Zenon, <1>10
  <2> HIDE DEF V
  <2> QED BY <1>1, <1>5, <2>1
<1>12. Disjoint(P, n)
  <2>1. \A i \in 1 .. n : jobs[i].replicas \in Nat /\ jobs[i].parallelism \in Nat
    BY Zenon, <1>2
  <2> QED BY Zenon, <1>1, <2>1, PodsInDisjoint DEF P, n
<1>13. Apart(seqs, n)
  BY Zenon, <1>10, <1>12 DEF Apart, Disjoint
<1>14. /\ Range(FlattenSeq(seqs)) = UNION {Range(seqs[i]) : i \in 1 .. n}
       /\ IsInjective(FlattenSeq(seqs))
  <2>1. V = Seq(T)
    BY Zenon
  <2> HIDE DEF V
  <2> QED BY SMTT(30), <1>4, <1>11, <1>13, <2>1, FlattenInjective
<1>15. UNION {Range(seqs[i]) : i \in 1 .. n} = UNION {P[i] : i \in 1 .. n}
  BY Zenon, <1>10
<1>16. Pods(MPIJobNames) = UNION {P[i] : i \in 1 .. n}
  BY Zenon, <1>1, PodsAreUnion DEF P, n, sd
<1> QED BY Zenon, <1>3, <1>14, <1>15, <1>16

LEMMA FluxHosts ==
  ASSUME TemplatesAreWellFormed, BuildInv, pc = "Created", runtime.policy = "Flux",
         OneTrainer(runtime), MeetsInDefault(runtime)
  PROVE  (TrainerPods # {} => Range(hostfile) = TrainerPods) /\ IsInjective(hostfile)
<1> DEFINE m == world.size
<1>1. hostfile = IF m = 0 THEN <<Endpoint("node", 0, -1, "default")>>
                 ELSE [k \in 1 .. m |-> Endpoint("node", 0, k - 1, "default")]
  BY Zenon DEF BuildInv, HostsOf
<1>2. m # Unset
  <2>1. \E t \in 1 .. Len(jobs) : FirstTrainer(runtime, t)
    BY Zenon, TrainerPodsFound
  <2>2. WorldOK(runtime, trainer, podSets, world)
    BY Zenon DEF BuildInv
  <2> QED BY Zenon, <2>1, <2>2 DEF WorldOK
<1>3. m \in Nat /\ TrainerPods = {Endpoint("node", 0, i, "default") : i \in 0 .. m - 1}
  <2> DEFINE c == Cardinality(TrainerPods)
  <2>1. /\ c \in Nat /\ m = c * Workers(runtime, trainer, podSets)
        /\ TrainerPods = {Endpoint("node", 0, i, "default") : i \in 0 .. c - 1}
    BY Zenon, <1>2, WorldPods
  <2>2. Workers(runtime, trainer, podSets) = 1
    BY Zenon DEF Workers
  <2> HIDE DEF c, m
  <2>3. m = c
    BY <2>1, <2>2
  <2> QED BY Zenon, <2>1, <2>3
<1> HIDE DEF m
<1>12. CASE m = 0
  <2>1. 0 .. m - 1 = {}
    BY <1>12
  <2>2. TrainerPods = {}
    BY Zenon, <1>3, <2>1
  <2>3. IsInjective(hostfile)
    BY <1>1, <1>12 DEF IsInjective
  <2> QED BY Zenon, <2>2, <2>3
<1> SUFFICES ASSUME m # 0 PROVE Range(hostfile) = TrainerPods /\ IsInjective(hostfile)
  BY Zenon, <1>12
<1>4. DOMAIN hostfile = 1 .. m /\ \A k \in 1 .. m : hostfile[k] = Endpoint("node", 0, k - 1, "default")
  BY Zenon, <1>1
<1>5. Range(hostfile) = {hostfile[k] : k \in 1 .. m}
  BY Zenon, <1>4 DEF Range
<1>6. \A k \in 1 .. m : k - 1 \in 0 .. m - 1
  BY <1>3
<1>7. \A i \in 0 .. m - 1 : i + 1 \in 1 .. m /\ (i + 1) - 1 = i
  BY SMTT(30), <1>3
<1>8. Range(hostfile) \subseteq TrainerPods
  BY Zenon, <1>3, <1>4, <1>5, <1>6
<1>9. TrainerPods \subseteq Range(hostfile)
  <2> SUFFICES ASSUME NEW i \in 0 .. m - 1
               PROVE  Endpoint("node", 0, i, "default") \in Range(hostfile)
    BY <1>3
  <2>1. hostfile[i + 1] = Endpoint("node", 0, i, "default")
    BY Zenon, <1>4, <1>7
  <2> QED BY <1>5, <1>7, <2>1
<1>10. ASSUME NEW k \in 1 .. m, NEW l \in 1 .. m, hostfile[k] = hostfile[l] PROVE k = l
  <2>1. k - 1 = l - 1
    BY <1>4, <1>10, EndpointParts
  <2> QED BY SMTT(30), <1>3, <2>1
<1>11. IsInjective(hostfile)
  BY Zenon, <1>4, <1>10 DEF IsInjective
<1> QED BY Zenon, <1>8, <1>9, <1>11

\* For every number of jobs, replicas and Pods: the hostfile of MPI and the host list
\* of a Flux job that has nodes name the Pods that run the processes, each once
\* (syncPodNetwork, buildHostFileConfigMap, generateHostlist).
THEOREM HostfileIsExact ==
  ASSUME \A rt \in Runtimes : WellFormed(rt)
  PROVE  Spec => []HostfileExact
<1>1. TemplatesAreWellFormed
  BY Zenon DEF TemplatesAreWellFormed
<1>2. BuildInv => HostfileExact
  <2> SUFFICES ASSUME BuildInv, pc = "Created"
               PROVE  /\ runtime.policy = "MPI" => Range(hostfile) = Pods(MPIJobNames)
                      /\ runtime.policy = "Flux" /\ TrainerPods # {} => Range(hostfile) = TrainerPods
                      /\ IsInjective(hostfile)
    BY Zenon DEF HostfileExact
  <2>1. OneTrainer(runtime) /\ MeetsInDefault(runtime)
    BY Zenon DEF BuildInv, WellFormed
  <2>2. jobs # <<>>
    <3>1. PICK t \in 1 .. Len(jobs) : TRUE
      BY Zenon, <1>1, <2>1, TrainerPodsFound
    <3> QED BY SMTT(30), <3>1
  <2>3. CASE runtime.policy = "MPI"
    BY Zenon, <1>1, <2>2, <2>3, MPIHosts
  <2>4. CASE runtime.policy = "Flux"
    BY Zenon, <1>1, <2>1, <2>4, FluxHosts
  <2>5. CASE runtime.policy \notin {"MPI", "Flux"}
    <3>1. hostfile = <<>>
      BY Zenon, <2>5 DEF BuildInv, HostsOf
    <3>2. IsInjective(hostfile)
      BY <3>1 DEF IsInjective
    <3> QED BY Zenon, <2>5, <3>2
  <2> QED BY Zenon, <2>3, <2>4, <2>5
<1>3. Spec => []BuildInv
  BY Zenon, <1>1, BuildHolds
<1> QED BY <1>2, <1>3, PTL

-----------------------------------------------------------------------------
(***************************************************************************)
(* The number of nodes a TrainJob asks for.                                *)
(***************************************************************************)
LEMMA CreatedSizes ==
  ASSUME TemplatesAreWellFormed, BuildInv, pc = "Created", trainer.numNodes >= 2,
         NEW i \in 1 .. Len(jobs)
  PROVE  /\ IsTarget(runtime, i) => podSets[i].count = Asked(runtime, trainer)
         /\ ~IsTarget(runtime, i) => podSets[i].count = CountOf(runtime, runtime.jobs[i])
<1>1. i \in DOMAIN runtime.jobs /\ trainer \in TrainerSpecs
  BY Zenon, CreatedJobs
<1>2. Sized(runtime, trainer, podSets)
  BY Zenon DEF BuildInv
<1>3. podSets[i].count = SizeOf(runtime, trainer, i)
  BY Zenon, <1>1, <1>2 DEF Sized
<1>4. trainer.numNodes # Unset
  BY DEF Unset
<1>5. Asked(runtime, trainer) # Unset
  BY Zenon, <1>1, <1>4, AskedType
<1> QED BY Zenon, <1>3, <1>5 DEF SizeOf

LEMMA LauncherIsOnePod ==
  ASSUME NEW rt \in RuntimeSpecs, NEW tr, OneLauncherPod(rt), Admissible(rt, tr),
         rt.policy = "MPI", NEW i \in DOMAIN rt.jobs, rt.jobs[i].name = "launcher"
  PROVE  CountOf(rt, rt.jobs[i]) = 1
<1> DEFINE job == rt.jobs[i]
<1>1. /\ Deref(rt.numNodes, 1) = 1 /\ Deref(job.parallelism, 1) = 1
  BY Zenon DEF OneLauncherPod, Deref
<1>2. job.replicas = 1
  BY Zenon DEF Admissible
<1>3. Max({1, 1}) = 1
  BY SMTT(30), MaxOfTwo
<1>4. 1 * 1 = 1
  BY SMTT(30)
<1> HIDE DEF job
<1>5. CountOf(rt, job) = 1
  BY Zenon, <1>1, <1>2, <1>3, <1>4 DEF CountOf
<1> QED BY Zenon, <1>5 DEF job

(* The Pods of the nodes of MPI, and of a launcher that is one of them.    *)
LEMMA MPIPodsCounted ==
  ASSUME TemplatesAreWellFormed, BuildInv, pc = "Created", runtime.policy = "MPI",
         trainer.numNodes >= 2, OneLauncherPod(runtime)
  PROVE  Cardinality(Pods(MPIJobNames)) = trainer.numNodes
<1> DEFINE n == Len(jobs)
           sd == runtime.subdomain
           P == PodsIn(sd, jobs, MPIJobNames)
           U == UNION {P[i] : i \in 1 .. n}
<1>1. /\ jobs \in Seq(ReplicatedJobs) /\ n \in Nat /\ Unlike(jobs)
      /\ runtime \in RuntimeSpecs /\ trainer \in TrainerSpecs /\ DOMAIN runtime.jobs = 1 .. n
  BY Zenon, CreatedJobs
<1>2. \A i \in 1 .. n :
        /\ jobs[i].name = runtime.jobs[i].name
        /\ jobs[i].parallelism \in Nat /\ jobs[i].replicas \in Nat
        /\ podSets[i].count = jobs[i].replicas * jobs[i].parallelism
  BY Zenon, CreatedJobs
<1>3. Admissible(runtime, trainer)
  BY Zenon DEF BuildInv, Late
<1>4. trainer.numNodes \in Nat
  BY SMTT(30), <1>1 DEF TrainerSpecs, Unset
<1>5. Pods(MPIJobNames) = U
  BY Zenon, <1>1, PodsAreUnion
<1>6. \A i \in 1 .. n : P[i] = IF jobs[i].name \in MPIJobNames THEN JobPods(sd, jobs[i]) ELSE {}
  BY Zenon DEF PodsIn
<1>7. Disjoint(P, n)
  <2>1. \A i \in 1 .. n : jobs[i].replicas \in Nat /\ jobs[i].parallelism \in Nat
    BY Zenon, <1>2
  <2> QED BY Zenon, <1>1, <2>1, PodsInDisjoint
<1>8. \A i, k \in 1 .. n : jobs[i].name = jobs[k].name => i = k
  BY Zenon, <1>1 DEF Unlike
<1>9. PICK d \in 1 .. n : jobs[d].name = "node"
  BY Zenon, <1>1, <1>2 DEF OneLauncherPod
<1>10. \A i \in 1 .. n : jobs[i].name \in MPIJobNames =>
         IsFiniteSet(P[i]) /\ Cardinality(P[i]) = podSets[i].count
  BY SMTT(30), <1>2, <1>6, PodsCounted
<1>11. podSets[d].count = Asked(runtime, trainer)
  <2>1. IsTarget(runtime, d)
    BY Zenon, <1>1, <1>2, <1>9 DEF IsTarget
  <2> QED BY Zenon, <2>1, CreatedSizes
<1> HIDE DEF P, n, sd
<1>12. CASE ~runtime.launcherAsNode
  <2>1. Asked(runtime, trainer) = trainer.numNodes
    BY Zenon, <1>12 DEF Asked
  <2>2. MPIJobNames = {"node"}
    BY Zenon, <1>12 DEF MPIJobNames
  <2>3. \A i \in 1 .. n : i # d => P[i] = {}
    BY Zenon, <1>6, <1>8, <1>9, <2>2
  <2>4. U = P[d]
    BY SMTT(30), <2>3
  <2>5. Cardinality(P[d]) = podSets[d].count
    BY Zenon, <1>9, <1>10, <2>2
  <2> QED BY ZenonT(30), <1>5, <1>11, <2>1, <2>4, <2>5
<1>13. CASE runtime.launcherAsNode
  <2>1. Asked(runtime, trainer) = trainer.numNodes - 1
    BY Zenon, <1>1, <1>13, AskedType
  <2>2. MPIJobNames = {"node", "launcher"}
    BY Zenon, <1>13 DEF MPIJobNames
  <2>3. PICK e \in 1 .. n : jobs[e].name = "launcher"
    <3>1. \E i \in DOMAIN runtime.jobs : runtime.jobs[i].name = "launcher"
      BY Zenon, <1>3, <1>13 DEF Admissible
    <3> QED BY ZenonT(30), <1>1, <1>2, <3>1
  <2>4. podSets[e].count = 1
    <3>1. ~IsTarget(runtime, e)
      BY Zenon, <1>2, <2>3 DEF IsTarget
    <3>2. podSets[e].count = CountOf(runtime, runtime.jobs[e])
      BY Zenon, <3>1, CreatedSizes DEF n
    <3>3. e \in DOMAIN runtime.jobs /\ runtime.jobs[e].name = "launcher"
      BY ZenonT(30), <1>1, <1>2, <2>3
    <3> QED BY ZenonT(30), <1>1, <1>3, <3>2, <3>3, LauncherIsOnePod
  <2>5. \A i \in 1 .. n : i # d /\ i # e => P[i] = {}
    BY ZenonT(30), <1>6, <1>8, <1>9, <2>2, <2>3
  <2>6. U = P[d] \union P[e]
    BY Zenon, <2>5
  <2>7. P[d] \cap P[e] = {}
    <3>1. d # e
      BY Zenon, <1>9, <2>3
    <3> QED BY Zenon, <1>7, <3>1 DEF Disjoint
  <2>8. /\ IsFiniteSet(P[d]) /\ Cardinality(P[d]) = trainer.numNodes - 1
        /\ IsFiniteSet(P[e]) /\ Cardinality(P[e]) = 1
    BY ZenonT(30), <1>9, <1>10, <1>11, <2>1, <2>2, <2>3, <2>4
  <2>9. Cardinality(P[d] \union P[e]) = Cardinality(P[d]) + Cardinality(P[e]) - Cardinality({})
    BY <2>7, <2>8, FS_Union
  <2>10. Cardinality({}) = 0
    BY Zenon, FS_EmptySet
  <2> HIDE DEF U
  <2> QED BY SMTT(30), <1>4, <1>5, <2>6, <2>8, <2>9, <2>10
<1> QED BY Zenon, <1>12, <1>13

\* A TrainJob that asks for two nodes or more gets exactly as many training Pods,
\* the launcher of MPI among them where it is a node, for every number it asks for
\* and every template of these conventions (EnforceMLPolicy of the plugins, isNode,
\* syncParallelCount).
THEOREM NumNodesAlwaysHonoured ==
  ASSUME \A rt \in Runtimes : WellFormed(rt)
  PROVE  Spec => []NumNodesHonoured
<1>1. TemplatesAreWellFormed
  BY Zenon DEF TemplatesAreWellFormed
<1>2. BuildInv => NumNodesHonoured
  <2> SUFFICES ASSUME BuildInv, pc = "Created", trainer.numNodes >= 2
               PROVE  Cardinality(TrainingPods) = trainer.numNodes
    BY Zenon DEF NumNodesHonoured
  <2>1. OneTrainer(runtime) /\ OneLauncherPod(runtime)
    BY Zenon DEF BuildInv, WellFormed
  <2>2. PICK t \in 1 .. Len(jobs) :
          FirstTrainer(runtime, t) /\ Cardinality(TrainerPods) = podSets[t].count
    BY Zenon, <1>1, <2>1, TrainerPodsFound
  <2>3. CASE runtime.policy = "MPI"
    <3>1. jobs # <<>>
      BY <2>2
    <3>2. Range(hostfile) = Pods(MPIJobNames)
      BY Zenon, <1>1, <2>3, <3>1, MPIHosts
    <3>3. Cardinality(Pods(MPIJobNames)) = trainer.numNodes
      BY Zenon, <1>1, <2>1, <2>3, MPIPodsCounted
    <3> QED BY Zenon, <2>3, <3>2, <3>3 DEF TrainingPods
  <2>4. CASE runtime.policy # "MPI"
    <3>1. IsTarget(runtime, t) /\ Asked(runtime, trainer) = trainer.numNodes
      BY Zenon, <2>2, <2>4 DEF IsTarget, Asked
    <3>2. podSets[t].count = trainer.numNodes
      BY Zenon, <1>1, <3>1, CreatedSizes
    <3> QED BY Zenon, <2>2, <2>4, <3>2 DEF TrainingPods
  <2> QED BY Zenon, <2>3, <2>4
<1>3. Spec => []BuildInv
  BY Zenon, <1>1, BuildHolds
<1> QED BY <1>2, <1>3, PTL
=============================================================================
