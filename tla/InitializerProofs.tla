-------------------------- MODULE InitializerProofs --------------------------
(***************************************************************************)
(* What an initializer leaves in the volume, for any bucket, URI, patterns *)
(* and number of restarts, failed calls and changes of the bucket, and     *)
(* that it reports success only for a complete cache cluster.              *)
(***************************************************************************)
EXTENDS Initializer, SequenceTheorems, TLAPS

(* Each step of download_dataset has the objects of the steps before it:   *)
(* what CompletedMeansServed needs to be inductive.                        *)
CreatedSoFar ==
  /\ pc \in {"ServiceAccount", "LeaderWorkerSet", "Service"} => ref = job
  /\ job = 1 =>
       /\ pc \in {"LeaderWorkerSet", "Service", "wait", "completed"}
            => owner["ServiceAccount"] # 0
       /\ pc \in {"Service", "wait", "completed"} => owner["LeaderWorkerSet"] # 0
       /\ pc \in {"wait", "completed"} => owner["Service"] # 0
       /\ pc = "completed" => available

IInv == TypeOK /\ CreatedSoFar

LEMMA InitIInv == Init => IInv
<1> SUFFICES ASSUME Init PROVE TypeOK /\ CreatedSoFar
  BY DEF IInv
<1>1. owner \in [Kinds -> 0 .. job]
  BY DEF Init
<1>2. TypeOK
  <2>1. available \in BOOLEAN
    BY Zenon DEF Init
  <2>2. 1 \in 1 .. (MaxRecreations + 1) /\ 0 \in 0 .. MaxRestarts /\ 0 \in 0 .. MaxFaults
    BY InitializerAssumption
  <2> QED BY Zenon, <1>1, <2>1, <2>2 DEF Init, TypeOK, Steps
<1>3. CreatedSoFar
  BY Zenon DEF Init, CreatedSoFar
<1> QED BY Zenon, <1>2, <1>3

LEMMA NextIInv == IInv /\ [Next]_vars => IInv'
<1> SUFFICES ASSUME IInv, [Next]_vars PROVE IInv'
  BY Zenon
<1> USE InitializerAssumption DEF IInv, TypeOK, CreatedSoFar, Kinds, Steps, Exited
<1>1. CASE GetTrainJob
  BY Zenon, <1>1 DEF GetTrainJob
<1>2. CASE CreateServiceAccount
  BY <1>2 DEF CreateServiceAccount, CreateOrSkip
<1>3. CASE CreateLeaderWorkerSet
  BY <1>3 DEF CreateLeaderWorkerSet, CreateOrGiveUp
<1>4. CASE CreateService
  BY <1>4 DEF CreateService, CreateOrSkip
<1>5. CASE PollLeaderWorkerSet
  BY Zenon, <1>5 DEF PollLeaderWorkerSet
<1>6. CASE Cleanup
  BY <1>6 DEF Cleanup
<1>7. CASE CallFails
  BY <1>7 DEF CallFails
<1>8. CASE Restart
  BY <1>8 DEF Restart
<1>9. CASE BecomesAvailable
  BY Zenon, <1>9 DEF BecomesAvailable
<1>10. CASE Recreate
  BY <1>10 DEF Recreate
<1>11. CASE \E k \in Kinds : Collect(k)
  BY <1>11 DEF Collect
<1>12. CASE UNCHANGED vars
  BY <1>12 DEF vars
<1> QED
  BY ZenonT(30), <1>1, <1>2, <1>3, <1>4, <1>5, <1>6, <1>7, <1>8, <1>9, <1>10, <1>11, <1>12
  DEF Next, Process

(* The initializer's state is well typed: its owner reference is always to *)
(* the TrainJob that now exists, and no object is owned by a later one.    *)
THEOREM InitializerTypeOK == Spec => []TypeOK
<1>1. IInv => TypeOK
  BY DEF IInv
<1> QED BY InitIInv, NextIInv, <1>1, PTL DEF Spec

(* "Cache cluster creation completed" is only logged with ServiceAccount,  *)
(* available LeaderWorkerSet and Service in place, whichever calls failed  *)
(* and however often the Pod restarted before.                             *)
THEOREM InitializerCompleted == Spec => []CompletedMeansServed
<1>1. IInv => CompletedMeansServed
  BY DEF IInv, CreatedSoFar, CompletedMeansServed, Kinds
<1> QED BY InitIInv, NextIInv, <1>1, PTL DEF Spec

-----------------------------------------------------------------------------
(***************************************************************************)
(* The process of either initializer, with any provider.                   *)
(***************************************************************************)

(* The objects a listing may give: those at the URI's path or below it.    *)
AtBase(key) == key \in Keys /\ (key = uri.base \/ Under(uri.base, key))

(* Where the files of the named objects go.                                *)
Due == {Relative(k) : k \in Named(remote) \ ignored}

(* Each scheme has the stages of its provider.                             *)
StageInv ==
  /\ stage \in {"stat", "list", "next", "read", "write"} => uri.scheme = "s3"
  /\ stage = "snapshot" => uri.scheme = "hf"
  /\ stage = "completed" => uri.scheme \in {"s3", "hf"}
  /\ stage = "stat" => ~uri.slash
  /\ stage \notin {"read", "write"} => current = Nowhere

(* What is listed and not left to do has been written, but for the file    *)
(* being written.                                                          *)
ListedInv ==
  /\ uri.scheme = "s3" => \A key \in listed : AtBase(key)
  /\ uri.scheme = "s3" /\ stage \in {"next", "read", "write", "completed"} =>
       \A key \in (listed \ ignored) \ todo :
         files[Relative(key)] = "whole" \/ (stage = "write" /\ Relative(key) = current)
  /\ stage = "completed" \/ uri.scheme # "s3" => todo = {}

(* While nothing changes the listing is what the URI names, a file is one  *)
(* of those and a directory one of theirs.                                 *)
UnchangedInv ==
  /\ uri.scheme = "hf" =>
       /\ \A p \in Paths : files[p] # "none" => p \in Wanted
       /\ dirs \subseteq DirsOf(Wanted)
  /\ uri.scheme = "s3" /\ changes = 0 =>
       /\ stage = "list" => uri.slash \/ uri.base \notin remote
       /\ stage \in {"next", "read", "write", "completed"} => listed = Named(remote)
       /\ \A p \in Paths : files[p] # "none" => p \in Due
       /\ dirs \subseteq DirsOf(Due)

(* Nothing has been killed and no call has failed.                         *)
Untroubled == restarts = 0 /\ faults = 0

SnapshotInv ==
  uri.scheme = "hf" /\ stage = "completed" => \A p \in Wanted : files[p] = "whole"

PodInv ==
  /\ PodTypeOK /\ IInv
  /\ uri \in [role: Roles, scheme: Schemes, base: Bases, slash: BOOLEAN]
  /\ DOMAIN files = Paths
  /\ stage = "write" => current \in Paths
  /\ StageInv /\ ListedInv /\ UnchangedInv /\ SnapshotInv /\ NothingElse

-----------------------------------------------------------------------------
LEMMA StrictPrefixShorter ==
  ASSUME NEW s \in Seq(STRING), NEW t \in Seq(STRING), IsStrictPrefix(s, t)
  PROVE  Len(s) < Len(t)
<1>1. Len(s) <= Len(t) /\ SubSeq(s, 1, Len(s)) = SubSeq(t, 1, Len(s)) /\ s # t
  BY DEF IsStrictPrefix, IsPrefix
<1>2. SubSeq(s, 1, Len(s)) = s /\ SubSeq(t, 1, Len(t)) = t
  BY SubSeqFull
<1>3. Len(s) # Len(t)
  <2> SUFFICES ASSUME Len(s) = Len(t) PROVE FALSE
    OBVIOUS
  <2> QED BY Zenon, <1>1, <1>2
<1>4. Len(s) \in Nat /\ Len(t) \in Nat
  OBVIOUS
<1> QED BY <1>1, <1>3, <1>4

(* The volume has a place for every object of the bucket, and for the      *)
(* object under its name relative to the URI.                              *)
LEMMA SuffixInPaths ==
  ASSUME NEW key \in Keys, NEW i \in 1 .. Len(key)
  PROVE  SubSeq(key, i, Len(key)) \in Paths
<1>1. key \in Seq(STRING) /\ i \in Int /\ Len(key) \in Int /\ i <= Len(key)
  BY PathsAssumption
<1>2. Len(SubSeq(key, i, Len(key))) = Len(key) - i + 1
  BY <1>1
<1>3. SubSeq(key, i, Len(key)) # <<>>
  <2> SUFFICES ASSUME SubSeq(key, i, Len(key)) = <<>> PROVE FALSE
    OBVIOUS
  <2>1. Len(<<>>) = 0
    BY EmptySeq
  <2>2. 0 = Len(key) - i + 1
    BY <1>2, <2>1, Zenon
  <2> QED BY <1>1, <2>2
<1>4. SubSeq(key, i, Len(key)) \in Suffixes(key)
  BY DEF Suffixes
<1> QED BY Zenon, <1>3, <1>4 DEF Paths

LEMMA KeyInPaths == Keys \subseteq Paths
<1> SUFFICES ASSUME NEW key \in Keys PROVE key \in Paths
  OBVIOUS
<1>1. key = SubSeq(key, 1, Len(key)) /\ 1 \in 1 .. Len(key)
  BY PathsAssumption
<1> QED BY Zenon, <1>1, SuffixInPaths

LEMMA RelativeInPaths ==
  ASSUME uri.base \in Bases, NEW key, AtBase(key)
  PROVE  Relative(key) \in Paths
<1>1. key \in Keys /\ key \in Seq(STRING) /\ key # <<>> /\ uri.base \in Seq(STRING)
  BY PathsAssumption DEF AtBase
<1>2. CASE key = uri.base
  <2>1. Len(key) \in 1 .. Len(key)
    BY <1>1
  <2>2. <<Last(key)>> = SubSeq(key, Len(key), Len(key))
    BY <1>1, <2>1 DEF Last
  <2> QED BY Zenon, <1>1, <1>2, <2>1, <2>2, SuffixInPaths DEF Relative
<1>3. CASE key # uri.base
  <2>1. Len(uri.base) < Len(key)
    BY Zenon, <1>1, <1>3, StrictPrefixShorter DEF AtBase, Under
  <2>2. Len(uri.base) + 1 \in 1 .. Len(key)
    BY <1>1, <2>1
  <2> QED BY Zenon, <1>1, <1>3, <2>2, SuffixInPaths DEF Relative
<1> QED BY Zenon, <1>2, <1>3

-----------------------------------------------------------------------------
LEMMA InitPodInv == PodInit => PodInv
<1> SUFFICES ASSUME PodInit PROVE PodInv
  OBVIOUS
<1>1. IInv /\ TypeOK
  BY InitIInv DEF PodInit, IInv
<1>2. DOMAIN files = Paths /\ dirs = {} /\ \A p \in Paths : files[p] = "none"
  BY DEF PodInit
<1>3. PodTypeOK
  BY <1>1, <1>2, PathsAssumption DEF PodInit, PodTypeOK
<1>4. StageInv /\ ListedInv /\ SnapshotInv
  BY DEF PodInit, StageInv, ListedInv, SnapshotInv
<1>5. UnchangedInv /\ NothingElse
  BY Zenon, <1>2 DEF PodInit, UnchangedInv, NothingElse
<1> QED BY Zenon, <1>1, <1>2, <1>3, <1>4, <1>5 DEF PodInv, PodInit

(* A step that leaves the bucket and the volume alone preserves the        *)
(* invariant when the stage it goes to fits what is listed.                *)
LEMMA QuietStep ==
  ASSUME PodInv, IInv', UNCHANGED <<config, remote, changes, files, dirs>>,
         Untroubled' => Untroubled,
         stage' \in {"start", "stat", "list", "next", "snapshot", "cache"} \union Ended,
         current' = Nowhere, todo' \subseteq listed' \ ignored, listed' \subseteq Keys,
         stage = "write" => ~Untroubled',
         StageInv', ListedInv', SnapshotInv',
         uri.scheme = "s3" /\ changes = 0 =>
           /\ stage' = "list" => uri.slash \/ uri.base \notin remote
           /\ stage' \in {"next", "completed"} => listed' = Named(remote)
  PROVE  PodInv'
<1>1. uri' = uri /\ ignored' = ignored
  BY DEF config
<1>2. \A key : Relative(key)' = Relative(key)
  BY Zenon, <1>1 DEF Relative
<1>3. Named(remote)' = Named(remote) /\ Wanted' = Wanted /\ Due' = Due
  BY Zenon, <1>1, <1>2 DEF Named, Wanted, Due
<1>4. PodTypeOK'
  BY Zenon, <1>1 DEF PodInv, IInv, PodTypeOK, StageInv, Ended, Untroubled
<1>5. UnchangedInv'
  BY Zenon, <1>1, <1>3 DEF PodInv, UnchangedInv, Ended
<1>6. NothingElse'
  BY Zenon, <1>1, <1>2 DEF PodInv, NothingElse
<1> QED BY Zenon, <1>1, <1>4, <1>5, <1>6 DEF PodInv, Ended

LEMMA StartStep == PodInv /\ Start => PodInv'
<1> SUFFICES ASSUME PodInv, Start PROVE PodInv'
  OBVIOUS
<1>1. /\ stage = "start" /\ stage' = Provider /\ UNCHANGED <<config, download, vars>>
      /\ uri' = uri /\ ignored' = ignored
  BY DEF Start, config
<1>2. IInv'
  BY <1>1, NextIInv DEF PodInv
<1>3. /\ Provider \in {"stat", "list", "snapshot", "cache", "raised"}
      /\ Provider \in {"stat", "list"} => uri.scheme = "s3"
      /\ Provider = "snapshot" => uri.scheme = "hf"
      /\ Provider = "stat" => ~uri.slash
      /\ Provider = "list" => uri.slash \/ uri.base = <<>>
  BY DEF Provider
<1>4. current' = Nowhere
  BY Zenon, <1>1 DEF download, PodInv, StageInv
<1>5. StageInv'
  BY Zenon, <1>1, <1>3, <1>4 DEF StageInv
<1>6. \A key : AtBase(key)' <=> AtBase(key)
  BY Zenon, <1>1 DEF AtBase, Under
<1>7. ListedInv' /\ SnapshotInv'
  BY Zenon, <1>1, <1>3, <1>6 DEF PodInv, ListedInv, SnapshotInv, download
<1>8. Provider = "list" => uri.slash \/ uri.base \notin remote
  BY Zenon, <1>3, PathsAssumption DEF PodInv, PodTypeOK
<1>9. todo' \subseteq listed' \ ignored /\ listed' \subseteq Keys
  BY Zenon, <1>1 DEF PodInv, PodTypeOK, download
<1>10. UNCHANGED <<config, remote, changes, files, dirs>> /\ Untroubled' = Untroubled
  BY Zenon, <1>1 DEF download, vars, Untroubled
<1> QED
  BY Zenon, <1>1, <1>2, <1>3, <1>4, <1>5, <1>7, <1>8, <1>9, <1>10, QuietStep DEF Ended

(* A listing gives what the URI names, as long as the bucket is unchanged. *)
LEMMA FoundStep ==
  ASSUME PodInv, NEW keys \in SUBSET Keys, Found(keys), stage \in {"stat", "list"},
         UNCHANGED <<config, remote, changes, current, files, dirs, vars>>,
         \A key \in keys : AtBase(key),
         changes = 0 => keys = Named(remote)
  PROVE  PodInv'
<1>1. /\ uri' = uri /\ ignored' = ignored /\ listed' = keys /\ todo' = keys \ ignored
      /\ stage' \in {"next", "raised"} /\ uri.scheme = "s3"
  BY DEF config, Found, PodInv, StageInv
<1>2. IInv' /\ Untroubled' = Untroubled
  BY Zenon, NextIInv DEF PodInv, vars, Untroubled
<1>3. current' = Nowhere
  BY DEF PodInv, StageInv
<1>4. StageInv' /\ SnapshotInv'
  BY Zenon, <1>1, <1>3 DEF StageInv, SnapshotInv
<1>5. \A key : AtBase(key)' <=> AtBase(key)
  BY Zenon, <1>1 DEF AtBase, Under
<1>6. ListedInv'
  BY Zenon, <1>1, <1>5 DEF ListedInv
<1> QED
  BY ZenonT(30), <1>1, <1>2, <1>3, <1>4, <1>6, QuietStep DEF Ended

LEMMA ListStep == PodInv /\ (Stat \/ ListKeys) => PodInv'
<1> SUFFICES ASSUME PodInv, Stat \/ ListKeys PROVE PodInv'
  OBVIOUS
<1>1. remote \subseteq Keys /\ (stage \in {"stat", "list"} => uri.scheme = "s3")
  BY DEF PodInv, PodTypeOK, StageInv
<1>2. CASE Stat /\ uri.base \in remote
  <2>1. ~uri.slash
    BY <1>2 DEF Stat, PodInv, StageInv
  <2>2. Named(remote) = {uri.base}
    BY Zenon, <1>2, <2>1 DEF Named
  <2> QED BY ZenonT(30), <1>1, <1>2, <2>2, FoundStep DEF Stat, AtBase
<1>3. CASE Stat /\ uri.base \notin remote
  <2>1. /\ uri' = uri /\ ignored' = ignored /\ stage = "stat" /\ stage' = "list"
        /\ UNCHANGED <<config, remote, changes, listed, todo, current, files, dirs, vars>>
    BY Zenon, <1>3 DEF Stat, config
  <2>2. IInv' /\ Untroubled' = Untroubled
    BY Zenon, <2>1, NextIInv DEF PodInv, vars, Untroubled
  <2>3. \A key : AtBase(key)' <=> AtBase(key)
    BY Zenon, <2>1 DEF AtBase, Under
  <2>4. StageInv' /\ ListedInv' /\ SnapshotInv'
    BY Zenon, <1>1, <2>1, <2>3 DEF PodInv, StageInv, ListedInv, SnapshotInv
  <2>5. current' = Nowhere /\ todo' \subseteq listed' \ ignored /\ listed' \subseteq Keys
    BY Zenon, <2>1 DEF PodInv, StageInv, PodTypeOK
  <2> QED BY ZenonT(30), <1>3, <2>1, <2>2, <2>4, <2>5, QuietStep
<1>4. CASE ListKeys
  <2> DEFINE keys == {key \in remote : Under(uri.base, key)}
  <2>1. keys \subseteq Keys /\ \A key \in keys : AtBase(key)
    BY Zenon, <1>1 DEF AtBase
  <2>2. changes = 0 => uri.slash \/ uri.base \notin remote
    BY Zenon, <1>1, <1>4 DEF ListKeys, PodInv, UnchangedInv
  <2>3. changes = 0 => keys = Named(remote)
    BY Zenon, <2>2 DEF Named
  <2> QED BY Zenon, <1>4, <2>1, <2>3, FoundStep DEF ListKeys
<1> QED BY Zenon, <1>2, <1>3, <1>4

(* A step that ends or starts the process again, or one of the cache's.    *)
LEMMA OtherStep ==
  ASSUME PodInv, IInv', UNCHANGED <<config, remote, changes, files, dirs>>,
         Untroubled' => Untroubled, stage = "write" => ~Untroubled',
         \/ /\ stage' = "raised" /\ current' = Nowhere /\ UNCHANGED <<listed, todo>>
         \/ /\ stage' = "start" /\ listed' = {} /\ todo' = {} /\ current' = Nowhere
         \/ /\ UNCHANGED <<stage, listed, todo, current>> /\ stage = "cache"
         \/ /\ stage = "next" /\ todo = {} /\ stage' = "completed"
            /\ UNCHANGED <<listed, todo, current>>
  PROVE  PodInv'
<1>1. uri' = uri /\ ignored' = ignored
  BY Zenon DEF config
<1>2. current' = Nowhere /\ todo' \subseteq listed' \ ignored /\ listed' \subseteq Keys
  BY DEF PodInv, StageInv, PodTypeOK
<1>3. \A key : (AtBase(key)' <=> AtBase(key)) /\ Relative(key)' = Relative(key)
  BY Zenon, <1>1 DEF AtBase, Under, Relative
<1>4. StageInv'
  BY Zenon, <1>1, <1>2 DEF PodInv, StageInv
<1>5. ListedInv' /\ SnapshotInv'
  BY Zenon, <1>1, <1>3 DEF PodInv, StageInv, ListedInv, SnapshotInv
<1>6. uri.scheme = "s3" /\ changes = 0 =>
        /\ stage' # "list"
        /\ stage' \in {"next", "completed"} => listed' = Named(remote)
  BY DEF PodInv, UnchangedInv
<1> QED BY Zenon, <1>2, <1>4, <1>5, <1>6, QuietStep DEF Ended

(* Directories are only made for files that are to be downloaded.          *)
LEMMA DirsStep == PodInv /\ MakeDirectories => PodInv'
<1> SUFFICES ASSUME PodInv, MakeDirectories PROVE PodInv'
  BY Zenon
<1>1. /\ stage = "next" /\ UNCHANGED <<config, remote, changes, listed, todo, files, vars>>
      /\ uri' = uri /\ ignored' = ignored /\ uri.scheme = "s3"
      /\ restarts' = restarts /\ faults' = faults /\ current = Nowhere
  BY DEF MakeDirectories, config, vars, PodInv, StageInv
<1>2. IInv' /\ Untroubled' = Untroubled
  BY Zenon, <1>1, NextIInv DEF PodInv, Untroubled
<1>3. PICK key \in todo :
        \/ stage' = "raised" /\ UNCHANGED <<current, dirs>>
        \/ /\ stage' = "read" /\ current' = Relative(key)
           /\ dirs' = dirs \union Above(Relative(key))
  BY Zenon DEF MakeDirectories
<1>4. CASE stage' = "raised" /\ UNCHANGED <<current, dirs>>
  BY ZenonT(30), <1>1, <1>2, <1>4, OtherStep
<1>5. CASE /\ stage' = "read" /\ current' = Relative(key)
           /\ dirs' = dirs \union Above(Relative(key))
  <2>1. key \in listed \ ignored
    BY Zenon DEF PodInv, PodTypeOK
  <2>2. \A k : (AtBase(k)' <=> AtBase(k)) /\ Relative(k)' = Relative(k)
    BY Zenon, <1>1 DEF AtBase, Under, Relative
  <2>3. Named(remote)' = Named(remote) /\ Due' = Due
    BY Zenon, <1>1, <2>2 DEF Named, Due
  <2>4. PodTypeOK'
    <3>1. Untroubled => \A p \in Paths : files[p] # "part"
      BY Zenon, <1>1 DEF PodInv, PodTypeOK, Untroubled
    <3> QED BY ZenonT(30), <1>1, <1>2, <1>5, <3>1 DEF PodInv, PodTypeOK, IInv, Untroubled
  <2>5. StageInv' /\ SnapshotInv'
    BY Zenon, <1>1, <1>5 DEF StageInv, SnapshotInv
  <2>6. ListedInv'
    BY ZenonT(30), <1>1, <1>5, <2>2 DEF PodInv, ListedInv
  <2>7. UnchangedInv'
    <3>1. changes = 0 => Relative(key) \in Due /\ dirs \subseteq DirsOf(Due)
                         /\ listed = Named(remote)
      BY Zenon, <1>1, <2>1 DEF PodInv, UnchangedInv, Due
    <3>2. changes = 0 => dirs' \subseteq DirsOf(Due)
      BY Zenon, <1>5, <3>1 DEF DirsOf
    <3> QED BY ZenonT(30), <1>1, <1>5, <2>3, <3>1, <3>2 DEF PodInv, UnchangedInv
  <2>8. NothingElse'
    BY Zenon, <1>1, <2>2 DEF PodInv, NothingElse
  <2> QED BY ZenonT(30), <1>1, <1>2, <1>5, <2>4, <2>5, <2>6, <2>7, <2>8 DEF PodInv
<1> QED BY Zenon, <1>3, <1>4, <1>5

LEMMA ReadStep == PodInv /\ ReadKey => PodInv'
<1> SUFFICES ASSUME PodInv, ReadKey PROVE PodInv'
  BY Zenon
<1>1. /\ stage = "read" /\ UNCHANGED <<config, remote, changes, listed, dirs, vars>>
      /\ uri' = uri /\ ignored' = ignored /\ uri.scheme = "s3"
      /\ restarts' = restarts /\ faults' = faults
  BY DEF ReadKey, config, vars, PodInv, StageInv
<1>2. IInv' /\ Untroubled' = Untroubled
  BY Zenon, <1>1, NextIInv DEF PodInv, Untroubled
<1>3. PICK key \in todo :
        /\ Relative(key) = current
        /\ \/ stage' = "raised" /\ current' = Nowhere /\ UNCHANGED <<todo, files>>
           \/ /\ stage' = "write" /\ todo' = todo \ {key} /\ UNCHANGED current
              /\ files' = [files EXCEPT ![current] = "part"]
  BY Zenon DEF ReadKey
<1>4. CASE stage' = "raised" /\ current' = Nowhere /\ UNCHANGED <<todo, files>>
  BY ZenonT(30), <1>1, <1>2, <1>4, OtherStep
<1>5. CASE /\ stage' = "write" /\ todo' = todo \ {key} /\ UNCHANGED current
           /\ files' = [files EXCEPT ![current] = "part"]
  <2> DEFINE path == Relative(key)
  <2>1. /\ stage' = "write" /\ todo' = todo \ {key} /\ current' = path
        /\ files' = [files EXCEPT ![path] = "part"]
    BY Zenon, <1>3, <1>5
  <2>2. /\ key \in listed \ ignored /\ AtBase(key) /\ key \in Keys
        /\ DOMAIN files = Paths /\ current = path
    BY Zenon, <1>1, <1>3 DEF PodInv, PodTypeOK, ListedInv
  <2>3. path \in Paths
    BY <2>2, RelativeInPaths DEF PodInv
  <2>4. /\ DOMAIN files' = Paths /\ files'[path] = "part"
        /\ \A p \in Paths : p # path => files'[p] = files[p]
    BY Zenon, <2>1, <2>2, <2>3
  <2>5. \A k : (AtBase(k)' <=> AtBase(k)) /\ Relative(k)' = Relative(k)
    BY Zenon, <1>1 DEF AtBase, Under, Relative
  <2> HIDE DEF path
  <2>6. PodTypeOK'
    <3>1. \A p \in Paths : files[p] \in {"none", "part", "whole"}
      BY Zenon, <2>2 DEF PodInv, PodTypeOK
    <3>2. Untroubled => \A p \in Paths : files[p] # "part" \/ p = current
      BY Zenon, <2>2 DEF PodInv, PodTypeOK, Untroubled
    <3>4. \A p \in Paths : files'[p] \in {"none", "part", "whole"}
      BY Zenon, <2>4, <3>1
    <3>5. Untroubled' => \A p \in Paths : files'[p] = "part" => p = current' /\ stage' = "write"
      BY ZenonT(30), <1>2, <2>1, <2>2, <2>4, <3>2
    <3> QED
      BY ZenonT(30), <1>1, <1>2, <2>1, <2>4, <3>4, <3>5 DEF PodInv, IInv, PodTypeOK, Untroubled
  <2>7. StageInv' /\ SnapshotInv'
    BY Zenon, <1>1, <2>1 DEF StageInv, SnapshotInv
  <2>8. ListedInv'
    <3>1. \A k \in listed : AtBase(k) /\ Relative(k) \in Paths
      BY Zenon, <1>1, RelativeInPaths DEF PodInv, ListedInv
    <3>2. \A k \in (listed \ ignored) \ todo : files[Relative(k)] = "whole"
      BY Zenon, <1>1 DEF PodInv, ListedInv
    <3>3. Relative(key) = path
      BY DEF path
    <3>4. \A k \in (listed \ ignored) \ todo' :
            files'[Relative(k)] = "whole" \/ Relative(k) = current'
      BY ZenonT(30), <2>1, <2>4, <3>1, <3>2, <3>3
    <3> QED BY ZenonT(30), <1>1, <2>1, <2>5, <3>1, <3>4 DEF ListedInv
  <2>9. UnchangedInv'
    <3>1. Named(remote)' = Named(remote) /\ Due' = Due
      BY Zenon, <1>1, <2>5 DEF Named, Due
    <3>2. changes = 0 => path \in Due /\ listed = Named(remote)
      BY Zenon, <1>1, <2>2 DEF PodInv, UnchangedInv, Due, path
    <3> QED BY ZenonT(30), <1>1, <2>1, <2>4, <3>1, <3>2 DEF PodInv, UnchangedInv
  <2>10. NothingElse'
    <3>1. IsPrefix(uri.base, key)
      BY <2>2, PathsAssumption DEF AtBase, Under, IsStrictPrefix, IsPrefix
    <3>2. \E k \in Keys \ ignored : Relative(k) = path /\ IsPrefix(uri.base, k)
      BY Zenon, <2>2, <3>1 DEF path
    <3> QED BY ZenonT(30), <1>1, <2>2, <2>4, <2>5, <3>2 DEF PodInv, NothingElse
  <2> QED
    BY ZenonT(30), <1>1, <1>2, <2>1, <2>3, <2>4, <2>6, <2>7, <2>8, <2>9, <2>10 DEF PodInv
<1> QED BY Zenon, <1>3, <1>4, <1>5

LEMMA WriteStep == PodInv /\ WriteFile => PodInv'
<1> SUFFICES ASSUME PodInv, WriteFile PROVE PodInv'
  OBVIOUS
<1>1. /\ stage = "write" /\ files' = [files EXCEPT ![current] = "whole"]
      /\ stage' = "next" /\ current' = Nowhere
      /\ UNCHANGED <<config, remote, changes, listed, todo, dirs, vars>>
      /\ uri' = uri /\ ignored' = ignored /\ Untroubled' = Untroubled
  BY Zenon DEF WriteFile, config, vars, Untroubled
<1>2. /\ IInv' /\ uri.scheme = "s3" /\ current \in Paths /\ DOMAIN files = Paths
      /\ files[current] = "part"
  BY Zenon, <1>1, NextIInv DEF PodInv, PodTypeOK, StageInv
<1>3. /\ DOMAIN files' = Paths /\ files'[current] = "whole"
      /\ \A p \in Paths : p # current => files'[p] = files[p]
  BY Zenon, <1>1, <1>2
<1>4. \A k : (AtBase(k)' <=> AtBase(k)) /\ Relative(k)' = Relative(k)
  BY Zenon, <1>1 DEF AtBase, Under, Relative
<1>5. PodTypeOK'
  <2>1. \A p \in Paths : files[p] \in {"none", "part", "whole"}
    BY Zenon, <1>2 DEF PodInv, PodTypeOK
  <2>2. Untroubled => \A p \in Paths : files[p] = "part" => p = current
    BY <1>2 DEF PodInv, PodTypeOK, Untroubled
  <2>3. \A p \in Paths : files'[p] \in {"none", "part", "whole"}
    BY Zenon, <1>3, <2>1
  <2>4. Untroubled' => \A p \in Paths : files'[p] # "part"
    BY Zenon, <1>1, <1>3, <2>2
  <2> QED BY ZenonT(30), <1>1, <1>2, <1>3, <2>3, <2>4 DEF PodInv, IInv, PodTypeOK, Untroubled
<1>6. StageInv' /\ SnapshotInv'
  BY Zenon, <1>1, <1>2 DEF StageInv, SnapshotInv
<1>7. ListedInv'
  <2>1. \A k \in listed : AtBase(k) /\ Relative(k) \in Paths
    BY Zenon, <1>2, RelativeInPaths DEF PodInv, ListedInv
  <2>2. \A k \in (listed \ ignored) \ todo :
          files[Relative(k)] = "whole" \/ Relative(k) = current
    BY Zenon, <1>1, <1>2 DEF PodInv, ListedInv
  <2>3. \A k \in (listed \ ignored) \ todo : files'[Relative(k)] = "whole"
    BY Zenon, <1>3, <2>1, <2>2
  <2> QED BY ZenonT(30), <1>1, <1>2, <1>4, <2>1, <2>3 DEF ListedInv
<1>8. UnchangedInv'
  <2>1. Named(remote)' = Named(remote) /\ Due' = Due
    BY Zenon, <1>1, <1>4 DEF Named, Due
  <2>2. changes = 0 => /\ listed = Named(remote) /\ dirs \subseteq DirsOf(Due)
                       /\ \A p \in Paths : files[p] # "none" => p \in Due
    BY Zenon, <1>1, <1>2 DEF PodInv, UnchangedInv
  <2> QED BY ZenonT(30), <1>1, <1>2, <1>3, <2>1, <2>2 DEF UnchangedInv
<1>9. NothingElse'
  <2>1. \A p \in Paths : files'[p] # "none" => files[p] # "none"
    BY Zenon, <1>2, <1>3
  <2> QED BY ZenonT(30), <1>1, <1>2, <1>3, <1>4, <2>1 DEF PodInv, NothingElse
<1> QED BY ZenonT(30), <1>1, <1>2, <1>3, <1>5, <1>6, <1>7, <1>8, <1>9 DEF PodInv

LEMMA SnapshotStep == PodInv /\ SnapshotDownload => PodInv'
<1> SUFFICES ASSUME PodInv, SnapshotDownload PROVE PodInv'
  BY Zenon
<1>1. PICK got \in SUBSET Wanted :
        /\ files' = [p \in DOMAIN files |-> IF p \in got THEN "whole" ELSE files[p]]
        /\ dirs' = dirs \union DirsOf(got)
        /\ IF got = Wanted THEN stage' = "completed" /\ UNCHANGED faults
           ELSE stage' = "raised" /\ faults < MaxFaults /\ faults' = faults + 1
  BY Zenon DEF SnapshotDownload
<1>2. /\ stage = "snapshot" /\ listed' = remote
      /\ UNCHANGED <<config, remote, changes, todo, current, job, owner, available, ref, pc, restarts>>
      /\ uri' = uri /\ ignored' = ignored
  BY Zenon DEF SnapshotDownload, config
<1>3. IInv'
  BY SMTT(30), <1>1, <1>2, InitializerAssumption DEF PodInv, IInv, TypeOK, CreatedSoFar
<1>4. /\ uri.scheme = "hf" /\ current = Nowhere /\ DOMAIN files = Paths
      /\ Wanted \subseteq Paths /\ Wanted' = Wanted
  BY Zenon, <1>2, KeyInPaths DEF PodInv, PodTypeOK, StageInv, Wanted
<1>5. /\ DOMAIN files' = Paths
      /\ \A p \in Paths : files'[p] = IF p \in got THEN "whole" ELSE files[p]
  BY Zenon, <1>1, <1>4
<1>6. todo = {}
  BY Zenon, <1>4 DEF PodInv, ListedInv
<1>7. stage' \in Ended
  BY Zenon, <1>1 DEF Ended
<1>8. PodTypeOK'
  <2>1. \A p \in Paths : files[p] \in {"none", "part", "whole"}
    BY Zenon, <1>4 DEF PodInv, PodTypeOK
  <2>2. Untroubled => \A p \in Paths : files[p] # "part"
    BY Zenon, <1>2, <1>4 DEF PodInv, PodTypeOK, Untroubled
  <2>3. \A p \in Paths : files'[p] \in {"none", "part", "whole"}
    BY Zenon, <1>5, <2>1
  <2>4. Untroubled' => Untroubled
    <3>1. faults \in Nat /\ (faults' = faults \/ faults' = faults + 1)
      BY <1>1, InitializerAssumption DEF PodInv, IInv, TypeOK
    <3> QED BY <1>2, <3>1 DEF Untroubled
  <2>5. Untroubled' => \A p \in Paths : files'[p] # "part"
    BY Zenon, <1>2, <1>5, <2>2, <2>4
  <2> QED
    BY Zenon, <1>2, <1>3, <1>5, <1>6, <1>7, <2>3, <2>5
    DEF PodInv, IInv, PodTypeOK, Ended, Untroubled
<1>9. StageInv' /\ ListedInv' /\ NothingElse'
  BY Zenon, <1>2, <1>4, <1>6, <1>7 DEF StageInv, ListedInv, NothingElse, Ended
<1>10. UnchangedInv'
  <2>1. dirs' \subseteq DirsOf(Wanted)
    BY Zenon, <1>1, <1>4 DEF PodInv, UnchangedInv, DirsOf
  <2> QED BY Zenon, <1>2, <1>4, <1>5, <2>1 DEF PodInv, UnchangedInv
<1>11. SnapshotInv'
  BY Zenon, <1>1, <1>4, <1>5 DEF SnapshotInv
<1> QED
  BY ZenonT(30), <1>2, <1>3, <1>5, <1>7, <1>8, <1>9, <1>10, <1>11 DEF PodInv, Ended

LEMMA RemoteStep == ASSUME PodInv, NEW key \in Keys, RemoteChanges(key) PROVE PodInv'
<1>1. /\ uri.scheme = "s3" /\ changes < MaxChanges /\ changes' = changes + 1
      /\ remote' = IF key \in remote THEN remote \ {key} ELSE remote \union {key}
      /\ UNCHANGED <<config, stage, listed, todo, current, files, dirs, vars>>
      /\ uri' = uri /\ ignored' = ignored /\ restarts' = restarts /\ faults' = faults
  BY Zenon DEF RemoteChanges, config, vars
<1>2. IInv'
  BY Zenon, <1>1, NextIInv DEF PodInv
<1>3. changes \in 0 .. MaxChanges
  BY Zenon DEF PodInv, PodTypeOK
<1>4. changes' \in 0 .. MaxChanges /\ changes' # 0
  BY SMTT(30), <1>1, <1>3, PathsAssumption
<1>5. \A k : (AtBase(k)' <=> AtBase(k)) /\ Relative(k)' = Relative(k)
  BY Zenon, <1>1 DEF AtBase, Under, Relative
<1>6. PodTypeOK'
  BY Zenon, <1>1, <1>2, <1>4 DEF PodInv, PodTypeOK, IInv
<1>7. StageInv' /\ ListedInv'
  BY Zenon, <1>1, <1>5 DEF PodInv, StageInv, ListedInv
<1>8. UnchangedInv' /\ SnapshotInv'
  BY Zenon, <1>1, <1>4 DEF UnchangedInv, SnapshotInv
<1>9. NothingElse'
  BY Zenon, <1>1, <1>5 DEF PodInv, NothingElse
<1> QED BY ZenonT(30), <1>1, <1>2, <1>6, <1>7, <1>8, <1>9 DEF PodInv

LEMMA NextPodInv == PodInv /\ [PodNext]_all => PodInv'
<1> SUFFICES ASSUME PodInv, [PodNext]_all PROVE PodInv'
  BY Zenon
<1>1. CASE Downloaded
  <2>1. IInv' /\ Untroubled' = Untroubled
    BY Zenon, <1>1, NextIInv DEF PodInv, Downloaded, vars, Untroubled
  <2> QED BY Zenon, <1>1, <2>1, OtherStep DEF Downloaded, download
<1>2. CASE CallRaises
  <2>1. /\ UNCHANGED <<job, owner, available, ref, pc, restarts>>
        /\ faults < MaxFaults /\ faults' = faults + 1
    BY Zenon, <1>2 DEF CallRaises
  <2>2. IInv'
    BY SMTT(30), <2>1, InitializerAssumption DEF PodInv, IInv, TypeOK, CreatedSoFar
  <2>3. ~Untroubled'
    BY SMTT(30), <2>1, InitializerAssumption DEF PodInv, IInv, TypeOK, Untroubled
  <2> QED BY Zenon, <1>2, <2>2, <2>3, OtherStep DEF CallRaises
<1>3. CASE RestartRaised
  <2>1. IInv' /\ Untroubled' = Untroubled
    BY Zenon, <1>3, NextIInv DEF PodInv, RestartRaised, vars, Untroubled
  <2> QED BY Zenon, <1>3, <2>1, OtherStep DEF RestartRaised, Again
<1>4. CASE Killed
  <2>1. /\ UNCHANGED <<job, owner, available, ref, pc, faults>>
        /\ restarts < MaxRestarts /\ restarts' = restarts + 1
    BY Zenon, <1>4 DEF Killed
  <2>2. IInv'
    BY SMTT(30), <2>1, InitializerAssumption DEF PodInv, IInv, TypeOK, CreatedSoFar
  <2>3. ~Untroubled'
    BY SMTT(30), <2>1, InitializerAssumption DEF PodInv, IInv, TypeOK, Untroubled
  <2> QED BY Zenon, <1>4, <2>2, <2>3, OtherStep DEF Killed, Again
<1>5. CASE Cache(Next)
  <2>1. IInv'
    BY Zenon, <1>5, NextIInv DEF PodInv, Cache
  <2>2. Untroubled' => Untroubled
    <3>1. restarts \in Nat /\ faults \in Nat
      BY InitializerAssumption DEF PodInv, IInv, TypeOK
    <3>2. Process \/ BecomesAvailable \/ Recreate
          \/ (\E k \in Kinds : Collect(k)) \/ CallFails \/ Restart
      BY Zenon, <1>5 DEF Cache, Next
    <3>3. CASE Process
      BY ZenonT(30), <3>3
      DEF Process, GetTrainJob, CreateServiceAccount, CreateLeaderWorkerSet, CreateService,
        CreateOrSkip, CreateOrGiveUp, PollLeaderWorkerSet, Cleanup, Untroubled
    <3>4. CASE BecomesAvailable \/ Recreate \/ (\E k \in Kinds : Collect(k))
      BY ZenonT(30), <3>4 DEF BecomesAvailable, Recreate, Collect, Untroubled
    <3>5. CASE CallFails \/ Restart
      <4>1. faults' = faults + 1 \/ restarts' = restarts + 1
        BY Zenon, <3>5 DEF CallFails, Restart
      <4> QED BY SMTT(30), <3>1, <4>1 DEF Untroubled
    <3> QED BY ZenonT(30), <3>2, <3>3, <3>4, <3>5
  <2> QED BY Zenon, <1>5, <2>1, <2>2, OtherStep DEF Cache, download
<1>6. CASE UNCHANGED all
  <2>1. IInv'
    BY Zenon, <1>6, NextIInv DEF PodInv, all
  <2>2. UNCHANGED <<uri, ignored, remote, changes, stage, listed, todo, current, files, dirs,
                    restarts, faults>>
    BY Zenon, <1>6 DEF all, config, download, vars
  <2>3. \A k : (AtBase(k)' <=> AtBase(k)) /\ Relative(k)' = Relative(k)
    BY Zenon, <2>2 DEF AtBase, Under, Relative
  <2>4. Named(remote)' = Named(remote) /\ Wanted' = Wanted /\ Due' = Due
    BY Zenon, <2>2, <2>3 DEF Named, Wanted, Due
  <2>5. PodTypeOK' /\ StageInv'
    BY Zenon, <2>1, <2>2 DEF PodInv, PodTypeOK, StageInv, IInv
  <2>6. ListedInv' /\ NothingElse'
    BY Zenon, <2>2, <2>3 DEF PodInv, ListedInv, NothingElse
  <2>7. UnchangedInv' /\ SnapshotInv'
    BY Zenon, <2>2, <2>4 DEF PodInv, UnchangedInv, SnapshotInv
  <2> QED BY Zenon, <2>1, <2>2, <2>5, <2>6, <2>7 DEF PodInv
<1> QED
  BY ZenonT(30), <1>1, <1>2, <1>3, <1>4, <1>5, <1>6, StartStep, ListStep, DirsStep, ReadStep,
     WriteStep, SnapshotStep, RemoteStep
  DEF PodNext, PodProcess

-----------------------------------------------------------------------------
(* Every process exits 0 only with all it was to download in the volume,   *)
(* whole: for any bucket, URI and patterns, however often the process was  *)
(* killed, a call failed or the bucket changed.  Nobody having changed it, *)
(* this is exactly what the URI names, and the directories it needs        *)
(* (_resolve_keys, download).                                              *)
THEOREM PodCompletedMeansDownloaded == PodSpec => []CompletedMeansDownloaded
<1>1. PodInv => CompletedMeansDownloaded
  <2> SUFFICES ASSUME PodInv, stage = "completed" PROVE CompletedMeansDownloaded
    BY Zenon DEF CompletedMeansDownloaded
  <2>1. uri.scheme \in {"s3", "hf"} /\ DOMAIN files = Paths
    BY Zenon DEF PodInv, StageInv
  <2>2. CASE uri.scheme = "hf"
    BY Zenon, <2>1, <2>2 DEF PodInv, UnchangedInv, SnapshotInv, CompletedMeansDownloaded
  <2>3. CASE uri.scheme = "s3"
    <3>1. \A k \in listed \ ignored : files[Relative(k)] = "whole"
      BY Zenon, <2>3 DEF PodInv, ListedInv
    <3>2. changes = 0 => /\ listed = Named(remote) /\ dirs \subseteq DirsOf(Due)
                         /\ \A p \in Paths : files[p] # "none" => p \in Due
      BY Zenon, <2>3 DEF PodInv, UnchangedInv
    <3> QED BY Zenon, <2>1, <2>3, <3>1, <3>2 DEF CompletedMeansDownloaded, Due
  <2> QED BY Zenon, <2>1, <2>2, <2>3
<1> QED BY InitPodInv, NextPodInv, <1>1, PTL DEF PodSpec

(* The volume never has a file of an object the URI does not name or       *)
(* IGNORE_PATTERNS match (_resolve_keys lists the directory, not a         *)
(* prefix).                                                                *)
THEOREM PodNothingElse == PodSpec => []NothingElse
<1>1. PodInv => NothingElse
  BY DEF PodInv
<1> QED BY InitPodInv, NextPodInv, <1>1, PTL DEF PodSpec

(* What the process lists and downloads keeps its type, and before any     *)
(* kill and failed call only the file being written is cut short           *)
(* (download): for any bucket, URI and patterns.                           *)
THEOREM PodIsTyped == PodSpec => []PodTypeOK
<1>1. PodInv => PodTypeOK
  BY DEF PodInv
<1> QED BY InitPodInv, NextPodInv, <1>1, PTL DEF PodSpec

(* A dataset initializer that creates a cache cluster reports success only *)
(* for one that serves, within the process that also downloads.            *)
THEOREM PodCompletedMeansServed == PodSpec => []CompletedMeansServed
<1>1. PodInv => CompletedMeansServed
  BY DEF PodInv, IInv, CreatedSoFar, CompletedMeansServed, Kinds
<1> QED BY InitPodInv, NextPodInv, <1>1, PTL DEF PodSpec
=============================================================================
