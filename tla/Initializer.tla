----------------------------- MODULE Initializer -----------------------------
(***************************************************************************)
(* The dataset and the model initializer of a TrainJob: the process of     *)
(* pkg/initializers/dataset or .../model, which picks a provider by the    *)
(* scheme of STORAGE_URI and downloads from S3 or the Hugging Face Hub     *)
(* into a volume, or creates a cache cluster (CacheInitializer).           *)
(*                                                                         *)
(* A path is a sequence of names.  The volume outlives the process: one    *)
(* that is killed or raises is started again and finds the files it had    *)
(* written, the last of them perhaps cut short.                            *)
(***************************************************************************)
EXTENDS CacheInitializer, Sequences, SequencesExt, FiniteSets

CONSTANTS
  Roles,       \* dataset, model
  Schemes,     \* of STORAGE_URI; "" when it is not set
  Bases,       \* the paths a STORAGE_URI may have
  Keys,        \* the paths an object may have
  Allowed,     \* those allow_patterns of the model initializer match
  Ignorable,   \* the sets of paths IGNORE_PATTERNS may match
  Longer(_, _),\* the second name begins with the first
  MaxChanges   \* objects added or deleted while the initializer runs

\* No object has an empty path.
ASSUME PathsAssumption ==
  /\ Keys \subseteq Seq(STRING) \ {<<>>} /\ Bases \subseteq Seq(STRING)
  /\ MaxChanges \in Nat

VARIABLES
  uri,        \* role, scheme, base and whether a slash follows it
  ignored,    \* what IGNORE_PATTERNS match
  complete,   \* the environment has the other settings the cache needs
  remote,     \* the objects of the bucket, or the files of the repository
  changes,    \* how often they have changed
  stage,      \* where the process is
  listed,     \* what it has found to download,
  todo,       \* what of that is left,
  current,    \* the file it is downloading
  files,      \* the files of the volume: path -> none, part or whole
  dirs        \* and its directories

download == <<remote, changes, listed, todo, current, files, dirs>>
config == <<uri, ignored, complete>>
all == <<config, download, stage, vars>>

Nowhere == <<>>
Ended == {"completed", "raised"}

-----------------------------------------------------------------------------
(***************************************************************************)
(* main and load_config.                                                   *)
(***************************************************************************)
\* parse_cache_storage_uri takes cache://<SCHEMA_NAME>/<TABLE_NAME>.
CacheURI == Len(uri.base) = 1 /\ ~uri.slash

\* The repository a Hugging Face URI names: the dataset takes one name of its
\* path, the model all of it.
HuggingFaceURI ==
  IF uri.role = "dataset" THEN Len(uri.base) > 0 ELSE Len(uri.base) < 2 /\ ~uri.slash

Provider ==
  CASE uri.scheme = "hf" -> IF HuggingFaceURI THEN "snapshot" ELSE "raised"
    [] uri.scheme = "s3" -> IF uri.base # <<>> /\ ~uri.slash THEN "stat" ELSE "list"
    [] uri.scheme = "cache" /\ uri.role = "dataset" ->
         IF complete /\ CacheURI THEN "cache" ELSE "raised"
    [] OTHER -> "raised"

Start ==
  /\ stage = "start"
  /\ stage' = Provider
  /\ UNCHANGED <<config, download, vars>>

-----------------------------------------------------------------------------
(***************************************************************************)
(* S3Storage.download.                                                     *)
(***************************************************************************)
Under(base, key) == IsStrictPrefix(base, key)

\* A listing of everything that begins like this.
Begins(base, key) ==
  \/ IsPrefix(base, key)
  \/ /\ base # <<>> /\ Len(key) >= Len(base)
     /\ \A i \in 1 .. Len(base) - 1 : key[i] = base[i]
     /\ Longer(Last(base), key[Len(base)])

Found(keys) ==
  /\ listed' = keys /\ todo' = keys \ ignored
  /\ stage' = IF keys = {} THEN "raised" ELSE "next"

\* _is_object: the exact object takes precedence over the directory.
Stat ==
  /\ stage = "stat"
  /\ IF uri.base \in remote THEN Found({uri.base})
     ELSE stage' = "list" /\ UNCHANGED <<listed, todo>>
  /\ UNCHANGED <<config, remote, changes, current, files, dirs, vars>>

\* Mutant: op.list(base), which lists by prefix.
ListAsPrefix ==
  /\ stage = "list"
  /\ Found({key \in remote : Begins(uri.base, key)})
  /\ UNCHANGED <<config, remote, changes, current, files, dirs, vars>>

\* The directory's objects; none is an error.
ListKeys ==
  /\ stage = "list"
  /\ Found({key \in remote : Under(uri.base, key)})
  /\ UNCHANGED <<config, remote, changes, current, files, dirs, vars>>

\* An object named exactly is stored under its last name.
Relative(key) ==
  IF key = uri.base THEN <<Last(key)>> ELSE SubSeq(key, Len(uri.base) + 1, Len(key))

\* The directories a file needs.
Above(path) == Prefixes(path) \ {<<>>, path}
DirsOf(paths) == UNION {Above(p) : p \in paths}

\* mkdir makes them all; a file that is one of them is in the way.
MakeDirectories ==
  /\ stage = "next"
  /\ \E key \in todo :
       LET path == Relative(key)
       IN IF \E p \in Above(path) \intersect DOMAIN files : files[p] # "none"
          THEN stage' = "raised" /\ UNCHANGED <<current, dirs>>
          ELSE stage' = "read" /\ current' = path /\ dirs' = dirs \union Above(path)
  /\ UNCHANGED <<config, remote, changes, listed, todo, files, vars>>

\* Mutant: open(..., "xb").
InTheWayAtAll(path) == path \in dirs \/ files[path] # "none"

\* open fails where there is a directory.
InTheWay(path) == path \in dirs

\* Mutant: a file that is there has been downloaded.
ReadMissingKey ==
  /\ stage = "read"
  /\ \E key \in todo :
       /\ Relative(key) = current
       /\ IF key \notin remote \/ InTheWay(current)
          THEN stage' = "raised" /\ current' = Nowhere /\ UNCHANGED <<todo, files>>
          ELSE /\ todo' = todo \ {key}
               /\ IF files[current] # "none"
                  THEN stage' = "next" /\ current' = Nowhere /\ UNCHANGED files
                  ELSE /\ stage' = "write" /\ UNCHANGED current
                       /\ files' = [files EXCEPT ![current] = "part"]
  /\ UNCHANGED <<config, remote, changes, listed, dirs, vars>>

\* op.read gives the whole object; open truncates the file.
ReadKey ==
  /\ stage = "read"
  /\ \E key \in todo :
       /\ Relative(key) = current
       /\ IF key \notin remote \/ InTheWay(current)
          THEN stage' = "raised" /\ current' = Nowhere /\ UNCHANGED <<todo, files>>
          ELSE /\ stage' = "write" /\ todo' = todo \ {key} /\ UNCHANGED current
               /\ files' = [files EXCEPT ![current] = "part"]
  /\ UNCHANGED <<config, remote, changes, listed, dirs, vars>>

\* Mutant: the write is lost.
WriteNothing ==
  /\ stage = "write"
  /\ stage' = "next" /\ current' = Nowhere
  /\ UNCHANGED <<config, remote, changes, listed, todo, files, dirs, vars>>

WriteFile ==
  /\ stage = "write"
  /\ files' = [files EXCEPT ![current] = "whole"]
  /\ stage' = "next" /\ current' = Nowhere
  /\ UNCHANGED <<config, remote, changes, listed, todo, dirs, vars>>

\* Also when all of them were ignored, with a warning.
Downloaded ==
  /\ stage = "next" /\ todo = {}
  /\ stage' = "completed"
  /\ UNCHANGED <<config, download, vars>>

-----------------------------------------------------------------------------
(***************************************************************************)
(* HuggingFace: login, and snapshot_download, which puts whole files into  *)
(* the volume and may fail after any of them.                              *)
(***************************************************************************)
Wanted == (IF uri.role = "model" THEN remote \intersect Allowed ELSE remote) \ ignored

SnapshotDownload ==
  /\ stage = "snapshot"
  /\ \E got \in SUBSET Wanted :
       /\ files' = [p \in DOMAIN files |-> IF p \in got THEN "whole" ELSE files[p]]
       /\ dirs' = dirs \union DirsOf(got)
       /\ IF got = Wanted THEN stage' = "completed" /\ UNCHANGED faults
          ELSE stage' = "raised" /\ faults < MaxFaults /\ faults' = faults + 1
  /\ listed' = remote
  /\ UNCHANGED <<config, remote, changes, todo, current, job, owner, available, ref, pc, restarts>>

-----------------------------------------------------------------------------
(***************************************************************************)
(* The composition with the cache provider, and what happens around it.    *)
(***************************************************************************)
Cache(step) == stage = "cache" /\ step /\ UNCHANGED <<config, download, stage>>

\* A request of the bucket fails for good (RetryLayer has tried it again), or the
\* volume refuses a directory, a file or, when it is full, the rest of a file.
CallRaises ==
  /\ stage \in {"stat", "list", "next", "read", "write"} /\ (stage = "next" => todo # {})
  /\ faults < MaxFaults /\ faults' = faults + 1
  /\ stage' = "raised" /\ current' = Nowhere
  /\ UNCHANGED <<config, remote, changes, listed, todo, files, dirs>>
  /\ UNCHANGED <<job, owner, available, ref, pc, restarts>>

Again ==
  /\ stage' = "start" /\ listed' = {} /\ todo' = {} /\ current' = Nowhere
  /\ UNCHANGED <<config, remote, changes, files, dirs>>

\* The container is started again after an exception, and when it was killed.
RestartRaised == stage = "raised" /\ Again /\ UNCHANGED vars
Killed ==
  /\ stage \notin Ended \union {"cache"}
  /\ restarts < MaxRestarts /\ restarts' = restarts + 1
  /\ Again
  /\ UNCHANGED <<job, owner, available, ref, pc, faults>>

\* An object is written or deleted.
RemoteChanges(key) ==
  /\ uri.scheme = "s3" /\ changes < MaxChanges /\ changes' = changes + 1
  /\ remote' = IF key \in remote THEN remote \ {key} ELSE remote \union {key}
  /\ UNCHANGED <<config, stage, listed, todo, current, files, dirs, vars>>

\* Where in the volume a file of an object may be, relative to any base.
Paths == (UNION {Suffixes(key) : key \in Keys}) \ {<<>>}

\* The files of a repository are a tree: none is a directory of another.
Tree(paths) == paths \intersect DirsOf(paths) = {}

PodInit ==
  /\ Init
  /\ uri \in [role: Roles, scheme: Schemes, base: Bases, slash: BOOLEAN]
  /\ ignored \in Ignorable /\ complete \in BOOLEAN
  /\ remote \in SUBSET Keys
  /\ uri.scheme = "hf" => Tree(remote)
  /\ uri.scheme \notin {"hf", "s3"} => remote = {} /\ ignored = {}   \* not read
  /\ uri.scheme # "cache" => complete                                \* not read
  /\ changes = 0 /\ stage = "start" /\ listed = {} /\ todo = {} /\ current = Nowhere
  /\ files = [p \in Paths |-> "none"] /\ dirs = {}

PodProcess ==
  \/ Start \/ Stat \/ ListKeys \/ MakeDirectories \/ ReadKey \/ WriteFile \/ Downloaded
  \/ SnapshotDownload \/ RestartRaised

PodNext ==
  \/ PodProcess \/ CallRaises \/ Killed \/ Cache(Next)
  \/ \E key \in Keys : RemoteChanges(key)

PodSpec == PodInit /\ [][PodNext]_all

\* The process runs and is started again.  Nothing promises that a cache cluster
\* comes up: its Pods may find no node, and its head may plan or load in vain.
FairPodSpec == PodSpec /\ WF_all(PodProcess) /\ WF_all(Cache(Process))

-----------------------------------------------------------------------------
(* What the process has listed, what of it is left and the volume range    *)
(* over their types; only a file being written is cut short, or one that a *)
(* killed process or a failed write left behind.                           *)
PodTypeOK ==
  /\ TypeOK
  /\ stage \in {"start", "stat", "list", "next", "read", "write", "snapshot", "cache"} \union Ended
  /\ remote \subseteq Keys /\ listed \subseteq Keys /\ todo \subseteq listed \ ignored
  /\ changes \in 0 .. MaxChanges
  /\ \A p \in DOMAIN files : files[p] \in {"none", "part", "whole"}
  /\ stage = "write" => files[current] = "part"
  /\ restarts = 0 /\ faults = 0 =>
       \A p \in DOMAIN files : files[p] = "part" => stage = "write" /\ p = current

\* The objects a URI names, in the words of _resolve_keys: "a path without a
\* trailing / names an object, and a path with one names a directory ... falls back
\* to the directory with the same name, and the exact object takes precedence".
Named(keys) ==
  IF uri.base \in keys /\ ~uri.slash THEN {uri.base}
  ELSE {key \in keys : Under(uri.base, key)}

(* The process exits 0 only with every object it was to download in the    *)
(* volume, whole, whatever had failed, been killed or left behind before.  *)
(* If nobody changes the bucket these are the objects the URI names (or    *)
(* the files of the repository that pass the patterns) and nothing else is *)
(* in the volume but their directories (S3Storage.download,                *)
(* HuggingFace.download_model).                                            *)
CompletedMeansDownloaded ==
  stage = "completed" =>
    LET due == IF uri.scheme = "hf" THEN Wanted ELSE {Relative(k) : k \in listed \ ignored}
        named == IF uri.scheme = "hf" THEN Wanted
                 ELSE {Relative(k) : k \in Named(remote) \ ignored}
    IN /\ \A p \in due : files[p] = "whole"
       /\ changes = 0 =>
            /\ \A p \in DOMAIN files : files[p] = IF p \in named THEN "whole" ELSE "none"
            /\ dirs \subseteq DirsOf(named)

(* Never, not even after the bucket changed under a listing, is there a    *)
(* file of an object the URI does not name, such as one of a directory     *)
(* whose name only begins alike, or of one IGNORE_PATTERNS match           *)
(* (_resolve_keys, download).                                              *)
NothingElse ==
  uri.scheme = "s3" =>
    \A p \in DOMAIN files : files[p] # "none" =>
      \E key \in Keys \ ignored : Relative(key) = p /\ IsPrefix(uri.base, key)

\* The objects to download can be files of one directory.
Downloadable ==
  CASE uri.scheme = "s3" ->
         Named(remote) # {} /\ Tree({Relative(k) : k \in Named(remote) \ ignored})
    [] uri.scheme = "hf" -> HuggingFaceURI
    [] OTHER -> FALSE

(* While nobody changes what is to be downloaded the download completes,   *)
(* however often the process is killed or a call of it fails: no file and  *)
(* no directory a former process left behind is in the way of the next.    *)
Completes ==
  Downloadable => <>(stage = "completed" \/ changes > 0)

(* The initializer of a cache cluster exits, whichever call fails and      *)
(* wherever it is killed, or waits for ever for a cluster that does not    *)
(* come up, as its loop has no deadline.  It only waits when it has all    *)
(* the cluster's objects, so that nothing it left undone keeps the cluster *)
(* down, and only while the set is not available (download_dataset: the    *)
(* order of the calls, the handler of their errors and the loop).          *)
CacheEnds ==
  stage = "cache" ~>
    [](pc \in Exited \/ job > 1 \/ (pc = "wait" /\ ~available /\ \A k \in Kinds : owner[k] # 0))
=============================================================================
