------------------------------ MODULE DataCache ------------------------------
(***************************************************************************)
(* The distributed data cache (pkg/data_cache): a head that spreads the    *)
(* data files of a table over the workers, the workers that load and serve *)
(* them, and the training clients that read one partition of the rows      *)
(* each.  Head and workers are the Pods of one LeaderWorkerSet (external). *)
(***************************************************************************)
EXTENDS Integers, Sequences, FiniteSets, FiniteSetsExt, Lists, PartitionRange

CONSTANTS
  NumWorkers,
  Tables,       \* the tables to try: the numbers of rows of their files
  Worlds,       \* the numbers of clients to try
  BatchRows,    \* rows per batch of the reader (1024 in the code)
  MaxRestarts,  \* bound: restarts of the LeaderWorkerSet's Pods
  MaxPlanFaults, \* bound: plans of the head that fail
  MaxPutFaults, \* bound: calls of the head to a worker that fail
  MaxReadFaults \* bound: data files that cannot be read

Workers == 0 .. NumWorkers - 1

ASSUME CacheAssumption ==
  /\ NumWorkers \in Nat \ {0} /\ BatchRows \in Nat \ {0}
  /\ Tables \subseteq Seq(Nat) /\ Worlds \subseteq Nat \ {0}
  /\ MaxRestarts \in Nat /\ MaxPlanFaults \in Nat
  /\ MaxPutFaults \in Nat /\ MaxReadFaults \in Nat

VARIABLES
  rows,     \* rows[f]: record_count of data file f
  world,    \* number of clients
  head,     \* the head: progress of Distributor::init, its assignments
  put,      \* do_put calls: none, sent, handled, failed
  table,    \* the memtable of each worker: start index and batches
  released, \* the dataset initializer saw the LeaderWorkerSet available
  client,   \* the clients: endpoints they still have to read, their range
  got,      \* got[r]: rows client r received, with the worker they came from
  faults    \* faults so far, by kind

vars == <<rows, world, head, put, table, released, client, got, faults>>

Files == DOMAIN rows
Row(f) == {f} \X (1 .. rows[f])
AllRows == UNION {Row(f) : f \in Files}
NoTable == [start |-> -1, batches |-> <<>>]
Down == [pc |-> "Plan", groups |-> [w \in Workers |-> <<>>], total |-> 0]
Waiting == [pc |-> "Wait", endpoints |-> {}, range |-> NoRange]

-----------------------------------------------------------------------------
(***************************************************************************)
(* The head: provider.rs and head.rs.                                      *)
(***************************************************************************)
Size(g) == MapThenSumSet(LAMBDA i : rows[g[i]], DOMAIN g)

\* Mutant: the sizes are not brought up to date.
SmallestAtFirst(groups) == Min(Workers)

\* The first of the groups with the fewest rows.
Smallest(groups) ==
  Min({w \in Workers : \A v \in Workers : Size(groups[w]) <= Size(groups[v])})

\* plan_files yields the files in no fixed order; they are sorted by their rows.
Orders(files) ==
  {o \in SetToSeqs(files) : \A i, j \in DOMAIN o : i < j => rows[o[i]] >= rows[o[j]]}

\* One file after the other (the singleton makes TLC evaluate the groups once).
PartitionTasks(order) ==
  LET Assign(groups, f) ==
        CHOOSE h \in {[g EXCEPT ![Smallest(g)] = Append(@, f)] : g \in {groups}} : TRUE
  IN FoldLeft(Assign, [w \in Workers |-> <<>>], order)

StartIndex(groups, w) == MapThenSumSet(LAMBDA v : Size(groups[v]), 0 .. w - 1)
EndIndex(groups, w) == StartIndex(groups, w) + Max({Size(groups[w]) - 1, 0})

Assigned(groups) == {w \in Workers : groups[w] # <<>>}

\* MAX(row_end_indexes) + 1; the maximum of no row reads as 0.
TotalRowCount(groups) == Max({EndIndex(groups, w) : w \in Assigned(groups)} \union {0}) + 1

\* Distributor::init up to the total: errors of the planning stream are skipped.
Plan ==
  /\ head.pc = "Plan"
  /\ \E lost \in SUBSET Files :
       /\ faults.read + Cardinality(lost) <= MaxReadFaults
       /\ faults' = [faults EXCEPT !.read = @ + Cardinality(lost)]
       /\ \E groups \in {PartitionTasks(order) : order \in Orders(Files \ lost)} :
            head' = [pc |-> "Distribute", groups |-> groups, total |-> TotalRowCount(groups)]
  /\ UNCHANGED <<rows, world, put, table, released, client, got>>

\* The files cannot be planned: run drops the error of init and serves, without the
\* head's own table.  (A head that cannot load the table's metadata never gets to
\* init: it exits, which is a Restart.)
PlanFails ==
  /\ head.pc = "Plan"
  /\ faults.plan < MaxPlanFaults /\ faults' = [faults EXCEPT !.plan = @ + 1]
  /\ head' = [head EXCEPT !.pc = "Unready"]
  /\ UNCHANGED <<rows, world, put, table, released, client, got>>

ToSend == {w \in Assigned(head.groups) : put[w] = "none"}

\* The partitions of DistributedWriterExec run concurrently; how the assignments are
\* spread over them is up to RepartitionExec (external).
SendRecordBatch(w) ==
  /\ head.pc = "Distribute" /\ w \in ToSend
  /\ put' = [put EXCEPT ![w] = "sent"]
  /\ UNCHANGED <<rows, world, head, table, released, client, got, faults>>

\* A connection that try_new does not get ends its partition: the assignments behind
\* it are not sent either.
TryNewFails(w) ==
  /\ head.pc = "Distribute" /\ w \in ToSend
  /\ faults.put < MaxPutFaults /\ faults' = [faults EXCEPT !.put = @ + 1]
  /\ \E behind \in SUBSET (ToSend \ {w}) :
       put' = [v \in Workers |-> IF v \in behind \union {w} THEN "failed" ELSE put[v]]
  /\ UNCHANGED <<rows, world, head, table, released, client, got>>

\* Mutant: workers without files are not told.
DistributedIsDone ==
  /\ head.pc = "Distribute"
  /\ \A w \in Assigned(head.groups) : put[w] \in {"handled", "failed"}
  /\ head' = [head EXCEPT !.pc = "Serve"]
  /\ UNCHANGED <<rows, world, put, table, released, client, got, faults>>

\* The results of the writer are not looked at.
Distributed ==
  /\ head.pc = "Distribute"
  /\ \A w \in Assigned(head.groups) : put[w] \in {"handled", "failed"}
  /\ head' = [head EXCEPT !.pc = "AssignEmpty"]
  /\ UNCHANGED <<rows, world, put, table, released, client, got, faults>>

Unassigned == Workers \ Assigned(head.groups)

\* assign_empty_partitions: one worker after the other, up to the first error.
AssignEmpty ==
  /\ head.pc = "AssignEmpty"
  /\ \A w \in Unassigned : put[w] \in {"none", "handled"}
  /\ \E w \in Unassigned :
       /\ put[w] = "none" /\ \A v \in Unassigned : v < w => put[v] = "handled"
       /\ put' = [put EXCEPT ![w] = "sent"]
  /\ UNCHANGED <<rows, world, head, table, released, client, got, faults>>

\* run goes on to serve whatever init returned.
Serve ==
  /\ head.pc = "AssignEmpty"
  /\ \/ \A w \in Unassigned : put[w] = "handled"
     \/ \E w \in Unassigned : put[w] = "failed"
  /\ head' = [head EXCEPT !.pc = "Serve"]
  /\ UNCHANGED <<rows, world, put, table, released, client, got, faults>>

-----------------------------------------------------------------------------
(***************************************************************************)
(* The workers: worker_service.rs, worker_datasource.rs and                *)
(* indexable_mem_table.rs.                                                 *)
(***************************************************************************)
\* A batch of a file is named by the file and its place in it.
BatchIds(files) == UNION {{f} \X (1 .. DivCeil(rows[f], BatchRows)) : f \in files}

Batch(f, i) ==
  [j \in 1 .. AtMost(BatchRows, rows[f] - (i - 1) * BatchRows) |-> <<f, (i - 1) * BatchRows + j>>]

\* What errors of the stream may leave out: of some files the batches from one on.
Lost(files) ==
  {lost \in SUBSET BatchIds(files) :
     \A b \in lost, c \in BatchIds(files) : c[1] = b[1] /\ c[2] > b[2] => c \in lost}

\* The batches of the assigned files as the reader yields them: it reads the files
\* concurrently, so only those of one file are in order.
ReadStream(w, lost) ==
  {order \in SetToSeqs(BatchIds(Range(head.groups[w])) \ lost) :
     \A i, j \in DOMAIN order : i < j /\ order[i][1] = order[j][1] => order[i][2] < order[j][2]}

Load(w, order) ==
  [start |-> IF head.groups[w] = <<>> THEN head.total ELSE StartIndex(head.groups, w),
   batches |-> [i \in DOMAIN order |-> Batch(order[i][1], order[i][2])]]

DoPut(w) ==
  /\ put[w] = "sent"
  /\ \E lost \in Lost(Range(head.groups[w])) :
       /\ faults.read + Cardinality({b[1] : b \in lost}) <= MaxReadFaults
       /\ faults' = [faults EXCEPT !.read = @ + Cardinality({b[1] : b \in lost})]
       /\ \E order \in ReadStream(w, lost) :
            table' = [table EXCEPT ![w] = Load(w, order)]
  /\ put' = [put EXCEPT ![w] = "handled"]
  /\ UNCHANGED <<rows, world, head, released, client, got>>

\* The worker fails, or does not answer in time but loads all the same, or (an empty
\* assignment) cannot be reached.
PutFails(w) ==
  /\ put[w] = "sent"
  /\ faults.put < MaxPutFaults /\ faults' = [faults EXCEPT !.put = @ + 1]
  /\ put' = [put EXCEPT ![w] = "failed"]
  /\ \E t \in {NoTable} \union {Load(w, order) : order \in ReadStream(w, {})} :
       table' = [table EXCEPT ![w] = t]
  /\ UNCHANGED <<rows, world, head, released, client, got>>

\* start_indices and end_indices of IndexableMemTable::load.
BatchStart(t, b) == t.start + MapThenSumSet(LAMBDA c : Len(t.batches[c]), 1 .. b - 1)
BatchEnd(t, b) == BatchStart(t, b) + Len(t.batches[b]) - 1

\* RowNumberStream numbers the rows through.
CacheIndex(t, b, j) == BatchStart(t, b) + j - 1

\* Mutant: a batch that starts at the end of the range is left out.
FetchPartitionsExclusive(t, start, end) ==
  LET first == Cardinality({b \in DOMAIN t.batches : BatchEnd(t, b) < start}) + 1
      last == Max({Cardinality({b \in DOMAIN t.batches : BatchStart(t, b) < end}), 1})
  IN {b \in DOMAIN t.batches : first <= b /\ b <= last}

\* fetch_partitions: the batches from the first that ends at or after start to the
\* last that starts at or before end.
FetchPartitions(t, start, end) ==
  LET first == Cardinality({b \in DOMAIN t.batches : BatchEnd(t, b) < start}) + 1
      last == Max({Cardinality({b \in DOMAIN t.batches : BatchStart(t, b) <= end}), 1})
  IN {b \in DOMAIN t.batches : first <= b /\ b <= last}

\* What do_get streams: of those batches the rows with a cache_index in the range.
Selected(t, range) ==
  {t.batches[y[1]][y[2]] : y \in
     {x \in FetchPartitions(t, range.start, range.end) \X (1 .. BatchRows) :
        /\ x[2] <= Len(t.batches[x[1]])
        /\ InRange(CacheIndex(t, x[1], x[2]), range)}}

-----------------------------------------------------------------------------
(***************************************************************************)
(* Readiness, the initializer that waits for it, and restarts.             *)
(***************************************************************************)
\* Mutant: a worker is ready as soon as it listens.
WorkerListens(w) == TRUE

WorkerReady(w) == table[w] # NoTable
HeadReady == head.pc = "Serve"
Available == HeadReady /\ \A w \in Workers : WorkerReady(w)

Release ==
  /\ Available /\ ~released /\ released' = TRUE
  /\ UNCHANGED <<rows, world, head, put, table, client, got, faults>>

\* A Pod restarts, and with it the group (RecreateGroupOnPodRestart, the default).
Restart ==
  /\ faults.restart < MaxRestarts /\ faults' = [faults EXCEPT !.restart = @ + 1]
  /\ head' = Down
  /\ put' = [w \in Workers |-> "none"] /\ table' = [w \in Workers |-> NoTable]
  /\ UNCHANGED <<rows, world, released, client, got>>

-----------------------------------------------------------------------------
(***************************************************************************)
(* The clients.                                                            *)
(***************************************************************************)
Ranks == 0 .. world - 1

\* get_workers_to_connect.
WorkersToConnect(range) ==
  {w \in Assigned(head.groups) : /\ StartIndex(head.groups, w) <= range.end
                                 /\ EndIndex(head.groups, w) >= range.start}

GetFlightInfo(r) ==
  /\ released /\ HeadReady /\ client[r].pc = "Wait"
  /\ LET range == GetPartitionRange(head.total, world, r) IN
     client' = [client EXCEPT ![r] =
                  IF range = NoRange THEN [Waiting EXCEPT !.pc = "Refused"]
                  ELSE [pc |-> "Read", endpoints |-> WorkersToConnect(range), range |-> range]]
  /\ UNCHANGED <<rows, world, head, put, table, released, got, faults>>

DoGet(r) ==
  /\ client[r].pc = "Read"
  /\ \E w \in client[r].endpoints :
       /\ WorkerReady(w)
       /\ got' = [got EXCEPT ![r] = @ \union ({w} \X Selected(table[w], client[r].range))]
       /\ client' = [client EXCEPT ![r].endpoints = @ \ {w}]
  /\ UNCHANGED <<rows, world, head, put, table, released, faults>>

ReadDone(r) ==
  /\ client[r].pc = "Read" /\ client[r].endpoints = {}
  /\ client' = [client EXCEPT ![r].pc = "Done"]
  /\ UNCHANGED <<rows, world, head, put, table, released, got, faults>>

-----------------------------------------------------------------------------
Init ==
  /\ rows \in Tables /\ world \in Worlds
  /\ head = Down
  /\ put = [w \in Workers |-> "none"] /\ table = [w \in Workers |-> NoTable]
  /\ released = FALSE
  /\ client = [r \in Ranks |-> Waiting] /\ got = [r \in Ranks |-> {}]
  /\ faults = [restart |-> 0, plan |-> 0, put |-> 0, read |-> 0]

Cluster ==
  \/ Plan \/ Distributed \/ AssignEmpty \/ Serve \/ Release
  \/ \E w \in Workers : SendRecordBatch(w) \/ DoPut(w)

Clients == \E r \in Ranks : GetFlightInfo(r) \/ DoGet(r) \/ ReadDone(r)

Next ==
  \/ Cluster \/ Clients \/ Restart \/ PlanFails
  \/ \E w \in Workers : TryNewFails(w) \/ PutFails(w)

Spec == Init /\ [][Next]_vars

\* Head and workers keep running.
FairSpec == Spec /\ WF_vars(Cluster)

-----------------------------------------------------------------------------
Finished == \A r \in Ranks : client[r].pc \in {"Refused", "Done"}
Deliveries(row) == {x \in Ranks \X Workers : <<x[2], row>> \in got[x[1]]}

\* "Partition ranges are calculated to avoid gaps or overlaps": once every client has
\* read its partition, every row of the table was delivered exactly once, for every
\* split of the rows over files, of the files over workers and of the row numbers over
\* batches, unless the Pods restarted, which loads the table anew (partition_tasks,
\* get_partition_range, get_workers_to_connect, do_get).
EpochExact ==
  Finished /\ faults.restart = 0 => \A row \in AllRows : Cardinality(Deliveries(row)) = 1

\* "Task groups are balanced to minimize data skew across workers": two groups differ
\* by no more rows than the largest file has (partition_tasks).
GroupsBalanced ==
  head.pc # "Plan" =>
    \A v, w \in Workers :
      Size(head.groups[v]) <= Size(head.groups[w]) + Max(Range(rows) \union {0})

RowsOf(w) == UNION {Range(table[w].batches[b]) : b \in DOMAIN table[w].batches}

\* The LeaderWorkerSet is only available, and the training only starts, when every row
\* is in the table of some worker, whichever do_put failed (the readiness probes).
AvailableMeansLoaded == Available => UNION {RowsOf(w) : w \in Workers} = AllRows

\* The cache becomes available, so that the training can start, however few files the
\* table has (assign_empty_partitions) and after a restart of its Pods, unless the
\* head's planning or one of its calls to a worker failed.
BecomesAvailable == <>[](Available \/ faults.plan > 0 \/ faults.put > 0)

\* "Automatic retry on transient failures" (ExecutorClient): one connection or do_put
\* of the writer that fails does not keep the cache from becoming available.
RetriesPut == <>[]Available
=============================================================================
