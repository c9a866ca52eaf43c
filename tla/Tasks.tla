-------------------------------- MODULE Tasks --------------------------------
(***************************************************************************)
(* The tasks pallet: gateway events are read by tasks, turned into queued  *)
(* operations, batched, and submitted by tasks that are scheduled on       *)
(* shards.  Shards come and go as module ShardLifecycle allows; a shard's  *)
(* TSS public key is represented by its id.                                *)
(*                                                                         *)
(* The storage is one record, `tk`.  The unassigned task queue and the     *)
(* operation queue of a network are sequences: see module Queue.  Write-   *)
(* only items (TaskCreated events, transaction hashes) are left out.       *)
(***************************************************************************)
EXTENDS Integers, FiniteSets, SequencesExt

CONSTANTS
  Network,            \* network ids in the order a storage map iterates over them
  Shard,              \* shard ids, in that order
  NetworkOfShard,
  Message,            \* gmp messages
  DestNetwork,        \* msg.dest_network
  GasCost,            \* msg.gas_cost
  AdminOpGas,         \* GatewayOp::gas of a shard (un)registration
  BatchGasLimit,      \* Networks::batch_gas_limit
  BatchSize,          \* NetworkBatchSize
  DefaultBatchSize,   \* the batch size of a network without a config
  BatchOffset,        \* NetworkBatchOffset
  ShardTaskLimit,     \* Networks::shard_task_limit
  MaxTasksPerBlock,
  MaxBatchesPerBlock,
  Admin,              \* calls of the admin that a model includes
  MaxTaskId,          \* bound: tasks the model can create
  MaxHeight           \* bound: block heights of the networks

ASSUME LimitAssumption ==
  /\ {BatchSize, DefaultBatchSize} \subseteq Nat \ {0}   \* next_batch_size divides by them
  /\ BatchOffset \in Nat
  /\ {ShardTaskLimit, MaxTasksPerBlock, MaxBatchesPerBlock} \subseteq Nat
  /\ NetworkOfShard \in [Shard -> Network]
  /\ DestNetwork \in [Message -> Network]

TaskId == 1 .. MaxTaskId
BatchId == 0 .. MaxTaskId - 1
None == -1

IterShards(S) == SetToSortSeq(S, <)
IterNetworks(S) == SetToSortSeq(S, <)

SendMessage(m) == <<"send", m>>
RegisterShard(s) == <<"register", s>>
UnregisterShard(s) == <<"unregister", s>>

VARIABLES
  phase,    \* a block runs on_initialize ("hooks") and then its calls ("calls")
  status,   \* ShardState of the shards pallet
  keys,     \* shards with a TSS public key
  tk        \* storage of the tasks pallet, and gateway(n) of the networks pallet

vars == <<phase, status, keys, tk>>

EmptyTasks ==
  [Gateway |-> {},                                   \* networks with a gateway and a config
   UATasks |-> [n \in Network |-> <<>>],
   Ops |-> [n \in Network |-> <<>>],
   ShardTasks |-> [s \in Shard |-> {}],
   TaskShard |-> [t \in TaskId |-> None],
   NetworkShards |-> {},
   TaskIdCounter |-> 0,
   TaskCount |-> [n \in Network |-> 0],
   ExecutedTaskCount |-> [n \in Network |-> 0],
   ShardTaskCount |-> [s \in Shard |-> 0],
   Tasks |-> [t \in TaskId |-> [type |-> "None"]],
   TaskOutput |-> [t \in TaskId |-> "None"],
   TaskNetwork |-> [t \in TaskId |-> None],
   ShardRegisterBatchId |-> [s \in Shard |-> None],
   ShardUnregisterBatchId |-> [s \in Shard |-> None],
   ShardRegistered |-> {},
   ReadEventsTask |-> [n \in Network |-> None],
   SyncHeight |-> [n \in Network |-> 0],
   MessageReceived |-> {},                           \* keys of MessageReceivedTaskId
   MessageBatchId |-> [m \in Message |-> None],
   BatchIdCounter |-> 0,
   BatchMessage |-> [b \in BatchId |-> <<>>],        \* <<>>: absent, batches are not empty
   BatchTaskId |-> [b \in BatchId |-> None],
   PendingBatches |-> {},
   FailedBatchIds |-> {}]

-----------------------------------------------------------------------------
(* Creating, finishing and assigning tasks *)

NextTaskIdStale(st) == st.TaskIdCounter
NextTaskId(st) == st.TaskIdCounter + 1

\* A read task is found through ReadEventsTask, any other through the queue.
create_task(st, network, task) ==
  LET t == NextTaskId(st) IN
  [st EXCEPT !.Tasks[t] = task,
             !.TaskNetwork[t] = network,
             !.TaskIdCounter = t,
             !.ReadEventsTask[network] = IF task.type = "Read" THEN t ELSE @,
             !.UATasks[network] = IF task.type = "Read" THEN @ ELSE Append(@, t),
             !.TaskCount[network] = @ + 1]

\* ShardTaskCount of a shard that finished a task.
CountKept(count) == count
CountLeft(count) == IF count = 0 THEN 0 ELSE count - 1

finish_task(st, network, t, result) ==
  LET s == st.TaskShard[t]
      done == [st EXCEPT !.TaskOutput[t] = result]
  IN CASE st.TaskOutput[t] # "None" -> st
       [] s = None -> done
       [] OTHER -> [done EXCEPT !.TaskShard[t] = None,
                                !.ShardTasks[s] = @ \ {t},
                                !.ShardTaskCount[s] = CountLeft(@),
                                !.ExecutedTaskCount[network] = @ + 1]

\* insert_network registers the gateway before it stores the network's config, so
\* the first read task is cut with the default batch size.
next_batch_size(st, network, height) ==
  LET size == IF network \in st.Gateway THEN BatchSize ELSE DefaultBatchSize
      offset == IF network \in st.Gateway THEN BatchOffset ELSE 0
  IN size - ((height + offset) % size)

read_gateway_events(st, network) ==
  LET block == st.SyncHeight[network] IN
  create_task(st, network,
              [type |-> "Read", start |-> block, end |-> block + next_batch_size(st, network, block)])

assign_task(st, s, t) ==
  [st EXCEPT !.ShardTasks[s] = @ \cup {t}, !.TaskShard[t] = s, !.ShardTaskCount[s] = @ + 1]

-----------------------------------------------------------------------------
(* Events reported by read tasks, or by the admin *)

process_event(st, network, e) ==
  CASE e[1] = "registered" -> [st EXCEPT !.ShardRegistered = @ \cup {e[2]}]
    [] e[1] = "unregistered" -> [st EXCEPT !.ShardRegistered = @ \ {e[2]}]
    [] e[1] = "received" -> [st EXCEPT !.Ops[DestNetwork[e[2]]] = Append(@, SendMessage(e[2])),
                                       !.MessageReceived = @ \cup {e[2]}]
    [] e[1] = "executed" ->
         LET st1 == [st EXCEPT !.PendingBatches = @ \ {e[2]}]
             t == st.BatchTaskId[e[2]]
         IN IF t = None THEN st1 ELSE finish_task(st1, network, t, "Ok")

process_events(st, network, events) ==
  FoldLeft(LAMBDA acc, e : process_event(acc, network, e), st, events)

-----------------------------------------------------------------------------
(* on_initialize: batches *)

start_batch(st, network, ops) ==
  LET b == st.BatchIdCounter
      in(op) == op \in Range(ops)
      st1 == [st EXCEPT
        !.BatchIdCounter = b + 1,
        !.MessageBatchId = [m \in Message |-> IF in(SendMessage(m)) THEN b ELSE @[m]],
        !.ShardRegisterBatchId = [s \in Shard |-> IF in(RegisterShard(s)) THEN b ELSE @[s]],
        !.ShardUnregisterBatchId = [s \in Shard |-> IF in(UnregisterShard(s)) THEN b ELSE @[s]],
        !.BatchMessage[b] = ops,
        !.PendingBatches = @ \cup {b}]
      st2 == create_task(st1, network, [type |-> "Submit", batch |-> b])
  IN [st2 EXCEPT !.BatchTaskId[b] = st2.TaskIdCounter]

gas(op) == IF op[1] = "send" THEN GasCost[op[2]] ELSE AdminOpGas

\* BatchBuilder::push takes the ops collected so far when the new op does not fit.
\* Its gas field stays 0, so only the gas of the new op counts.
batch_is_full(batch, op) == gas(op) > BatchGasLimit /\ batch # <<>>

\* The ops in the builder after push.
PushedOrLost(batch, op) == IF batch_is_full(batch, op) THEN <<>> ELSE Append(batch, op)
Pushed(batch, op) == IF batch_is_full(batch, op) THEN <<op>> ELSE Append(batch, op)

BatchLimitLate(num) == num = MaxBatchesPerBlock
BatchLimitReached(num) == num = IF MaxBatchesPerBlock = 0 THEN 0 ELSE MaxBatchesPerBlock - 1

\* One turn of the loop of prepare_batches: pop an op and push it to the builder.
batch_op(acc, network) ==
  LET op == Head(acc.st.Ops[network])
      popped == [acc.st EXCEPT !.Ops[network] = Tail(@)]
      full == batch_is_full(acc.batch, op)
      num == IF full THEN acc.num + 1 ELSE acc.num
  IN [st |-> IF full THEN start_batch(popped, network, acc.batch) ELSE popped,
      batch |-> Pushed(acc.batch, op),
      num |-> num,
      stop |-> BatchLimitReached(num)]

prepare_batches_network(acc, network) ==
  LET end == FoldLeft(LAMBDA a, i : IF a.stop THEN a ELSE batch_op(a, network),
                      [st |-> acc.st, batch |-> <<>>, num |-> acc.num, stop |-> FALSE],
                      [i \in 1 .. Len(acc.st.Ops[network]) |-> i])
  IN IF end.batch = <<>> THEN [st |-> end.st, num |-> end.num]
     ELSE [st |-> start_batch(end.st, network, end.batch), num |-> end.num + 1]

\* The keys of ReadEventsTask.
ReadingAssigned(st) ==
  IterNetworks({n \in Network : \E t \in TaskId : st.ReadEventsTask[n] = t /\ st.TaskShard[t] # None})
ReadingNetworks(st) == IterNetworks({n \in Network : st.ReadEventsTask[n] # None})

prepare_batches(st) ==
  FoldLeft(prepare_batches_network, [st |-> st, num |-> 0], ReadingNetworks(st)).st

-----------------------------------------------------------------------------
(* on_initialize: schedule *)

ShardsOf(st, network) == {s \in st.NetworkShards : NetworkOfShard[s] = network}

\* The shards with room for the network's read task.
FreeShardsUnlimited(st, network) == ShardsOf(st, network)
FreeShards(st, network) == {s \in ShardsOf(st, network) : st.ShardTaskCount[s] < ShardTaskLimit}

\* The network's read task goes to the first shard with room; at the block's limit
\* the whole schedule stops.
schedule_read(acc, network) ==
  LET t == acc.st.ReadEventsTask[network]
      free == FreeShards(acc.st, network)
  IN IF acc.st.TaskShard[t] # None \/ free = {} THEN acc
     ELSE IF acc.num = MaxTasksPerBlock THEN [acc EXCEPT !.stop = TRUE]
     ELSE [acc EXCEPT !.st = assign_task(@, IterShards(free)[1], t), !.num = @ + 1]

\* Pops up to `capacity` tasks for a shard.
schedule_tasks_shard(st, network, s, capacity) ==
  LET k == Min({capacity, Len(st.UATasks[network])})
      assigned == FoldLeft(LAMBDA acc, t : assign_task(acc, s, t), st,
                           SubSeq(st.UATasks[network], 1, k))
  IN [st |-> [assigned EXCEPT !.UATasks[network] = SubSeq(@, k + 1, Len(@))], assigned |-> k]

LeftoverIgnored(num) == MaxTasksPerBlock
Leftover(num) == MaxTasksPerBlock - num

schedule_shard(acc, network, s, tasks_per_shard) ==
  LET capacity == Max({0, tasks_per_shard - acc.st.ShardTaskCount[s]})
      fits == MaxTasksPerBlock > acc.num + capacity
      r == schedule_tasks_shard(acc.st, network, s,
             IF fits THEN capacity ELSE Leftover(acc.num))
  IN [st |-> r.st, num |-> acc.num + r.assigned, stop |-> ~fits]

\* The tasks a shard may hold: (x - 1) / y + 1 == ceil(x / y), up to the limit.
TasksPerShardFloor(assignable, shards) == Min({assignable \div shards, ShardTaskLimit})
TasksPerShard(assignable, shards) == Min({(assignable - 1) \div shards + 1, ShardTaskLimit})

schedule_network(acc, network) ==
  LET acc1 == schedule_read(acc, network)
      registered == {s \in ShardsOf(acc1.st, network) :
                       s \in keys /\ s \in acc1.st.ShardRegistered /\ status[s] = "Online"}
      assignable == acc1.st.TaskCount[network] - acc1.st.ExecutedTaskCount[network]
      tasks_per_shard == TasksPerShard(assignable, Cardinality(registered))
  IN IF acc1.stop \/ registered = {} THEN acc1
     ELSE FoldLeft(LAMBDA a, s : IF a.stop THEN a ELSE schedule_shard(a, network, s, tasks_per_shard),
                   acc1, IterShards(registered))

schedule_tasks(st) ==
  FoldLeft(LAMBDA a, n : IF a.stop THEN a ELSE schedule_network(a, n),
           [st |-> st, num |-> 0, stop |-> FALSE], ReadingNetworks(st)).st

-----------------------------------------------------------------------------
(* The calls.  A call that creates a task or an op is taken while the ids  *)
(* that the model has suffice for it, so that on_initialize, which needs   *)
(* at most one id for every queued op, never runs out of them.             *)

L == INSTANCE ShardLifecycle

QueuedOps(st) == FoldFunction(LAMBDA q, k : Len(q) + k, 0, st.Ops)

WithinBounds(st) ==
  /\ st.TaskIdCounter + QueuedOps(st) <= MaxTaskId
  /\ \A n \in Network : st.SyncHeight[n] <= MaxHeight

Init ==
  /\ phase = "calls"
  /\ L!Init
  /\ keys = {}
  /\ tk = EmptyTasks

NextBlock ==
  /\ phase = "calls"
  /\ phase' = "hooks"
  /\ UNCHANGED <<status, keys, tk>>

on_initialize ==
  /\ phase = "hooks"
  /\ phase' = "calls"
  /\ tk' = schedule_tasks(prepare_batches(tk))
  /\ UNCHANGED <<status, keys>>

\* Shards are elected for registered networks.
shard_created(s) ==
  /\ NetworkOfShard[s] \in tk.Gateway
  /\ L!Move(s, "Created")
  /\ UNCHANGED <<keys, tk>>

\* The last commitment of a shard's members sets its public key.
shard_committed(s) ==
  /\ L!Move(s, "Committed")
  /\ keys' = keys \cup {s}
  /\ UNCHANGED tk

shard_online(s) ==
  LET n == NetworkOfShard[s] IN
  /\ L!Move(s, "Online")
  /\ tk' = [tk EXCEPT !.NetworkShards = @ \cup {s},
                      !.Ops[n] = IF n \in tk.Gateway THEN Append(@, RegisterShard(s)) ELSE @]
  /\ WithinBounds(tk')
  /\ UNCHANGED keys

\* The shard's tasks go back to the queue, except the network's read task, which
\* schedule_tasks finds by itself.
RequeuedNone(st, s) == {}
Requeued(st, s) == st.ShardTasks[s] \ {st.ReadEventsTask[NetworkOfShard[s]]}

\* NetworkShards without the shard.
ShardsKept(s) == tk.NetworkShards
ShardsLeft(s) == tk.NetworkShards \ {s}

shard_offline(s) ==
  LET n == NetworkOfShard[s] IN
  /\ L!Move(s, "Offline")
  /\ tk' = [tk EXCEPT !.NetworkShards = ShardsLeft(s),
                      !.ShardTasks[s] = {},
                      !.TaskShard = [t \in TaskId |-> IF t \in tk.ShardTasks[s] THEN None ELSE @[t]],
                      !.UATasks[n] = @ \o SetToSortSeq(Requeued(tk, s), <),
                      !.ShardTaskCount[s] = 0,
                      !.Ops[n] = IF s \in keys THEN Append(@, UnregisterShard(s)) ELSE @]
  /\ WithinBounds(tk')
  /\ UNCHANGED keys

gateway_registered(n, block) ==
  /\ n \notin tk.Gateway
  /\ tk' = [read_gateway_events([tk EXCEPT !.SyncHeight[n] = block], n) EXCEPT
             !.Gateway = @ \cup {n}]
  /\ WithinBounds(tk')
  /\ UNCHANGED <<status, keys>>

ExecutedEvent(n) ==
  {<<"executed", b>> : b \in {b \in 0 .. tk.BatchIdCounter - 1 :
     tk.BatchTaskId[b] = None \/ tk.TaskNetwork[tk.BatchTaskId[b]] = n}}

\* Gateway events a network can report: of the shards and batches sent to it, and
\* of messages sent by its users.
GatewayEvent(n) ==
  {<<"registered", s>> : s \in {s \in Shard : NetworkOfShard[s] = n /\ tk.ShardRegisterBatchId[s] # None}}
  \cup {<<"unregistered", s>> : s \in {s \in Shard : NetworkOfShard[s] = n /\ tk.ShardUnregisterBatchId[s] # None}}
  \cup {<<"received", m>> : m \in Message}
  \cup ExecutedEvent(n)

\* SyncHeight moves to the end of the range, unless the network was synced by hand.
SyncedPast(st, t, network) == st.Tasks[t].end + 1
Synced(st, t, network) ==
  IF st.SyncHeight[network] = st.Tasks[t].start THEN st.Tasks[t].end ELSE st.SyncHeight[network]

\* The next read task, unless the network was stopped.
StartedNone(st, network) == st
Started(st, network) ==
  IF st.ReadEventsTask[network] # None THEN read_gateway_events(st, network) ELSE st

\* `remaining`: the result holds MAX_GMP_EVENTS events, so more are to come.
after_read(st, t, network, events, remaining) ==
  LET synced == [st EXCEPT !.SyncHeight[network] = Synced(st, t, network)]
      processed == process_events(Started(synced, network), network, events)
  IN IF remaining THEN processed ELSE finish_task(processed, network, t, "Ok")

AcceptsResult(t, type) ==
  /\ tk.Tasks[t].type = type
  /\ tk.TaskOutput[t] = "None"
  /\ tk.TaskShard[t] # None
  /\ status[tk.TaskShard[t]] # "Offline"

submit_read_result(t, events, remaining) ==
  /\ AcceptsResult(t, "Read")
  /\ tk.TaskShard[t] \in keys
  /\ tk' = after_read(tk, t, NetworkOfShard[tk.TaskShard[t]], events, remaining)
  /\ WithinBounds(tk')
  /\ UNCHANGED <<status, keys>>

\* The batch failed.
FailedWhilePending(st, b) == [st EXCEPT !.FailedBatchIds = @ \cup {b}]
Failed(st, b) == [st EXCEPT !.PendingBatches = @ \ {b}, !.FailedBatchIds = @ \cup {b}]

submit_error_result(t) ==
  LET b == tk.Tasks[t].batch IN
  /\ AcceptsResult(t, "Submit")
  /\ tk' = finish_task(Failed(tk, b), NetworkOfShard[tk.TaskShard[t]], t, "Err")
  /\ UNCHANGED <<status, keys>>

-----------------------------------------------------------------------------
(* Calls of the admin *)

\* Events that the chronicles did not report; the call is used for executed batches.
submit_gmp_events(n, e) ==
  LET reset == [tk EXCEPT !.FailedBatchIds = @ \ {e[2]},
                          !.TaskOutput = [t \in TaskId |-> IF t = tk.BatchTaskId[e[2]]
                                                           THEN "None" ELSE @[t]]]
  IN /\ "submit_gmp_events" \in Admin
     /\ tk' = process_events(reset, n, <<e>>)
     /\ WithinBounds(tk')
     /\ UNCHANGED <<status, keys>>

sync_network(n, block) ==
  /\ "sync_network" \in Admin
  /\ tk' = [tk EXCEPT !.SyncHeight[n] = block]
  /\ UNCHANGED <<status, keys>>

stop_network(n) ==
  /\ "stop_network" \in Admin
  /\ tk' = [tk EXCEPT !.ReadEventsTask[n] = None]
  /\ UNCHANGED <<status, keys>>

remove_task(t) ==
  LET b == tk.Tasks[t].batch
      msgs == {m \in Message : SendMessage(m) \in Range(tk.BatchMessage[b])}
      forgotten == [tk EXCEPT !.TaskOutput[t] = "None", !.Tasks[t] = [type |-> "None"],
                              !.TaskNetwork[t] = None]
  IN /\ "remove_task" \in Admin
     /\ tk.TaskOutput[t] # "None"
     /\ tk' = IF tk.Tasks[t].type # "Submit" THEN forgotten
              ELSE [forgotten EXCEPT
                      !.BatchMessage[b] = <<>>,
                      !.BatchTaskId[b] = None,
                      !.MessageReceived = @ \ msgs,
                      !.MessageBatchId = [m \in Message |-> IF m \in msgs THEN None ELSE @[m]]]
     /\ UNCHANGED <<status, keys>>

\* The batch is carried by task t from now on.
RestartedSameTask(st, b, t) == [st EXCEPT !.PendingBatches = @ \cup {b}, !.FailedBatchIds = @ \ {b}]
Restarted(st, b, t) ==
  [st EXCEPT !.BatchTaskId[b] = t, !.PendingBatches = @ \cup {b}, !.FailedBatchIds = @ \ {b}]

restart_batch(b) ==
  LET n == tk.TaskNetwork[tk.BatchTaskId[b]]
      st == create_task(tk, n, [type |-> "Submit", batch |-> b])
  IN /\ "restart_batch" \in Admin
     /\ tk.BatchTaskId[b] # None
     /\ n # None
     /\ tk' = Restarted(st, b, st.TaskIdCounter)
     /\ WithinBounds(tk')
     /\ UNCHANGED <<status, keys>>

ShardStep ==
  \E s \in Shard : \/ shard_created(s) \/ shard_committed(s)
                  \/ shard_online(s) \/ shard_offline(s)

ResultStep ==
  \E t \in TaskId :
    \/ submit_error_result(t)
    \/ submit_read_result(t, <<>>, FALSE)
    \/ /\ AcceptsResult(t, "Read")
       /\ \E e \in GatewayEvent(tk.TaskNetwork[t]), remaining \in BOOLEAN :
            submit_read_result(t, <<e>>, remaining)

AdminStep ==
  \/ \E n \in Network : \/ gateway_registered(n, 0)
                       \/ stop_network(n)
                       \/ sync_network(n, 0)
                       \/ \E e \in ExecutedEvent(n) : submit_gmp_events(n, e)
  \/ \E t \in TaskId : remove_task(t)
  \/ \E b \in BatchId : restart_batch(b)

Call ==
  /\ phase = "calls"
  /\ UNCHANGED phase
  /\ ShardStep \/ ResultStep \/ AdminStep

Next == NextBlock \/ on_initialize \/ Call

Spec == Init /\ [][Next]_vars

\* Blocks keep being produced, and each runs its hooks: phase is only changed by
\* NextBlock and on_initialize.
Advance == phase' = IF phase = "calls" THEN "hooks" ELSE "calls"

FairSpec == Spec /\ WF_phase(Advance)

-----------------------------------------------------------------------------
(* Properties *)

\* The types of the storage items: ids that were handed out, and counts.
TypeOK ==
  /\ tk.TaskIdCounter \in 0 .. MaxTaskId
  /\ tk.BatchIdCounter \in 0 .. MaxTaskId
  /\ tk.TaskShard \in [TaskId -> Shard \cup {None}]
  /\ tk.ShardTasks \in [Shard -> SUBSET TaskId]
  /\ tk.ShardTaskCount \in [Shard -> Nat]
  /\ tk.NetworkShards \subseteq Shard
  /\ tk.UATasks \in [Network -> Seq(TaskId)]
  /\ tk.TaskOutput \in [TaskId -> {"None", "Ok", "Err"}]
  /\ tk.ReadEventsTask \in [Network -> TaskId \cup {None}]
  /\ tk.PendingBatches \cup tk.FailedBatchIds \subseteq BatchId

\* The two maps of the assignment agree, a shard's task count counts its tasks, and
\* no shard holds more tasks than its network's shard_task_limit, whatever the order
\* of scheduling, results and shards going offline.
AssignmentAgrees ==
  /\ \A t \in TaskId, s \in Shard : tk.TaskShard[t] = s <=> t \in tk.ShardTasks[s]
  /\ \A s \in Shard : /\ tk.ShardTaskCount[s] = Cardinality(tk.ShardTasks[s])
                      /\ tk.ShardTaskCount[s] <= ShardTaskLimit

\* A task is only ever assigned to a shard that is online and serves the task's
\* network, so that somebody can still work on it and submit_task_result finds the
\* shard's network.
AssignedToOnlineShard ==
  \A t \in TaskId : tk.TaskShard[t] # None =>
    /\ status[tk.TaskShard[t]] = "Online"
    /\ tk.TaskNetwork[t] \in {NetworkOfShard[tk.TaskShard[t]], None}

Places(t) ==
  {p \in Network \X (1 .. MaxTaskId) :
     p[2] <= Len(tk.UATasks[p[1]]) /\ tk.UATasks[p[1]][p[2]] = t}

\* An unfinished submit task is in exactly one place: once in the queue of unassigned
\* tasks or assigned to a shard.  It is neither lost nor worked on twice when its
\* shard goes offline.
SubmitTaskInOnePlace ==
  \A t \in TaskId : tk.Tasks[t].type = "Submit" /\ tk.TaskOutput[t] = "None" =>
    Cardinality(Places(t)) = IF tk.TaskShard[t] = None THEN 1 ELSE 0

\* A network that reads events has an unfinished read task, and so more tasks than
\* executed ones: `task_count - executed_task_count` and `assignable_task_count - 1`
\* in schedule_tasks do not underflow.
ReadTaskPending ==
  \A n \in Network : tk.ReadEventsTask[n] # None =>
    /\ tk.TaskOutput[tk.ReadEventsTask[n]] = "None"
    /\ tk.TaskCount[n] > tk.ExecutedTaskCount[n]

\* Every shard that came online, every shard with a key that went offline and every
\* received message has its op in the queue or in a batch, also when a block's batch
\* limit cuts the queue.
NoOpsLost ==
  /\ \A s \in Shard :
       LET queued(op) == op \in Range(tk.Ops[NetworkOfShard[s]]) IN
       /\ status[s] = "Online" =>
            queued(RegisterShard(s)) \/ tk.ShardRegisterBatchId[s] # None
       /\ status[s] = "Offline" /\ s \in keys =>
            queued(UnregisterShard(s)) \/ tk.ShardUnregisterBatchId[s] # None
  /\ \A m \in tk.MessageReceived :
       SendMessage(m) \in Range(tk.Ops[DestNetwork[m]]) \/ tk.MessageBatchId[m] # None

\* A started batch is pending, failed or executed, never both pending and failed, and
\* a pending one is still carried by an unfinished task, across errors, restarts and
\* late BatchExecuted events.
BatchesAccounted ==
  /\ tk.PendingBatches \cap tk.FailedBatchIds = {}
  /\ \A b \in 0 .. tk.BatchIdCounter - 1 :
       LET t == tk.BatchTaskId[b] IN
       /\ t # None
       /\ b \in tk.PendingBatches => tk.TaskOutput[t] = "None" /\ tk.BatchMessage[b] # <<>>
       /\ b \in tk.PendingBatches \cup tk.FailedBatchIds \/ tk.TaskOutput[t] = "Ok"

\* SyncHeight only moves past blocks that somebody reads: every block below it is in
\* the range of a read task that is finished or still scheduled.
NoBlockSkipped ==
  \A n \in Network : \A h \in 0 .. tk.SyncHeight[n] - 1 :
    \E t \in TaskId :
      /\ tk.Tasks[t].type = "Read"
      /\ tk.TaskNetwork[t] = n
      /\ tk.Tasks[t].start <= h /\ h < tk.Tasks[t].end
      /\ tk.TaskOutput[t] # "None" \/ tk.TaskShard[t] # None \/ Places(t) # {}

Op == {SendMessage(m) : m \in Message} \cup {RegisterShard(s) : s \in Shard}
      \cup {UnregisterShard(s) : s \in Shard}

\* Every op that waits is batched, unless the network is stopped: prepare_batches
\* serves every network in every block, whatever the limit on batches.
OpsAreBatched ==
  \A n \in Network : \A op \in Op :
    op \in Range(tk.Ops[n]) ~> op \notin Range(tk.Ops[n]) \/ tk.ReadEventsTask[n] = None

HasRoom(n) == \E s \in tk.ShardRegistered \cap tk.NetworkShards :
                NetworkOfShard[s] = n /\ tk.ShardTaskCount[s] < ShardTaskLimit

\* Every task that waits is assigned, unless its network is stopped or has no
\* registered shard with room for it.
QueuedTasksAreAssigned ==
  \A n \in Network : \A t \in TaskId :
    t \in Range(tk.UATasks[n])
      ~> t \notin Range(tk.UATasks[n]) \/ tk.ReadEventsTask[n] = None \/ ~HasRoom(n)

\* "Maximum number of tasks scheduled per block in `on_initialize`".
TasksWithinLimit ==
  [][Cardinality({t \in TaskId : tk.TaskShard[t] = None /\ tk'.TaskShard[t] # None})
       <= MaxTasksPerBlock]_vars

\* "Maximum number of batches started per block in `on_initialize`": the loop over the ops of
\* a network stops in time, with the op left in the builder counted.
BatchesWithinLimit ==
  [][tk'.BatchIdCounter - tk.BatchIdCounter <= MaxBatchesPerBlock]_vars

\* task_completion_unassigns_task: a task that has its result is not assigned.
FinishedTasksAreUnassigned ==
  \A t \in TaskId : tk.TaskOutput[t] # "None" => tk.TaskShard[t] = None

\* test_read_events_completes_starts_next_read_events: the next read task of a
\* network starts when the current one completes.
ReadCompletesBeforeNext ==
  [][\A n \in Network :
       tk.ReadEventsTask[n] # None /\ tk'.ReadEventsTask[n] \notin {tk.ReadEventsTask[n], None}
         => tk'.TaskOutput[tk.ReadEventsTask[n]] # "None"]_vars

\* "only remove completed tasks, otherwise can cause mayhem": removing a completed
\* task leaves every pending batch with its task and its message.
RemovalIsHarmless ==
  \A b \in tk.PendingBatches : tk.BatchTaskId[b] # None /\ tk.BatchMessage[b] # <<>>
=============================================================================
