------------------------------ MODULE Executor ------------------------------
(***************************************************************************)
(* The task executor of the chronicles of one online shard, between the    *)
(* gateway of their network and the tasks pallet: process_tasks starts and *)
(* aborts tasks, execute reads gateway events, has them signed and reports *)
(* them in chunks, or has a batch signed and submits it.                   *)
(*                                                                         *)
(* The pallet is what an executor sees of module Tasks: read tasks follow  *)
(* each other, a message that was reported becomes a batch of its own with *)
(* a task that submits it.  Signing is what module Signing promises: a     *)
(* coordinator completes a session once, with a payload that a threshold   *)
(* of the members asked for.  Every chunk of a task is signed in the same  *)
(* session, the task's.  A shard of one member signs by itself.            *)
(*                                                                         *)
(* Messages are sent back to the network they come from, so that one       *)
(* gateway shows a message's whole way.                                    *)
(***************************************************************************)
EXTENDS Integers, FiniteSets, SequencesExt

CONSTANTS Configs,          \* the deployments looked at: see config
          Faulty,           \* members that may restart or lose their connector, once
          MaxGmpEvents,     \* MAX_GMP_EVENTS
          MaxCctpRetry,     \* MAX_CCTP_RETRY
          BatchSize,        \* blocks of a read task
          MaxTasks          \* bound: tasks of the pallet

ASSUME ExecutorAssumption ==
  /\ \A c \in Configs : c.size \in Nat \ {0} /\ c.cctp \subseteq c.messages
  /\ MaxGmpEvents \in Nat \ {0}
  /\ BatchSize \in Nat \ {0}

Member == 1 .. Max({c.size : c \in Configs})
Message == UNION {c.messages : c \in Configs}
TaskId == 1 .. MaxTasks

VARIABLES
  config,     \* the size of the shard, the messages that users send through the gateway,
              \* those of a CCTP contract, which wait for an attestation, and (bound) the
              \* blocks of the gateway's chain
  height,     \* finalized block of the gateway's chain
  log,        \* the gateway's events, with their blocks
  tasks,      \* Tasks, with where they are: see Status
  SyncHeight,
  accepted,   \* history: the payloads the pallet took, with their tasks
  exec,       \* running_tasks of each member
  queue,      \* CctpHandler of each member's connector
  asked,      \* payloads that members asked to sign, by session
  spent,      \* coordinators that completed a session
  failed      \* members that restarted or whose connector failed

chain == <<height, log>>
pallet == <<tasks, SyncHeight, accepted>>
signing == <<asked, spent>>
vars == <<config, chain, pallet, exec, queue, signing, failed>>

size == config.size
Shard == 1 .. size
Threshold == size \div 2 + 1   \* a choice of the network's configuration

\* Tss::new
Coordinators == 1 .. size - Threshold + 1

\* A task is assigned to the shard in the block after its creation, and ends with a result.
Status == {"assigned", "done", "failed"}

ReadTask(start) ==
  [type |-> "Read", start |-> start, end |-> start + BatchSize, status |-> "assigned"]
SubmitTask(msg) == [type |-> "Submit", msg |-> msg, status |-> "assigned"]

\* A future of running_tasks: it reads, waits for a signature, submits, or reports the
\* error of a batch, and it returned ("ok") or failed; parts are the payloads to submit.
Future(phase, parts) == [phase |-> phase, parts |-> parts]
NotRunning == Future("none", <<>>)

-----------------------------------------------------------------------------
(* The gateway and its connector *)

Sent == {log[i].msg : i \in {i \in DOMAIN log : log[i].type = "message"}}
Executed == {log[i].msg : i \in {i \in DOMAIN log : log[i].type = "executed"}}

\* An event of the current block, which the connector of gmp/rust already reports as
\* finalized (on other chains the event comes with a later block, which is easier).
Emitted(type, msg) == Append(log, [block |-> height, type |-> type, msg |-> msg])

\* A user sends a message.
send_message(msg) ==
  /\ msg \in config.messages \ Sent
  /\ log' = Emitted("message", msg)
  /\ UNCHANGED <<config, height, pallet, exec, queue, signing, failed>>

inc_block ==
  /\ height < config.blocks
  /\ height' = height + 1
  /\ UNCHANGED <<config, log, pallet, exec, queue, signing, failed>>

\* The range's end is exclusive.
Logged(start, end) == SelectSeq(log, LAMBDA e : start <= e.block /\ e.block < end)

needs_attestation(e) == e.type = "message" /\ e.msg \in config.cctp

\* What the executors sign of an event.
GmpEvent(e) == <<e.type, e.msg>>

\* pop_attested, until it returns None.  A fetch that is not ready is not waited for; one
\* that failed is tried again, which ends the loop, or gives up at MAX_CCTP_RETRY.
\* Outcomes: the messages that leave the queue, and the one whose fetch is tried again.
pop_attested(q) ==
  {o \in [attested : SUBSET q, given_up : SUBSET {c \in q : c.retry >= MaxCctpRetry},
          retried : SUBSET {c \in q : c.retry < MaxCctpRetry}] :
     /\ o.attested \cap o.given_up = {}
     /\ o.attested \cap o.retried = {}
     /\ Cardinality(o.retried) <= 1}

Popped(o) ==
  SetToSeq({<<"attested", c.msg>> : c \in o.attested} \cup {<<"message", c.msg>> : c \in o.given_up})

\* A message that is tried again stays out of the queue.
RetryLost(q, o) == q \ (o.attested \cup o.given_up \cup o.retried)
Retry(q, o) ==
  (q \ (o.attested \cup o.given_up \cup o.retried))
    \cup {[c EXCEPT !.retry = @ + 1] : c \in o.retried}

-----------------------------------------------------------------------------
(* The pallet *)

\* The events of a result: a message is batched, an executed batch's task is done.
process_event(ts, e) ==
  IF e[1] = "executed"
  THEN [t \in DOMAIN ts |->
          IF ts[t].type = "Submit" /\ ts[t].msg = e[2] /\ ts[t].status # "failed"
          THEN [ts[t] EXCEPT !.status = "done"] ELSE ts[t]]
  ELSE Append(ts, SubmitTask(e[2]))

Remaining(events) == Len(events) = MaxGmpEvents

\* A task that has a result accepts none.
AcceptsAnyResult(t) == TRUE
AcceptsResult(t) == tasks[t].status = "assigned"

submit_read_result(t, events) ==
  LET sync == IF SyncHeight = tasks[t].start THEN tasks[t].end ELSE SyncHeight
      next == Append(tasks, ReadTask(sync))
      done == IF Remaining(events) THEN next ELSE [next EXCEPT ![t].status = "done"]
  IN IF ~AcceptsResult(t) THEN UNCHANGED pallet
     ELSE /\ SyncHeight' = sync
          /\ tasks' = FoldLeft(process_event, done, events)
          /\ accepted' = Append(accepted, [task |-> t, events |-> events])
          /\ Len(tasks') <= MaxTasks

-----------------------------------------------------------------------------
(* execute *)

Chunks(events) ==
  [i \in 1 .. (Len(events) + MaxGmpEvents - 1) \div MaxGmpEvents |->
     SubSeq(events, (i - 1) * MaxGmpEvents + 1, Min({i * MaxGmpEvents, Len(events)}))]

\* What is submitted: the chunks, and an empty one unless the last is full.
Parts(events) ==
  LET chunks == Chunks(events)
      remaining == chunks = <<>> \/ Len(Last(chunks)) # MaxGmpEvents
  IN IF remaining THEN Append(chunks, <<>>) ELSE chunks

\* tss_sign for the next of the parts, if any.
tss_sign(m, t, parts) ==
  /\ exec' = [exec EXCEPT ![m][t] = Future(IF parts = <<>> THEN "ok" ELSE "sign", parts)]
  /\ asked' = IF parts = <<>> THEN asked
              ELSE [asked EXCEPT ![t] = @ \cup {<<m, Head(parts)>>}]

read_events(m, t) ==
  LET logged == Logged(tasks[t].start, tasks[t].end)
      plain == SelectSeq(logged, LAMBDA e : ~needs_attestation(e))
      deferred == {[msg |-> e.msg, retry |-> 0] : e \in {e \in Range(logged) : needs_attestation(e)}}
  IN /\ exec[m][t].phase = "read"
     /\ \E o \in pop_attested(queue[m]) :
          /\ queue' = [queue EXCEPT ![m] = Retry(@, o) \cup deferred]
          /\ tss_sign(m, t, Parts([i \in DOMAIN plain |-> GmpEvent(plain[i])] \o Popped(o)))
     /\ UNCHANGED <<config, chain, pallet, spent, failed>>

\* A call of the connector fails, and the future with it: it is not started again.
ConnectorError(m, t) ==
  /\ m \in Faulty \ failed
  /\ exec[m][t].phase = "read"
  /\ exec' = [exec EXCEPT ![m][t] = Future("failed", <<>>)]
  /\ failed' = failed \cup {m}
  /\ UNCHANGED <<config, chain, pallet, queue, signing>>

\* The coordinator of the task's session at m hands the signature to the future.  It is
\* used up, unless the shard has one member.
CanSign(m, t) == m \in Coordinators /\ (m \notin spent[t] \/ size = 1)

signature(m, t) ==
  /\ exec[m][t].phase = "sign"
  /\ CanSign(m, t)
  /\ Cardinality({p \in Shard : <<p, Head(exec[m][t].parts)>> \in asked[t]}) >= Threshold
  /\ exec' = [exec EXCEPT ![m][t].phase = "submit"]
  /\ spent' = [spent EXCEPT ![t] = @ \cup {m}]
  /\ UNCHANGED <<config, chain, pallet, queue, asked, failed>>

submit_events(m, t) ==
  /\ exec[m][t].phase = "submit" /\ tasks[t].type = "Read"
  /\ submit_read_result(t, Head(exec[m][t].parts))
  /\ tss_sign(m, t, Tail(exec[m][t].parts))
  /\ UNCHANGED <<config, chain, queue, spent, failed>>

\* The gateway executes a batch once.  The connector may report an error when another
\* coordinator was first, or when the answer does not arrive.
submit_commands(m, t) ==
  LET msg == tasks[t].msg IN
  /\ exec[m][t].phase = "submit" /\ tasks[t].type = "Submit"
  /\ \E error \in BOOLEAN :
       /\ error => m \in Faulty \/ msg \in Executed
       /\ \/ msg \notin Executed /\ log' = Emitted("executed", msg)
          \/ (error \/ msg \in Executed) /\ UNCHANGED log
       /\ exec' = [exec EXCEPT ![m][t].phase = IF error THEN "error" ELSE "ok"]
  /\ UNCHANGED <<config, height, pallet, queue, signing, failed>>

report_error(m, t) ==
  /\ exec[m][t].phase = "error"
  /\ tasks' = [tasks EXCEPT ![t].status = IF @ = "assigned" THEN "failed" ELSE @]
  /\ exec' = [exec EXCEPT ![m][t].phase = "ok"]
  /\ UNCHANGED <<config, chain, SyncHeight, accepted, queue, signing, failed>>

-----------------------------------------------------------------------------
(* process_tasks *)

Assigned == {t \in DOMAIN tasks : tasks[t].status = "assigned"}

Due(t) == tasks[t].type = "Read" => height >= tasks[t].end

\* A task that is not due keeps those after it waiting.
StartableInOrder(m) ==
  {t \in Assigned : exec[m][t].phase = "none" /\ \A u \in Assigned : u <= t => Due(u)}
Startable(m) == {t \in Assigned : exec[m][t].phase = "none" /\ Due(t)}

\* A future begins with a read, or with the signature of a batch that does not change.
Started(t) ==
  IF tasks[t].type = "Read" THEN Future("read", <<>>)
  ELSE Future("sign", << << <<"batch", tasks[t].msg>> >> >>)

\* A future whose task is no longer the shard's is dropped, whatever it is doing.
process_tasks(m) ==
  LET started == Startable(m)
      stale == {t \in TaskId : exec[m][t].phase # "none"} \ Assigned
  IN /\ started \cup stale # {}
     /\ exec' = [exec EXCEPT ![m] = [t \in TaskId |->
                   IF t \in started THEN Started(t)
                   ELSE IF t \in stale THEN NotRunning ELSE @[t]]]
     /\ asked' = [t \in TaskId |->
                   IF t \in started /\ tasks[t].type = "Submit"
                   THEN asked[t] \cup {<<m, Started(t).parts[1]>>} ELSE asked[t]]
     /\ UNCHANGED <<config, chain, pallet, queue, spent, failed>>

\* The process starts again, with nothing of what it was doing (if it was idle, nothing
\* changes).
Restart(m) ==
  /\ m \in Faulty \ failed
  /\ queue[m] # {} \/ \E t \in TaskId : exec[m][t] # NotRunning
  /\ failed' = failed \cup {m}
  /\ exec' = [exec EXCEPT ![m] = [t \in TaskId |-> NotRunning]]
  /\ queue' = [queue EXCEPT ![m] = {}]
  /\ spent' = [t \in TaskId |-> spent[t] \ {m}]
  /\ UNCHANGED <<config, chain, pallet, asked>>

Init ==
  /\ config \in Configs
  /\ height = 0
  /\ log = <<>>
  /\ tasks = <<ReadTask(0)>>
  /\ SyncHeight = 0
  /\ accepted = <<>>
  /\ exec = [m \in Member |-> [t \in TaskId |-> NotRunning]]
  /\ queue = [m \in Member |-> {}]
  /\ asked = [t \in TaskId |-> {}]
  /\ spent = [t \in TaskId |-> {}]
  /\ failed = {}

execute(m, t) ==
  \/ read_events(m, t)
  \/ signature(m, t)
  \/ submit_events(m, t)
  \/ submit_commands(m, t)
  \/ report_error(m, t)

Next ==
  \/ \E msg \in Message : send_message(msg)
  \/ inc_block
  \/ \E m \in Shard :
       \/ process_tasks(m)
       \/ \E t \in TaskId : execute(m, t) \/ ConnectorError(m, t)
       \/ Restart(m)

Spec == Init /\ [][Next]_vars

\* The chains go on, a chronicle handles every finalized block, and its futures go on as
\* long as they are not aborted, unless it is faulty.
Fairness ==
  /\ WF_vars(inc_block)
  /\ \A m \in Member \ Faulty :
       /\ WF_vars(m \in Shard /\ process_tasks(m))
       /\ WF_vars(m \in Shard /\ \E t \in TaskId : execute(m, t))

FairSpec == Spec /\ Fairness

-----------------------------------------------------------------------------

Event == {"message", "attested", "executed", "batch"} \X Message

TypeOK ==
  /\ config \in Configs
  /\ height \in 0 .. config.blocks
  /\ log \in Seq([block : Nat, type : {"message", "executed"}, msg : Message])
  /\ \A t \in DOMAIN tasks : tasks[t].status \in Status
  /\ SyncHeight \in Nat
  /\ accepted \in Seq([task : TaskId, events : Seq(Event)])
  /\ \A m \in Member, t \in TaskId : exec[m][t].parts \in Seq(Seq(Event))
  /\ \A m \in Member : queue[m] \subseteq [msg : config.cctp, retry : 0 .. MaxCctpRetry]
  /\ failed \subseteq Faulty

Reported(type, msg) ==
  {i \in DOMAIN accepted : <<type, msg>> \in Range(accepted[i].events)}

\* An event that the pallet read past is not lost: below SyncHeight it was reported, or the
\* task that covers it is still open, or (a CCTP message) the connector holds it back.  A
\* CCTP message is only safe while one member reads it and does not restart, as each
\* connector keeps its own messages in memory (submit_events, read_events, CctpHandler).
NothingLost ==
  \A i \in DOMAIN log :
    LET e == log[i] IN
    e.block < SyncHeight =>
      \/ Reported(e.type, e.msg) # {}
      \/ \E t \in DOMAIN tasks : /\ tasks[t].type = "Read"
                                 /\ tasks[t].status = "assigned"
                                 /\ tasks[t].start <= e.block /\ e.block < tasks[t].end
      \/ /\ needs_attestation(e)
         /\ \/ Reported("attested", e.msg) # {}
            \/ \E c \in queue[1] : c.msg = e.msg
            \/ \E t \in TaskId : \E k \in DOMAIN exec[1][t].parts :
                 {<<"attested", e.msg>>, <<"message", e.msg>>} \cap Range(exec[1][t].parts[k]) # {}
            \/ size > 1 \/ failed # {}

\* Although every coordinator reports a task's events, an event is processed once, unless it
\* came with a full chunk: the task then stays open, and takes the chunk of another
\* coordinator too (submit_task_result).  CCTP messages are left to NothingLost.
ReportedOnce ==
  \A i, j \in DOMAIN accepted :
    \A e \in Range(accepted[i].events) \cap Range(accepted[j].events) :
      i = j \/ e[2] \in config.cctp \/ (size > 1 /\ Remaining(accepted[i].events))

\* The parts of a list of events are all signed: one chunk at most, or one member.
Completes(events) ==
  \/ Len(events) < MaxGmpEvents
  \/ size = 1 /\ Len(events) % MaxGmpEvents # 0

\* A read task whose events fit in one chunk is finished, in spite of N - Threshold members
\* that fail, and so is one with more chunks on a shard of one member, unless the last is
\* full (process_tasks, execute).  CCTP messages can make the members disagree.
ReadsComplete ==
  []<>(\A t \in DOMAIN tasks :
         (/\ tasks[t].type = "Read" /\ tasks[t].end <= height
          /\ config.cctp \cap Sent = {}
          /\ Completes(Logged(tasks[t].start, tasks[t].end)))
         => tasks[t].status = "done")

\* Every event that members read is reported: "Chunking should not lose any events".
EventsReported ==
  []<>(\A t \in Assigned : \A msg \in Message :
         (tasks[t].type = "Read" /\ tasks[t].end <= height /\ <<"message", msg>> \in
            {GmpEvent(e) : e \in Range(Logged(tasks[t].start, tasks[t].end))})
         => Reported("message", msg) # {})

\* Every message that the pallet batched is executed by the gateway, or its batch is
\* reported as failed for the admin to restart.
MessagesExecuted ==
  []<>(\A t \in DOMAIN tasks :
         tasks[t].type = "Submit" => tasks[t].msg \in Executed \/ tasks[t].status = "failed")

=============================================================================
