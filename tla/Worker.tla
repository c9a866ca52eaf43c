-------------------------------- MODULE Worker --------------------------------
(***************************************************************************)
(* SubxtWorker of tc-subxt: the task that signs the calls of a chronicle,  *)
(* submits them, retries the ones whose era passes, and answers a caller   *)
(* when its call is in a finalized block; with the transaction database it *)
(* restarts from, and the chain as far as the worker sees it.              *)
(*                                                                         *)
(* A signed transaction is named by its hash, a call and the number of the *)
(* attempt: signing again gives another hash.  Block numbers are relative  *)
(* to the head of the best chain, n blocks behind it or n blocks left.     *)
(***************************************************************************)
EXTENDS Integers, FiniteSets, SequencesExt

CONSTANTS
  MORTALITY,    \* blocks a transaction is valid for
  MaxCalls,     \* bound: calls the clients make
  MaxLag,       \* bound: blocks in a stream the worker has not handled, and unfinalized blocks
  Faults,       \* the kinds of faults that may happen
  MaxFaults,    \* bound: faults in a behaviour
  MaxSigned     \* bound: transactions signed, once a fault makes the worker retry for ever

ASSUME WorkerAssumption == {MORTALITY, MaxCalls, MaxLag, MaxFaults, MaxSigned} \subseteq Nat

Call == 1 .. MaxCalls

\* After any of these a call may stay unanswered.
Harmful == {"restart", "reorg", "best", "finalized"}

ASSUME FaultsAssumption == Faults \subseteq Harmful \cup {"submit", "db"}

VARIABLES
  running,          \* the worker task has not panicked
  nonce,
  lag,              \* latest_block, behind the head
  pending_tx,       \* sequence of TxStatus
  transaction_pool, \* submissions that have not completed
  db,               \* hashes of the stored TxData
  signed,           \* nonce and era of every hash signed so far; era in blocks left
  calls,            \* calls taken from the channel
  returned,         \* calls whose channel got the extrinsic
  best_blocks,      \* the two block streams
  finalized_blocks,
  pool,             \* transactions the node holds
  final,            \* the account's finalized transactions
  unfinalized,      \* and those of the blocks of the best chain after them
  faults            \* faults so far, of each kind

workerVars == <<running, nonce, lag, pending_tx, transaction_pool, calls, returned>>
streamVars == <<best_blocks, finalized_blocks>>
chainVars == <<pool, final, unfinalized>>
vars == <<workerVars, db, signed, streamVars, chainVars, faults>>

Fault(k) ==
  /\ k \in Faults
  /\ MapThenSumSet(LAMBDA f : faults[f], Faults) < MaxFaults
  /\ faults' = [faults EXCEPT ![k] = @ + 1]

Happened(k) == k \in Faults /\ faults[k] > 0

Harmed == \E k \in Harmful : Happened(k)

\* Each transaction is stored or removed by a write of its own. An error is logged and
\* otherwise ignored.
DbWrite(contents) ==
  \E failed \in SUBSET ((contents \ db) \cup (db \ contents)) :
    /\ db' = (contents \ failed) \cup (db \cap failed)
    /\ IF failed = {} THEN UNCHANGED faults ELSE Fault("db")

Init ==
  /\ running = TRUE
  /\ nonce = 0
  /\ lag = 0
  /\ pending_tx = <<>>
  /\ transaction_pool = {}
  /\ db = {}
  /\ signed = <<>>
  /\ calls = 0
  /\ returned = <<>>
  /\ best_blocks = <<>>
  /\ finalized_blocks = <<>>
  /\ pool = {}
  /\ final = <<>>
  /\ unfinalized = <<>>
  /\ faults = [k \in Faults |-> 0]

-----------------------------------------------------------------------------
\* The worker's loop: a command, a block of either stream, a completed submission.

TxStatus(h, sender) == [hash |-> h, event_sender |-> sender, best_block |-> FALSE]

Era(behind) == MORTALITY - behind

\* Only calls that are not retried are stored.
StoresFirstAttempt(nonces, behind) ==
  /\ signed' = signed @@ [h \in DOMAIN nonces |-> [nonce |-> nonces[h], left |-> Era(behind)]]
  /\ DbWrite(db \cup {h \in DOMAIN nonces : h[2] = 1})
  /\ transaction_pool' = transaction_pool \cup DOMAIN nonces

\* Signs, stores and submits transactions, given by their hashes with their nonces.
add_tx_to_pool(nonces, behind) ==
  /\ signed' = signed @@ [h \in DOMAIN nonces |-> [nonce |-> nonces[h], left |-> Era(behind)]]
  /\ DbWrite(db \cup DOMAIN nonces)
  /\ transaction_pool' = transaction_pool \cup DOMAIN nonces

receive ==
  LET h == <<calls + 1, 1>>
  IN /\ running
     /\ calls < MaxCalls
     /\ calls' = calls + 1
     /\ add_tx_to_pool(h :> nonce, lag)
     /\ pending_tx' = Append(pending_tx, TxStatus(h, TRUE))
     /\ nonce' = nonce + 1
     /\ UNCHANGED <<running, lag, returned, streamVars, chainVars>>

\* The extrinsics of a best block are taken for finalized ones.
NextBest == IF best_blocks # <<>> THEN Head(best_blocks).extrinsics ELSE Head(finalized_blocks)

NextFinalized == Head(finalized_blocks)

\* One extrinsic of a finalized block: only the front of pending_tx is compared with it.
\* The worker panics where the front has no channel.
Matched(w, x) ==
  IF w.running /\ w.pending # <<>> /\ Head(w.pending).hash = x
  THEN [pending  |-> Tail(w.pending),
        removed  |-> w.removed \cup {x},
        returned |-> IF Head(w.pending).event_sender THEN Append(w.returned, x[1]) ELSE w.returned,
        running  |-> Head(w.pending).event_sender]
  ELSE w

finalized_block ==
  /\ running
  /\ finalized_blocks # <<>>
  /\ LET w == FoldLeft(Matched,
                       [pending |-> pending_tx, removed |-> {}, returned |-> returned, running |-> TRUE],
                       NextFinalized)
     IN /\ pending_tx' = w.pending
        /\ DbWrite(db \ w.removed)
        /\ returned' = w.returned
        /\ running' = w.running
        /\ best_blocks' = IF w.running THEN best_blocks ELSE <<>>
        /\ finalized_blocks' = IF w.running THEN Tail(finalized_blocks) ELSE <<>>
        /\ transaction_pool' = IF w.running THEN transaction_pool ELSE {}
  /\ UNCHANGED <<nonce, lag, calls, signed, chainVars>>

\* Every pending transaction is marked.
MarkedAll(b) == [i \in DOMAIN pending_tx |-> [pending_tx[i] EXCEPT !.best_block = TRUE]]

\* The pending transactions once the ones in the block are marked.
Marked(b) ==
  [i \in DOMAIN pending_tx |->
     [pending_tx[i] EXCEPT !.best_block = @ \/ pending_tx[i].hash \in Range(b.extrinsics)]]

\* latest_block.number > era
EraPassed(h, b) == signed[h].left + b.behind < 0

\* Transactions found in a block are retried too.
OutdatedInBlock(b) == {i \in DOMAIN pending_tx : EraPassed(pending_tx[i].hash, b)}

Outdated(b) ==
  {i \in DOMAIN pending_tx : ~Marked(b)[i].best_block /\ EraPassed(pending_tx[i].hash, b)}

\* The hash of the next attempt at the call of pending_tx[i].
Retried(i, b) ==
  LET call(j) == pending_tx[j].hash[1]
  IN <<call(i), Cardinality({h \in DOMAIN signed : h[1] = call(i)})
                + Cardinality({j \in Outdated(b) : j <= i /\ call(j) = call(i)})>>

StatusAfter(i, b) ==
  IF i \in Outdated(b) THEN TxStatus(Retried(i, b), pending_tx[i].event_sender) ELSE Marked(b)[i]

\* The retried transactions are left at the front.
RetriedFirst(b) ==
  LET retried(i) == i \in Outdated(b)
      order == SelectSeq([i \in DOMAIN pending_tx |-> i], retried)
               \o SelectSeq([i \in DOMAIN pending_tx |-> i], LAMBDA i : ~retried(i))
  IN [i \in DOMAIN pending_tx |-> StatusAfter(order[i], b)]

\* A retried transaction goes to the front of pending_tx, and as its new era has not passed
\* it is the next one moved to new_pending: it keeps its place.
new_pending(b) == [i \in DOMAIN pending_tx |-> StatusAfter(i, b)]

best_block ==
  /\ running
  /\ best_blocks # <<>>
  /\ LET b == Head(best_blocks)
         attempt(h) == CHOOSE i \in Outdated(b) : Retried(i, b) = h
     IN /\ lag' = b.behind
        /\ pending_tx' = new_pending(b)
        /\ add_tx_to_pool([h \in {Retried(i, b) : i \in Outdated(b)} |->
                             signed[pending_tx[attempt(h)].hash].nonce], b.behind)
        /\ best_blocks' = Tail(best_blocks)
  /\ UNCHANGED <<running, nonce, calls, returned, finalized_blocks, chainVars>>

\* Fetching a block fails, and the stream goes on with the next one.
stream_error ==
  /\ running
  /\ \/ finalized_blocks # <<>> /\ Fault("finalized")
        /\ finalized_blocks' = Tail(finalized_blocks) /\ UNCHANGED best_blocks
     \/ best_blocks # <<>> /\ Fault("best")
        /\ best_blocks' = Tail(best_blocks) /\ UNCHANGED finalized_blocks
  /\ UNCHANGED <<workerVars, db, signed, chainVars>>

\* A stream ends, and create_stream_with_retry subscribes again: to the blocks to come.
create_stream_with_retry ==
  /\ running
  /\ \/ finalized_blocks # <<>> /\ Fault("finalized")
        /\ finalized_blocks' = <<>> /\ UNCHANGED best_blocks
     \/ best_blocks # <<>> /\ Fault("best")
        /\ best_blocks' = <<>> /\ UNCHANGED finalized_blocks
  /\ UNCHANGED <<workerVars, db, signed, chainVars>>

ChainLog == final \o FlattenSeq(unfinalized)

\* The account's next nonce on the best chain.
ChainNonce == Len(ChainLog)

Valid(h) == signed[h].nonce >= ChainNonce /\ signed[h].left > 0

\* A submission completes: the node takes the transaction if it is valid, or the call fails.
submit(h) ==
  /\ running
  /\ transaction_pool' = transaction_pool \ {h}
  /\ \/ pool' = pool \cup {t \in {h} : Valid(t)} /\ UNCHANGED faults
     \/ Fault("submit") /\ UNCHANGED pool
  /\ UNCHANGED <<running, nonce, lag, pending_tx, db, signed, calls, returned, streamVars, final, unfinalized>>

-----------------------------------------------------------------------------
\* A restart of the process.

\* system_account_next_index: the nonce after those of the chain and the pool.
NextIndex ==
  CHOOSE n \in ChainNonce .. ChainNonce + MaxCalls :
    /\ \A h \in pool : signed[h].nonce # n
    /\ \A k \in ChainNonce .. n - 1 : \E h \in pool : signed[h].nonce = k

\* load_pending_txs: entries of used nonces are deleted, the others sorted by nonce; entries of
\* one nonce in the order of their hashes, any order here.
LoadPending(n, txs) ==
  LET kept == {h \in db : signed[h].nonce >= n}
  IN /\ db' = kept
     /\ txs \in SetToSeqs(kept)
     /\ \A i, j \in DOMAIN txs : i < j => signed[txs[i]].nonce <= signed[txs[j]].nonce

new ==
  /\ Fault("restart")
  /\ nonce' = NextIndex
  /\ \E txs \in SetToSeqs({h \in db : signed[h].nonce >= NextIndex}) :
       /\ LoadPending(NextIndex, txs)
       /\ pending_tx' = [i \in DOMAIN txs |-> TxStatus(txs[i], FALSE)]
  /\ lag' = Len(unfinalized)
  /\ running' = TRUE
  /\ transaction_pool' = {}
  /\ best_blocks' = <<>>
  /\ finalized_blocks' = <<>>
  /\ UNCHANGED <<signed, calls, returned, chainVars>>

-----------------------------------------------------------------------------
\* The chain.

\* Numbers are kept relative to the head, as far back as a stream reaches.
Aged(data) == [data EXCEPT !.left = IF @ + MaxLag < 0 THEN @ ELSE @ - 1]

Older(b) == [b EXCEPT !.behind = @ + 1]

Announced(blocks, b) == IF running THEN Append(blocks, b) ELSE <<>>

\* A block has one transaction for each next nonce.
Includable(txs) ==
  \A i \in DOMAIN txs : Valid(txs[i]) /\ signed[txs[i]].nonce = ChainNonce + i - 1

\* A node does not let the next transaction of the account expire in its pool, and a submission
\* completes before the transaction expires.
LastChance(h) == signed[h].left = 1 /\ signed[h].nonce = ChainNonce

produce_block(txs) ==
  /\ Len(best_blocks) < MaxLag
  /\ Len(unfinalized) < MaxLag
  /\ Harmed => Cardinality(DOMAIN signed) < MaxSigned
  /\ Includable(txs)
  /\ \A h \in transaction_pool : signed[h].left # 1
  /\ txs = <<>> => \A h \in pool : ~LastChance(h)
  /\ unfinalized' = Append(unfinalized, txs)
  /\ pool' = {h \in pool : signed[h].nonce >= ChainNonce + Len(txs) /\ signed[h].left > 1}
  /\ signed' = [h \in DOMAIN signed |-> Aged(signed[h])]
  /\ lag' = IF running THEN lag + 1 ELSE lag
  /\ best_blocks' = Announced([i \in DOMAIN best_blocks |-> Older(best_blocks[i])],
                              [extrinsics |-> txs, behind |-> 0])
  /\ UNCHANGED <<running, nonce, pending_tx, transaction_pool, db, calls, returned, finalized_blocks, final, faults>>

finalize ==
  /\ unfinalized # <<>>
  /\ Len(finalized_blocks) < MaxLag
  /\ final' = final \o Head(unfinalized)
  /\ unfinalized' = Tail(unfinalized)
  /\ finalized_blocks' = Announced(finalized_blocks, Head(unfinalized))
  /\ UNCHANGED <<workerVars, db, signed, best_blocks, pool, faults>>

\* Another block becomes the head in the place of the last one, without its transactions.
reorg ==
  /\ Len(best_blocks) < MaxLag
  /\ unfinalized # <<>> /\ Last(unfinalized) # <<>>
  /\ Fault("reorg")
  /\ unfinalized' = Append(Front(unfinalized), <<>>)
  /\ pool' = pool \cup {h \in Range(Last(unfinalized)) : signed[h].left > 0}
  /\ best_blocks' = Announced(best_blocks, [extrinsics |-> <<>>, behind |-> 0])
  /\ UNCHANGED <<workerVars, db, signed, finalized_blocks, final>>

Next ==
  \/ receive
  \/ finalized_block
  \/ best_block
  \/ stream_error
  \/ create_stream_with_retry
  \/ \E h \in transaction_pool : submit(h)
  \/ new
  \/ \E txs \in SeqOf(pool, MaxCalls) : produce_block(txs)
  \/ finalize
  \/ reorg

Spec == Init /\ [][Next]_vars

\* The select! loop polls every stream, the node completes submissions, and the chain goes on.
FairSpec ==
  /\ Spec
  /\ WF_vars(finalized_block)
  /\ WF_vars(best_block)
  /\ WF_vars(\E h \in transaction_pool : submit(h))
  /\ WF_vars(\E txs \in SeqOf(pool, MaxCalls) : produce_block(txs))
  /\ WF_vars(finalize)

-----------------------------------------------------------------------------
\* A caller is answered only when its call is final, at most once, and callers are answered in
\* the order in which the worker took their calls, whatever the streams lose or a restart drops.
AnswersAreFinal ==
  /\ \A i \in DOMAIN returned : \E x \in Range(final) : x[1] = returned[i]
  /\ \A i, j \in DOMAIN returned : i < j => returned[i] < returned[j]

\* What the worker waits for survives a crash: unless the database failed, each pending
\* transaction is stored under the hash of its latest attempt, also after restarts.
PendingIsStored ==
  ~Happened("db") => \A i \in DOMAIN pending_tx : pending_tx[i].hash \in db

\* The loop that retries outdated transactions neither loses, repeats nor reorders one: without
\* a restart the pending transactions are those of the calls not answered, one for each nonce.
PendingContiguous ==
  ~Happened("restart") =>
    /\ Len(returned) + Len(pending_tx) = calls
    /\ \A i \in DOMAIN pending_tx :
         /\ pending_tx[i].hash[1] = Len(returned) + i
         /\ signed[pending_tx[i].hash].nonce = Len(returned) + i - 1

\* A retry never races the attempt before it: where the chain has used a nonce, it was with the
\* hash the worker waits for, as long as no block is lost, replaced or forgotten.
RetryIsSafe ==
  ~Harmed =>
    \A i \in DOMAIN pending_tx :
      LET h == pending_tx[i].hash
      IN signed[h].nonce < ChainNonce => ChainLog[signed[h].nonce + 1] = h

\* Each call the worker takes is answered in the end, though submissions fail and the database
\* does: the transaction is retried when its era has passed.
EveryCallReturns ==
  \A c \in Call : (c <= calls) ~> (c \in Range(returned) \/ Harmed)

\* The channel is there when a transaction is finalized, as the worker's unwrap has it.
SenderPresent == running
=============================================================================
