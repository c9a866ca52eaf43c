------------------------------- MODULE Signing -------------------------------
(***************************************************************************)
(* One signing session (the task's id is the session's id) of the members  *)
(* of an online shard: the ROAST state machine of tss/src/roast.rs, the    *)
(* way Tss (tss/src/lib.rs) feeds it and delivers to itself, and the way   *)
(* TimeWorker (chronicle/src/shards/service.rs) starts, polls and ends it. *)
(*                                                                         *)
(* poll_actions calls next_action until there is none: polling holds the   *)
(* member in that loop, which takes nothing else up until it ends.  The    *)
(* loop reads and writes the member's own state and sends, so the steps of *)
(* the others commute with it, and the model lets them wait.               *)
(*                                                                         *)
(* The network (peernet) delivers a message at most once, in any order.  A *)
(* message that is lost is one that is never delivered.                    *)
(***************************************************************************)
EXTENDS Integers, FiniteSets, Sequences

CONSTANTS N,            \* members of the shard, numbered by FROST identifier
          Threshold,
          Data,         \* payloads
          DataOf,       \* those a member's executor may come up with
          None,
          Lagging,      \* members that may start the session late
          Faulty,       \* members that may restart, stop, or lose messages
          MaxRestartNonce, \* bound: nonces a process has made when it restarts
          MaxSessions      \* bound: sessions a coordinator starts

Member == 1 .. N

ASSUME ThresholdAssumption ==
  /\ N \in Nat
  /\ Threshold \in 1 .. N
  /\ DataOf \in [Member -> SUBSET Data]
  /\ None \notin Data
  /\ None \notin Member \X Nat

\* Tss::new: the first members.len() - threshold + 1 members.
Coordinators == 1 .. N - Threshold + 1

\* SigningNonces and the SigningCommitments made from them; the number tells apart
\* the nonces of a signer, also those of an earlier run of its process.
Nonce == Member \X Nat

Commitments == [Member -> Nonce \cup {None}]

SignatureShare == [signer : Member, nonce : Nonce, commitments : Commitments, data : Data]

Empty == [p \in Member |-> None]

\* "no": the executor has not started it; "running": it prepares the data;
\* "signing": its signing request was handed to the Tss; "late": the task was completed
\* before that; "done": it was completed, and there is no request to come.
Task == {"no", "running", "signing", "late", "done"}

VARIABLES
  session,      \* members whose Tss has the session (signing_sessions)
  signer,       \* RoastSigner of each member
  coordinator,  \* Roast::coordinator of each member
  coordinators, \* Roast::coordinators: those a member still has to commit to
  polling,      \* the member inside poll_actions, if any
  task,         \* how far a member is with the task: see Task
  net,          \* messages in flight
  minted,       \* nonces each member has made
  used,         \* history: every signature share made
  signatures,   \* history: every signature a coordinator completed
  asked,        \* history: every payload an executor wanted signed
  restarted     \* members that restarted

roast == <<signer, coordinator, coordinators>>
tasks == <<task, asked>>
history == <<used, signatures>>
vars == <<session, roast, polling, tasks, net, minted, history, restarted>>

-----------------------------------------------------------------------------
(* RoastSigner, RoastSession and RoastCoordinator *)

NewSigner == [data |-> None, nonces |-> Empty, requests |-> <<>>]

NewCoordinator(m) ==
  [active |-> m \in Coordinators, session_id |-> 0, commitments |-> Empty,
   sessions |-> {}, committed |-> {}]

\* The same nonces are drawn every time.
commit_same(m) == <<m, 0>>

\* RoastSigner::commit draws nonces that were never drawn before.
commit(m) == <<m, minted[m]>>

sign(s, c, id, commitments) ==
  [s EXCEPT !.requests =
     Append(@, [coordinator |-> c, id |-> id, commitments |-> commitments])]

Committed(commitments) == {p \in Member : commitments[p] # None}

on_commit(co, peer, nonce) ==
  IF co.active /\ peer \notin co.committed
  THEN [co EXCEPT !.commitments[peer] = nonce, !.committed = @ \cup {peer}]
  ELSE co

on_signature_share(s, peer, share) ==
  IF s.commitments[peer] # None THEN [s EXCEPT !.shares[peer] = share] ELSE s

\* The new commitment of the response is not kept.
on_response_once(co, peer, id, share, nonce) ==
  IF co.active /\ \E s \in co.sessions : s.id = id
  THEN [co EXCEPT !.sessions = {IF s.id = id THEN on_signature_share(s, peer, share)
                                             ELSE s : s \in @}]
  ELSE co

on_response(co, peer, id, share, nonce) ==
  IF co.active /\ \E s \in co.sessions : s.id = id
  THEN [co EXCEPT !.commitments[peer] = nonce,
                  !.sessions = {IF s.id = id THEN on_signature_share(s, peer, share)
                                             ELSE s : s \in @}]
  ELSE co

is_complete(s) == \A p \in Committed(s.commitments) : s.shares[p] # None

\* The commitments a new session takes: those of the `threshold` lowest members.
Chosen(commitments) ==
  [p \in Member |->
     IF Cardinality({q \in Committed(commitments) : q <= p}) <= Threshold
     THEN commitments[p] ELSE None]

can_start_session(co) ==
  /\ co.active
  /\ co.session_id < MaxSessions
  /\ Cardinality(Committed(co.commitments)) >= Threshold

\* The commitments stay available for further sessions.
start_session_copying(co) ==
  [co EXCEPT !.session_id = @ + 1,
             !.sessions = @ \cup {[id |-> co.session_id, commitments |-> Chosen(co.commitments),
                                   shares |-> Empty]}]

start_session(co) ==
  LET chosen == Chosen(co.commitments)
  IN  [co EXCEPT !.session_id = @ + 1,
                 !.commitments = [p \in Member |-> IF chosen[p] = None THEN @[p] ELSE None],
                 !.sessions = @ \cup {[id |-> co.session_id, commitments |-> chosen,
                                       shares |-> Empty]}]

\* frost round2::sign refuses a package without the signer's own commitment or with
\* too few signers.
round2_sign_ok(m, nonce, commitments) ==
  /\ nonce # None
  /\ commitments[m] = nonce
  /\ Cardinality(Committed(commitments)) >= Threshold

\* The data the shares sign is not looked at.
aggregate_any(s, data) ==
  \A p \in Committed(s.commitments) : s.shares[p].commitments = s.commitments

\* frost aggregate verifies every share against the package of the coordinator.
aggregate_ok(s, data) ==
  \A p \in Committed(s.commitments) :
    /\ s.shares[p].commitments = s.commitments
    /\ s.shares[p].data = data

\* aggregate_signature: the first session that is complete.
Aggregated(m) ==
  {s \in coordinator[m].sessions :
     /\ coordinator[m].active
     /\ signer[m].data # None
     /\ is_complete(s)
     /\ \A t \in coordinator[m].sessions : is_complete(t) => s.id <= t.id}

\* The coordinator after a session that aggregate_signature took turned out invalid.
AfterAggregate(m) == [coordinator[m] EXCEPT !.sessions = @ \ Aggregated(m)]

-----------------------------------------------------------------------------
(* Roast::next_action, one disjunct per outcome, in its order of preference *)

Commit(m, c, nonce) == [type |-> "Commit", from |-> m, to |-> c, nonce |-> nonce]

Sign(c, m, id, commitments) ==
  [type |-> "Sign", from |-> c, to |-> m, id |-> id, commitments |-> commitments]

Signature(m, c, id, share, nonce) ==
  [type |-> "Signature", from |-> m, to |-> c, id |-> id, share |-> share, nonce |-> nonce]

completes(m) == \E s \in Aggregated(m) : aggregate_ok(s, signer[m].data)

Complete(m) ==
  /\ \E s \in Aggregated(m) :
       /\ aggregate_ok(s, signer[m].data)
       /\ signatures' = signatures \cup
            {[by |-> m, data |-> signer[m].data, commitments |-> s.commitments]}
  /\ coordinator' = [coordinator EXCEPT ![m] = [NewCoordinator(m) EXCEPT !.active = FALSE]]
  /\ UNCHANGED <<session, signer, coordinators, polling, tasks, net, minted, used, restarted>>

StartSession(m) ==
  LET co == AfterAggregate(m)
      id == co.session_id
      chosen == Chosen(co.commitments)
  IN  /\ ~completes(m)
      /\ can_start_session(co)
      /\ coordinator' = [coordinator EXCEPT ![m] = start_session(co)]
      /\ net' = net \cup {Sign(m, p, id, chosen) : p \in Committed(chosen) \ {m}}
      /\ signer' = [signer EXCEPT ![m] =
            IF chosen[m] # None THEN sign(@, m, id, chosen) ELSE @]
      /\ UNCHANGED <<session, coordinators, polling, tasks, minted, history, restarted>>

SendCommit(m) ==
  LET co == AfterAggregate(m)
      nonce == commit(m)
  IN  /\ ~completes(m)
      /\ ~can_start_session(co)
      /\ \E c \in coordinators[m] :
           /\ \A d \in coordinators[m] : d <= c
           /\ coordinators' = [coordinators EXCEPT ![m] = @ \ {c}]
           /\ signer' = [signer EXCEPT ![m].nonces[c] = nonce]
           /\ minted' = [minted EXCEPT ![m] = @ + 1]
           /\ coordinator' = [coordinator EXCEPT ![m] =
                IF c = m THEN on_commit(co, m, nonce) ELSE co]
           /\ net' = IF c = m THEN net ELSE net \cup {Commit(m, c, nonce)}
      /\ UNCHANGED <<session, polling, tasks, history, restarted>>

\* RoastSigner::message takes requests until it can sign one; a request uses up the
\* nonces made for its coordinator whether it is signed or refused.  (It panics when
\* there are none, which CommitmentHeld excludes.)
signable(m, i) ==
  LET r == signer[m].requests[i]
  IN  round2_sign_ok(m, signer[m].nonces[r.coordinator], r.commitments)

consume(s, i) ==
  LET served == {s.requests[j].coordinator : j \in 1 .. i}
  IN  [s EXCEPT !.requests = SubSeq(@, i + 1, Len(@)),
                !.nonces = [p \in Member |-> IF p \in served THEN None ELSE @[p]]]

can_respond(m) == signer[m].data # None /\ \E i \in DOMAIN signer[m].requests : signable(m, i)

Respond(m) ==
  LET co == AfterAggregate(m)
      nonce == commit(m)
  IN  /\ ~completes(m)
      /\ ~can_start_session(co)
      /\ coordinators[m] = {}
      /\ signer[m].data # None
      /\ \E i \in DOMAIN signer[m].requests :
           LET r == signer[m].requests[i]
               c == r.coordinator
               share == [signer |-> m, nonce |-> signer[m].nonces[c],
                         commitments |-> r.commitments, data |-> signer[m].data]
           IN  /\ signable(m, i)
               /\ \A j \in 1 .. i - 1 : ~signable(m, j)
               /\ signer' = [signer EXCEPT ![m] =
                    [consume(@, i) EXCEPT !.nonces[c] = nonce]]
               /\ used' = used \cup {share}
               /\ coordinator' = [coordinator EXCEPT ![m] =
                    IF c = m THEN on_response(co, m, r.id, share, nonce) ELSE co]
               /\ net' = IF c = m THEN net
                         ELSE net \cup {Signature(m, c, r.id, share, nonce)}
      /\ minted' = [minted EXCEPT ![m] = @ + 1]
      /\ UNCHANGED <<session, coordinators, polling, tasks, signatures, restarted>>

\* There is no action: poll_actions returns.
Idle(m) ==
  LET co == AfterAggregate(m)
  IN  /\ ~completes(m)
      /\ ~can_start_session(co)
      /\ coordinators[m] = {}
      /\ ~can_respond(m)
      /\ coordinator' = [coordinator EXCEPT ![m] = co]
      /\ signer' = [signer EXCEPT ![m] =
            IF @.data = None THEN @ ELSE consume(@, Len(@.requests))]
      /\ polling' = {}
      /\ UNCHANGED <<session, coordinators, tasks, net, minted, history, restarted>>

next_action(m) ==
  /\ m \in polling
  /\ Complete(m) \/ StartSession(m) \/ SendCommit(m) \/ Respond(m) \/ Idle(m)

-----------------------------------------------------------------------------
(* Tss and TimeWorker *)

\* Roast::new for member m.
NewSession(m) ==
  /\ signer' = [signer EXCEPT ![m] = NewSigner]
  /\ coordinator' = [coordinator EXCEPT ![m] = NewCoordinator(m)]
  /\ coordinators' = [coordinators EXCEPT ![m] = Coordinators]

\* process_tasks starts the task, and on_finality its session; nothing is polled.
on_start(m) ==
  /\ polling = {}
  /\ task[m] = "no"
  /\ task' = [task EXCEPT ![m] = "running"]
  /\ session' = session \cup {m}
  /\ NewSession(m)
  /\ UNCHANGED <<polling, asked, net, minted, history, restarted>>

\* A later finality hands the executor's request to the session, which it makes again
\* if the task was completed in between.  The executors need not read the same data.
on_sign(m, d) ==
  /\ polling = {}
  /\ task[m] \in {"running", "late"}
  /\ task' = [task EXCEPT ![m] = IF @ = "late" THEN "done" ELSE "signing"]
  /\ asked' = asked \cup {d}
  /\ session' = session \cup {m}
  /\ signer' = [signer EXCEPT ![m].data = d]
  /\ polling' = {m}
  /\ UNCHANGED <<coordinator, coordinators, net, minted, history, restarted>>

\* The messages loop of on_finality.  Commit and Sign carry the sender's block, and
\* wait until the receiver has seen it, which then has started the session too unless
\* its connector lags behind.  Without a session the message is dropped.
on_message(m, msg) ==
  /\ polling = {}
  /\ msg.to = m
  /\ msg.type = "Signature" \/ m \in Lagging \/ task[m] # "no"
  /\ net' = net \ {msg}
  /\ IF m \notin session THEN UNCHANGED <<roast, polling>>
     ELSE /\ signer' =
               IF msg.type # "Sign" THEN signer
               ELSE [signer EXCEPT ![m] = sign(@, msg.from, msg.id, msg.commitments)]
          /\ coordinator' = [coordinator EXCEPT ![m] =
               CASE msg.type = "Commit" -> on_commit(@, msg.from, msg.nonce)
                 [] msg.type = "Signature" ->
                      on_response(@, msg.from, msg.id, msg.share, msg.nonce)
                 [] OTHER -> @]
          /\ polling' = {m}
          /\ UNCHANGED coordinators
  /\ UNCHANGED <<session, tasks, minted, history, restarted>>

\* The signed task is completed on the chain, and on_finality drops the session.  A
\* member that does so before the others is one whose messages are slow, so the model
\* lets all of them do it together.  A request that is still to come makes a session
\* again; messages that will find none are dropped here.
on_complete ==
  /\ polling = {}
  /\ signatures # {}
  /\ \E m \in Member : task[m] \notin {"late", "done"}
  /\ task' = [m \in Member |-> IF task[m] \in {"running", "late"} THEN "late" ELSE "done"]
  /\ session' = {}
  /\ signer' = [m \in Member |-> NewSigner]
  /\ coordinator' = [m \in Member |-> NewCoordinator(m)]
  /\ coordinators' = [m \in Member |-> Coordinators]
  /\ net' = {msg \in net : task'[msg.to] = "late"}
  /\ UNCHANGED <<polling, asked, minted, history, restarted>>

\* A process that restarts has no sessions, and starts the task again unless it was
\* completed.  Messages on their way to it are lost.
Restart(m) ==
  /\ polling \subseteq {m}
  /\ m \in Faulty \ restarted
  /\ minted[m] <= MaxRestartNonce
  /\ restarted' = restarted \cup {m}
  /\ session' = session \ {m}
  /\ NewSession(m)
  /\ polling' = {}
  /\ task' = [task EXCEPT ![m] = IF @ \in {"late", "done"} THEN "done" ELSE "no"]
  /\ net' = {msg \in net : msg.to # m}
  /\ UNCHANGED <<asked, minted, history>>

Init ==
  /\ session = Member \ Lagging
  /\ signer = [m \in Member |-> NewSigner]
  /\ coordinator = [m \in Member |-> NewCoordinator(m)]
  /\ coordinators = [m \in Member |-> Coordinators]
  /\ polling = {}
  /\ task = [m \in Member |-> IF m \in Lagging THEN "no" ELSE "running"]
  /\ net = {}
  /\ minted = [m \in Member |-> 0]
  /\ used = {}
  /\ signatures = {}
  /\ asked = {}
  /\ restarted = {}

Next ==
  \/ \E m \in Member :
       \/ on_start(m)
       \/ \E d \in DataOf[m] : on_sign(m, d)
       \/ \E msg \in net : on_message(m, msg)
       \/ next_action(m)
       \/ Restart(m)
  \/ on_complete

Spec == Init /\ [][Next]_vars

-----------------------------------------------------------------------------

\* Members that are not faulty keep processing finalized blocks, and messages between
\* them arrive.  (A faulty member that stops inside its loop is one whose messages are
\* never delivered.)
Fairness ==
  /\ \A m \in Member \ Faulty :
       /\ WF_vars(on_start(m))
       /\ WF_vars(\E d \in DataOf[m] : on_sign(m, d))
       /\ WF_vars(\E msg \in net : msg.from \notin Faulty /\ on_message(m, msg))
  /\ WF_vars(\E m \in Member : next_action(m))

FairSpec == Spec /\ Fairness

Share == SignatureShare \cup {None}
Request == [coordinator : Member, id : Nat, commitments : Commitments]
Session == [id : Nat, commitments : Commitments, shares : [Member -> Share]]
Signer == [data : Data \cup {None}, nonces : Commitments, requests : Seq(Request)]
Coordinator ==
  [active : BOOLEAN, session_id : Nat, commitments : Commitments,
   sessions : SUBSET Session, committed : SUBSET Member]
CommitMessage == [type : {"Commit"}, from : Member, to : Member, nonce : Nonce]
SignMessage ==
  [type : {"Sign"}, from : Member, to : Member, id : Nat, commitments : Commitments]
SignatureMessage ==
  [type : {"Signature"}, from : Member, to : Member, id : Nat, share : SignatureShare,
   nonce : Nonce]
CompletedSignature == [by : Member, data : Data, commitments : Commitments]

TypeOK ==
  /\ session \subseteq Member
  /\ signer \in [Member -> Signer]
  /\ coordinator \in [Member -> Coordinator]
  /\ coordinators \in [Member -> SUBSET Member]
  /\ polling \subseteq Member
  /\ task \in [Member -> Task]
  /\ net \subseteq CommitMessage \cup SignMessage \cup SignatureMessage
  /\ minted \in [Member -> Nat]
  /\ used \subseteq SignatureShare
  /\ signatures \subseteq CompletedSignature
  /\ asked \subseteq Data
  /\ restarted \subseteq Member

\* A nonce signs once: no two signature shares, of whatever coordinator, session or
\* run of the process, are made with the same nonces, which would reveal the key share
\* (RoastSigner::message removes the nonces it uses).
NonceSignsOnce ==
  \A s, t \in used : s.nonce = t.nonce => s = t

\* RoastSigner::message never panics with "we sent the coordinator a commitment", as
\* long as no process restarts and the task is not completed: a coordinator asks once
\* for every commitment it was sent.  (A session that a late request makes again can
\* meet a request that was meant for the one before.)
CommitmentHeld ==
  restarted = {} /\ (\A p \in Member : task[p] \notin {"late", "done"}) =>
    \A m \in Member : \A i \in DOMAIN signer[m].requests :
      /\ signer[m].nonces[signer[m].requests[i].coordinator] # None
      /\ \A j \in 1 .. i - 1 :
           signer[m].requests[j].coordinator # signer[m].requests[i].coordinator

\* Coordinators that complete the session sign the same data, although each executor
\* reads its own, as long as a majority has to sign and nobody restarts.
SignaturesAgree ==
  \A s, t \in signatures : s.data = t.data \/ restarted # {} \/ 2 * Threshold <= N

\* As long as no more than N - Threshold members fail, and the executors agree on the
\* data, some coordinator gets the signature: a session that waits for a member that
\* failed does not keep the others from signing in another.
SessionIsSigned == <>(signatures # {} \/ Cardinality(asked) > 1)

=============================================================================
