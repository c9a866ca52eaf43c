---------------------------- MODULE SigningProofs ----------------------------
(***************************************************************************)
(* Proofs that no nonce signs twice, restarts included, that the           *)
(* signatures of a session agree, and that a signer holds the nonces of    *)
(* every request it is sent, for every shard size and threshold.           *)
(***************************************************************************)
EXTENDS Signing, TLAPS, FiniteSetTheorems, WellFoundedInduction

\* Time for the leaves, on a slow machine too.
USE ZenonT(5), SMTT(20)

\* The nonces a signer holds are its own, were made, differ, and have signed nothing.
NonceInv ==
  /\ \A s \in used : s.nonce[1] = s.signer /\ s.nonce[2] < minted[s.signer]
  /\ \A m, c \in Member : signer[m].nonces[c] # None =>
       /\ signer[m].nonces[c][1] = m /\ signer[m].nonces[c][2] < minted[m]
       /\ \A d \in Member : signer[m].nonces[d] = signer[m].nonces[c] => c = d
       /\ \A s \in used : s.nonce # signer[m].nonces[c]
  /\ NonceSignsOnce

\* The shares a coordinator has or will get were made by the member it has them from.
GoodSessions(co, shares) ==
  \A s \in co.sessions :
    /\ Committed(s.commitments) # {}
    /\ \A p \in Member : s.shares[p] # None => s.shares[p] \in shares /\ s.shares[p].signer = p

ShareInv ==
  /\ \A c \in Member : GoodSessions(coordinator[c], used)
  /\ \A msg \in net : msg.type = "Signature" => msg.share \in used /\ msg.share.signer = msg.from
  /\ \A s \in used : Cardinality(Committed(s.commitments)) >= Threshold

\* A member whose process did not restart signs one payload.
DataInv ==
  restarted = {} => \A m \in Member :
    /\ task[m] \in {"no", "running", "late"} =>
         signer[m].data = None /\ \A s \in used : s.signer # m
    /\ \A s \in used : s.signer = m /\ signer[m].data # None => s.data = signer[m].data
    /\ \A s, t \in used : s.signer = m /\ t.signer = m => s.data = t.data

\* A completed signature is made of shares, of at least `threshold` members.
SignatureInv ==
  \A s \in signatures :
    /\ Cardinality(Committed(s.commitments)) >= Threshold
    /\ \A p \in Committed(s.commitments) : \E u \in used : u.signer = p /\ u.data = s.data

\* Nobody restarted, and the task is not completed.
Undisturbed == restarted = {} /\ \A p \in Member : task[p] \notin {"late", "done"}

\* Where a commitment of member p to coordinator c can be, apart from the coordinator:
\* on its way there, with a request on its way back, or in a request that waits.
InFlight(p, c) ==
  {msg \in net : \/ msg.type \in {"Commit", "Signature"} /\ msg.from = p /\ msg.to = c
                 \/ msg.type = "Sign" /\ msg.from = c /\ msg.to = p}

Asks(p, c) == {i \in DOMAIN signer[p].requests : signer[p].requests[i].coordinator = c}

\* It is in one of these places, once, and as long as it is, p holds its nonces.
OneUse(p, c) ==
  /\ \A x, y \in InFlight(p, c) : x = y
  /\ \A i, j \in Asks(p, c) : i = j
  /\ InFlight(p, c) # {} => Asks(p, c) = {} /\ coordinator[c].commitments[p] = None
  /\ Asks(p, c) # {} => coordinator[c].commitments[p] = None
  /\ InFlight(p, c) # {} \/ Asks(p, c) # {} \/ coordinator[c].commitments[p] # None =>
       signer[p].nonces[c] # None /\ c \notin coordinators[p]

\* A member that has not started the session has committed to nobody.
NotStarted(p) ==
  task[p] = "no" =>
    p \notin session \cup polling /\ \A c \in Member : signer[p].nonces[c] = None

CommitInv == Undisturbed => \A p \in Member : NotStarted(p) /\ \A c \in Member : OneUse(p, c)

Inv == TypeOK /\ NonceInv /\ ShareInv /\ DataInv /\ SignatureInv /\ CommitInv

-----------------------------------------------------------------------------
(* Types of the operators *)

\* on_commit gives a coordinator.
LEMMA OnCommitType ==
  ASSUME NEW co \in Coordinator, NEW p \in Member, NEW n \in Nonce
  PROVE  on_commit(co, p, n) \in Coordinator
BY DEF on_commit, Coordinator, Commitments

\* on_response gives a coordinator.
LEMMA OnResponseType ==
  ASSUME NEW co \in Coordinator, NEW p \in Member, NEW id \in Nat,
         NEW share \in SignatureShare, NEW n \in Nonce
  PROVE  on_response(co, p, id, share, n) \in Coordinator
<1>1. ASSUME NEW s \in Session PROVE on_signature_share(s, p, share) \in Session
  BY DEF on_signature_share, Session, Share
<1>2. {IF s.id = id THEN on_signature_share(s, p, share) ELSE s : s \in co.sessions}
         \in SUBSET Session
  BY <1>1 DEF Coordinator
<1>3. [co.commitments EXCEPT ![p] = n] \in Commitments
  BY DEF Commitments, Coordinator
<1> QED BY <1>2, <1>3 DEF on_response, Coordinator

\* Without the session it aggregated, a coordinator is one.
LEMMA AfterAggregateType ==
  ASSUME TypeOK, NEW m \in Member
  PROVE  AfterAggregate(m) \in Coordinator
BY DEF TypeOK, AfterAggregate, Aggregated, Coordinator

\* The commitments chosen for a session are some of those there are.
LEMMA ChosenType ==
  ASSUME NEW c \in Commitments
  PROVE  /\ Chosen(c) \in Commitments
         /\ \A p \in Member : Chosen(c)[p] \in {c[p], None}
BY DEF Chosen, Commitments

\* start_session gives a coordinator.
LEMMA StartSessionType ==
  ASSUME NEW co \in Coordinator
  PROVE  start_session(co) \in Coordinator
<1> DEFINE rest == [p \in Member |-> IF Chosen(co.commitments)[p] = None
                                   THEN co.commitments[p] ELSE None]
           new == [id |-> co.session_id, commitments |-> Chosen(co.commitments),
                   shares |-> Empty]
<1>1. new \in Session
  BY ChosenType DEF Session, Empty, Share, Coordinator
<1>2. rest \in Commitments
  BY DEF Commitments, Coordinator
<1>3. start_session(co) = [co EXCEPT !.session_id = @ + 1, !.commitments = rest,
                                     !.sessions = @ \cup {new}]
  BY DEF start_session
<1> HIDE DEF rest, new
<1>4. co.sessions \cup {new} \in SUBSET Session /\ co.session_id + 1 \in Nat
  BY <1>1 DEF Coordinator
<1>5. start_session(co) = [active |-> co.active, session_id |-> co.session_id + 1,
        commitments |-> rest, sessions |-> co.sessions \cup {new}, committed |-> co.committed]
  BY <1>3 DEF Coordinator
<1> QED BY <1>2, <1>4, <1>5 DEF Coordinator

\* A new session's state has its type.
LEMMA NewTypes ==
  ASSUME NEW m \in Member
  PROVE  NewSigner \in Signer /\ NewCoordinator(m) \in Coordinator /\ Coordinators \subseteq Member
BY ThresholdAssumption
   DEF NewSigner, Signer, NewCoordinator, Coordinator, Coordinators, Empty, Commitments, Member

\* sign gives a signer.
LEMMA SignType ==
  ASSUME NEW s \in Signer, NEW c \in Member, NEW id \in Nat, NEW cs \in Commitments
  PROVE  /\ sign(s, c, id, cs) \in Signer
         /\ sign(s, c, id, cs).nonces = s.nonces
         /\ sign(s, c, id, cs).data = s.data
<1>1. [coordinator |-> c, id |-> id, commitments |-> cs] \in Request
  BY DEF Request
<1>2. Append(s.requests, [coordinator |-> c, id |-> id, commitments |-> cs]) \in Seq(Request)
  BY <1>1 DEF Signer
<1> QED BY <1>2 DEF Signer, sign

\* consume gives a signer, with the nonces of the coordinators it did not serve.
LEMMA ConsumeType ==
  ASSUME NEW s \in Signer, NEW i \in 0 .. Len(s.requests)
  PROVE  /\ consume(s, i) \in Signer
         /\ consume(s, i).data = s.data
         /\ \A p \in Member : consume(s, i).nonces[p] \in {s.nonces[p], None}
         /\ \A j \in 1 .. i : consume(s, i).nonces[s.requests[j].coordinator] = None
<1> DEFINE served == {s.requests[j].coordinator : j \in 1 .. i}
           nonces == [p \in Member |-> IF p \in served THEN None ELSE s.nonces[p]]
           requests == SubSeq(s.requests, i + 1, Len(s.requests))
<1>1. s.requests \in Seq(Request) /\ i \in Nat /\ Len(s.requests) \in Nat
  BY DEF Signer
<1>2. requests \in Seq(Request)
  BY <1>1
<1>3. nonces \in Commitments
  BY DEF Commitments, Signer
<1>4. consume(s, i) = [s EXCEPT !.requests = requests, !.nonces = nonces]
  BY DEF consume
<1>5. \A j \in 1 .. i : s.requests[j].coordinator \in Member
  <2>1. \A j \in 1 .. i : j \in 1 .. Len(s.requests)
    BY <1>1
  <2>2. \A j \in 1 .. i : s.requests[j] \in Request
    BY <1>1, <2>1
  <2> QED BY <2>2 DEF Request
<1>6. \A p \in Member : nonces[p] \in {s.nonces[p], None}
  OBVIOUS
<1>7. \A j \in 1 .. i : nonces[s.requests[j].coordinator] = None
  BY <1>5
<1> HIDE DEF nonces, requests
<1>8. consume(s, i) = [data |-> s.data, nonces |-> nonces, requests |-> requests]
  BY <1>4 DEF Signer
<1> QED BY <1>2, <1>3, <1>6, <1>7, <1>8 DEF Signer

-----------------------------------------------------------------------------
(* Types *)

\* The initial state has its types.
LEMMA InitType == Init => TypeOK
BY NewTypes DEF Init, TypeOK, Task

\* Completing the session keeps the types.
LEMMA CompleteType ==
  ASSUME TypeOK, NEW m \in Member, Complete(m)
  PROVE  TypeOK'
<1>1. PICK s \in Aggregated(m) :
        signatures' = signatures \cup
          {[by |-> m, data |-> signer[m].data, commitments |-> s.commitments]}
  BY DEF Complete
<1>2. s \in Session /\ signer[m].data \in Data
  BY DEF Aggregated, TypeOK, Coordinator, Signer
<1>3. [by |-> m, data |-> signer[m].data, commitments |-> s.commitments] \in CompletedSignature
  BY <1>2 DEF CompletedSignature, Session
<1>4. [NewCoordinator(m) EXCEPT !.active = FALSE] \in Coordinator
  BY NewTypes, ZenonT(40) DEF Coordinator
<1>5. signatures' \subseteq CompletedSignature /\ coordinator' \in [Member -> Coordinator]
  BY <1>1, <1>3, <1>4 DEF TypeOK, Complete
<1> QED BY <1>5 DEF TypeOK, Complete, tasks

\* Starting a session keeps the types.
LEMMA StartSessionStepType ==
  ASSUME TypeOK, NEW m \in Member, StartSession(m)
  PROVE  TypeOK'
<1> DEFINE co == AfterAggregate(m)
           chosen == Chosen(co.commitments)
<1>1. co \in Coordinator /\ start_session(co) \in Coordinator /\ chosen \in Commitments
  BY AfterAggregateType, StartSessionType, ChosenType DEF Coordinator
<1>2. coordinator' = [coordinator EXCEPT ![m] = start_session(co)]
  BY DEF StartSession
<1>3. net' = net \cup {Sign(m, p, co.session_id, chosen) : p \in Committed(chosen) \ {m}}
  BY DEF StartSession
<1>4. signer' = [signer EXCEPT ![m] =
        IF chosen[m] # None THEN sign(@, m, co.session_id, chosen) ELSE @]
  BY DEF StartSession
<1> HIDE DEF co, chosen
<1>5. sign(signer[m], m, co.session_id, chosen) \in Signer
  BY <1>1, SignType DEF TypeOK, Coordinator
<1>6. signer' \in [Member -> Signer]
  BY <1>4, <1>5 DEF TypeOK
<1>7. net' \subseteq CommitMessage \cup SignMessage \cup SignatureMessage
  BY <1>1, <1>3 DEF TypeOK, Sign, SignMessage, Committed, Coordinator
<1>8. coordinator' \in [Member -> Coordinator]
  BY <1>1, <1>2 DEF TypeOK
<1> QED BY <1>6, <1>7, <1>8 DEF TypeOK, StartSession, tasks, history

\* Committing to a coordinator keeps the types.
LEMMA SendCommitType ==
  ASSUME TypeOK, NEW m \in Member, SendCommit(m)
  PROVE  TypeOK'
<1> DEFINE co == AfterAggregate(m)
           nonce == <<m, minted[m]>>
<1>1. PICK c \in coordinators[m] :
        /\ coordinators' = [coordinators EXCEPT ![m] = @ \ {c}]
        /\ signer' = [signer EXCEPT ![m].nonces[c] = nonce]
        /\ minted' = [minted EXCEPT ![m] = @ + 1]
        /\ coordinator' = [coordinator EXCEPT ![m] =
             IF c = m THEN on_commit(co, m, nonce) ELSE co]
        /\ net' = IF c = m THEN net ELSE net \cup {Commit(m, c, nonce)}
  BY DEF SendCommit, commit
<1>2. c \in Member /\ nonce \in Nonce
  BY DEF TypeOK, Nonce
<1>3. co \in Coordinator /\ on_commit(co, m, nonce) \in Coordinator
  BY <1>2, AfterAggregateType, OnCommitType
<1> HIDE DEF co, nonce
<1>4. signer' \in [Member -> Signer]
  BY <1>1, <1>2, ZenonT(40) DEF TypeOK, Signer, Commitments
<1>5. net' \subseteq CommitMessage \cup SignMessage \cup SignatureMessage
  BY <1>1, <1>2 DEF TypeOK, Commit, CommitMessage
<1>6. coordinator' \in [Member -> Coordinator]
  BY <1>1, <1>3 DEF TypeOK
<1>7. coordinators' \in [Member -> SUBSET Member] /\ minted' \in [Member -> Nat]
  BY <1>1 DEF TypeOK
<1> QED BY <1>4, <1>5, <1>6, <1>7 DEF TypeOK, SendCommit, tasks, history

\* Answering a request keeps the types.
LEMMA RespondType ==
  ASSUME TypeOK, NEW m \in Member, Respond(m)
  PROVE  TypeOK'
<1> DEFINE co == AfterAggregate(m)
           nonce == <<m, minted[m]>>
           r(i) == signer[m].requests[i]
           share(i) == [signer |-> m, nonce |-> signer[m].nonces[r(i).coordinator],
                        commitments |-> r(i).commitments, data |-> signer[m].data]
<1>1. PICK i \in DOMAIN signer[m].requests :
        /\ signable(m, i)
        /\ signer' = [signer EXCEPT ![m] =
             [consume(@, i) EXCEPT !.nonces[r(i).coordinator] = nonce]]
        /\ used' = used \cup {share(i)}
        /\ coordinator' = [coordinator EXCEPT ![m] =
             IF r(i).coordinator = m THEN on_response(co, m, r(i).id, share(i), nonce) ELSE co]
        /\ net' = IF r(i).coordinator = m THEN net
                  ELSE net \cup {Signature(m, r(i).coordinator, r(i).id, share(i), nonce)}
  BY DEF Respond, commit
<1>2. r(i) \in Request /\ i \in 1 .. Len(signer[m].requests) /\ nonce \in Nonce
  BY DEF TypeOK, Signer, Nonce
<1>3. share(i) \in SignatureShare
  <2>1. signer[m].data \in Data
    BY DEF Respond, TypeOK, Signer
  <2>2. signer[m].nonces[r(i).coordinator] # None
    BY <1>1 DEF signable, round2_sign_ok
  <2>3. signer[m].nonces[r(i).coordinator] \in Nonce
    BY <1>2, <2>2 DEF TypeOK, Signer, Request, Commitments
  <2> QED BY <1>2, <2>1, <2>3 DEF SignatureShare, Request
<1>4. co \in Coordinator /\ on_response(co, m, r(i).id, share(i), nonce) \in Coordinator
  BY <1>2, <1>3, AfterAggregateType, OnResponseType DEF Request
<1>5. consume(signer[m], i) \in Signer
  BY <1>2, ConsumeType DEF TypeOK
<1> HIDE DEF co, nonce, share
<1>6. signer' \in [Member -> Signer]
  <2>1. [consume(signer[m], i) EXCEPT !.nonces[r(i).coordinator] = nonce] \in Signer
    BY <1>2, <1>5 DEF Signer, Commitments
  <2> QED BY <1>1, <2>1 DEF TypeOK
<1>7. net' \subseteq CommitMessage \cup SignMessage \cup SignatureMessage
  BY <1>1, <1>2, <1>3 DEF TypeOK, Signature, SignatureMessage, Request
<1>8. coordinator' \in [Member -> Coordinator]
  BY <1>1, <1>4 DEF TypeOK
<1>9. used' \subseteq SignatureShare
  BY <1>1, <1>3 DEF TypeOK
<1>10. minted' \in [Member -> Nat]
  <2>1. minted' = [minted EXCEPT ![m] = @ + 1]
    BY DEF Respond
  <2> QED BY <2>1 DEF TypeOK
<1> QED BY <1>6, <1>7, <1>8, <1>9, <1>10 DEF TypeOK, Respond, tasks

\* The end of the poll loop keeps the types.
LEMMA IdleType ==
  ASSUME TypeOK, NEW m \in Member, Idle(m)
  PROVE  TypeOK'
<1>1. coordinator' \in [Member -> Coordinator]
  BY AfterAggregateType DEF TypeOK, Idle
<1>2. consume(signer[m], Len(signer[m].requests)) \in Signer
  BY ConsumeType DEF TypeOK, Signer
<1>3. signer' \in [Member -> Signer]
  BY <1>2 DEF TypeOK, Idle
<1> QED BY <1>1, <1>3 DEF TypeOK, Idle, tasks, history

\* The handlers of on_finality, and a restart, keep the types.
LEMMA HandlerType ==
  ASSUME TypeOK, NEW m \in Member,
         \/ on_start(m)
         \/ \E d \in DataOf[m] : on_sign(m, d)
         \/ \E msg \in net : on_message(m, msg)
         \/ Restart(m)
         \/ on_complete
  PROVE  TypeOK'
<1>1. CASE on_start(m)
  BY <1>1, NewTypes DEF TypeOK, on_start, NewSession, Task, history
<1>2. CASE \E d \in DataOf[m] : on_sign(m, d)
  <2>1. PICK d \in DataOf[m] : on_sign(m, d)
    BY <1>2
  <2>2. d \in Data
    BY ThresholdAssumption
  <2>3. signer' \in [Member -> Signer]
    BY <2>1, <2>2, ZenonT(40) DEF TypeOK, on_sign, Signer
  <2>4. task' \in [Member -> Task]
    BY <2>1 DEF TypeOK, on_sign, Task
  <2> QED BY <2>1, <2>2, <2>3, <2>4 DEF TypeOK, on_sign, history
<1>3. CASE \E msg \in net : on_message(m, msg)
  <2>1. PICK msg \in net : on_message(m, msg)
    BY <1>3
  <2>2. CASE m \notin session
    BY <2>1, <2>2 DEF TypeOK, on_message, roast, tasks, history
  <2>3. CASE m \in session
    <3>1. signer' \in [Member -> Signer]
      <4>1. CASE msg.type = "Sign"
        <5>1. msg \in SignMessage
          BY <4>1 DEF TypeOK, CommitMessage, SignatureMessage
        <5>2. sign(signer[m], msg.from, msg.id, msg.commitments) \in Signer
          BY <5>1, SignType DEF TypeOK, SignMessage
        <5> QED BY <2>1, <2>3, <4>1, <5>2 DEF TypeOK, on_message
      <4> QED BY <2>1, <2>3, <4>1 DEF TypeOK, on_message
    <3>2. coordinator' \in [Member -> Coordinator]
      <4>1. CASE msg.type = "Commit"
        <5>1. msg \in CommitMessage
          BY <4>1 DEF TypeOK, SignMessage, SignatureMessage
        <5>2. on_commit(coordinator[m], msg.from, msg.nonce) \in Coordinator
          BY <5>1, OnCommitType DEF TypeOK, CommitMessage
        <5> QED BY <2>1, <2>3, <4>1, <5>2 DEF TypeOK, on_message
      <4>2. CASE msg.type = "Signature"
        <5>1. msg \in SignatureMessage
          BY <4>2 DEF TypeOK, SignMessage, CommitMessage
        <5>2. on_response(coordinator[m], msg.from, msg.id, msg.share, msg.nonce) \in Coordinator
          BY <5>1, OnResponseType DEF TypeOK, SignatureMessage
        <5> QED BY <2>1, <2>3, <4>2, <5>2 DEF TypeOK, on_message
      <4>3. CASE msg.type \notin {"Commit", "Signature"}
        BY <2>1, <2>3, <4>3 DEF TypeOK, on_message
      <4> QED BY <4>1, <4>2, <4>3
    <3> QED BY <2>1, <2>3, <3>1, <3>2 DEF TypeOK, on_message, tasks, history
  <2> QED BY <2>2, <2>3
<1>4. CASE Restart(m)
  BY <1>4, NewTypes DEF TypeOK, Restart, NewSession, Task, history
<1>5. CASE on_complete
  <2>1. \A p \in Member : NewSigner \in Signer /\ NewCoordinator(p) \in Coordinator
    BY NewTypes
  <2>2. Coordinators \subseteq Member
    BY NewTypes
  <2> QED BY <1>5, <2>1, <2>2 DEF TypeOK, on_complete, Task, history
<1> QED BY <1>1, <1>2, <1>3, <1>4, <1>5

\* Every step keeps the types.
LEMMA TypeStep == TypeOK /\ [Next]_vars => TypeOK'
<1> SUFFICES ASSUME TypeOK, [Next]_vars PROVE TypeOK'
  OBVIOUS
<1>1. CASE UNCHANGED vars
  BY <1>1 DEF TypeOK, vars, roast, tasks, history
<1>2. ASSUME NEW m \in Member, next_action(m) PROVE TypeOK'
  BY <1>2, CompleteType, StartSessionStepType, SendCommitType, RespondType, IdleType
     DEF next_action
<1>3. CASE on_complete
  <2>1. 1 \in Member
    BY ThresholdAssumption DEF Member
  <2> QED BY <1>3, <2>1, HandlerType
<1>4. ASSUME NEW m \in Member,
             \/ on_start(m)
             \/ \E d \in DataOf[m] : on_sign(m, d)
             \/ \E msg \in net : on_message(m, msg)
             \/ Restart(m)
      PROVE  TypeOK'
  BY <1>4, HandlerType
<1> QED BY <1>1, <1>2, <1>3, <1>4 DEF Next

-----------------------------------------------------------------------------
(* Nonces *)

\* Dropping nonces keeps the invariant.
LEMMA NonceFrame ==
  ASSUME TypeOK, NonceInv, used' = used, minted' = minted,
         \A m, c \in Member : signer'[m].nonces[c] \in {signer[m].nonces[c], None}
  PROVE  NonceInv'
<1>1. \A s \in used : s.nonce[1] = s.signer /\ s.nonce[2] < minted[s.signer]
  BY DEF NonceInv
<1>2. ASSUME NEW m \in Member, NEW c \in Member, signer'[m].nonces[c] # None
      PROVE  /\ signer'[m].nonces[c][1] = m /\ signer'[m].nonces[c][2] < minted[m]
             /\ \A d \in Member : signer'[m].nonces[d] = signer'[m].nonces[c] => c = d
             /\ \A s \in used : s.nonce # signer'[m].nonces[c]
  <2>1. signer'[m].nonces[c] = signer[m].nonces[c] /\ signer[m].nonces[c] # None
    BY <1>2
  <2>2. \A d \in Member : signer'[m].nonces[d] = signer'[m].nonces[c] =>
          signer[m].nonces[d] = signer[m].nonces[c]
    BY <1>2, <2>1
  <2> QED BY <2>1, <2>2 DEF NonceInv
<1> QED BY <1>1, <1>2 DEF NonceInv, NonceSignsOnce

\* A signer replaces the nonces it held for a coordinator, which may have signed, by
\* fresh ones.
FreshNonces(m, c) ==
  /\ used \subseteq used'
  /\ \A u \in used' \ used :
       u.signer = m /\ u.nonce = signer[m].nonces[c] /\ u.nonce # None
  /\ \A u, v \in used' \ used : u = v
  /\ minted' = [minted EXCEPT ![m] = @ + 1]
  /\ signer'[m].nonces[c] = <<m, minted[m]>>
  /\ \A k, d \in Member :
       (k = m /\ d = c) \/ signer'[k].nonces[d] \in {signer[k].nonces[d], None}

\* Replacing nonces keeps the invariant.
LEMMA NonceFresh ==
  ASSUME TypeOK, NonceInv, NEW m \in Member, NEW c \in Member, FreshNonces(m, c)
  PROVE  NonceInv'
<1> USE DEF FreshNonces
<1> DEFINE U == used' \ used
<1>0. used' = used \cup U
  OBVIOUS
<1> DEFINE nonce == <<m, minted[m]>>
<1>1. \A k \in Member : minted'[k] = (IF k = m THEN minted[m] + 1 ELSE minted[k])
  BY DEF TypeOK
<1>2. \A k \in Member : minted[k] \in Nat
  BY DEF TypeOK
<1>3. nonce[1] = m /\ nonce[2] = minted[m] /\ nonce # None
  BY ThresholdAssumption, <1>2
<1>4. \A s \in used : s.signer \in Member /\ s.nonce \in Nonce
  BY DEF TypeOK, SignatureShare
<1>5. \A k, d \in Member : signer[k].nonces[d] \in Nonce \cup {None}
  BY DEF TypeOK, Signer, Commitments
<1>6. signer'[m].nonces[c] = nonce
  OBVIOUS
<1> HIDE DEF nonce
<1>7. \A d \in Member : signer[m].nonces[d] # nonce
  BY <1>2, <1>3, <1>5 DEF NonceInv
<1>8. \A s \in used \cup U : s.nonce # nonce
  BY <1>2, <1>3, <1>4, <1>7 DEF NonceInv
<1>9. \A u \in U : u.nonce[1] = m /\ u.nonce[2] < minted[m] /\ u.nonce \in Nonce
  BY <1>5 DEF NonceInv
<1>10. \A s \in used \cup U : s.nonce[1] = s.signer /\ s.nonce[2] < minted'[s.signer]
  BY <1>1, <1>2, <1>4, <1>9 DEF NonceInv, Nonce
<1>11. ASSUME NEW k \in Member, NEW d \in Member, signer'[k].nonces[d] # None
       PROVE  /\ signer'[k].nonces[d][1] = k /\ signer'[k].nonces[d][2] < minted'[k]
              /\ \A e \in Member : signer'[k].nonces[e] = signer'[k].nonces[d] => d = e
              /\ \A s \in used \cup U : s.nonce # signer'[k].nonces[d]
  <2>1. CASE k = m /\ d = c
    <3>1. \A e \in Member : signer'[m].nonces[e] = nonce => e = c
      BY <1>3, <1>7
    <3> QED BY <1>1, <1>2, <1>3, <1>6, <1>8, <2>1, <3>1
  <2>2. CASE ~(k = m /\ d = c)
    <3>1. signer'[k].nonces[d] = signer[k].nonces[d] /\ signer[k].nonces[d] # None
      BY <1>11, <2>2
    <3>2. signer[k].nonces[d] \in Nonce
      BY <1>5, <3>1
    <3>3. signer[k].nonces[d][1] = k /\ signer[k].nonces[d][2] < minted'[k]
      BY <1>1, <1>2, <3>1, <3>2 DEF NonceInv, Nonce
    <3>4. ASSUME NEW e \in Member, signer'[k].nonces[e] = signer'[k].nonces[d] PROVE d = e
      <4>1. signer[k].nonces[d] # nonce
        BY <1>3, <1>7, <3>3
      <4>2. signer[k].nonces[e] = signer[k].nonces[d]
        BY <1>6, <3>1, <3>4, <4>1
      <4> QED BY <3>1, <4>2 DEF NonceInv
    <3>5. ASSUME NEW s \in used \cup U PROVE s.nonce # signer'[k].nonces[d]
      <4>1. CASE s \in used
        BY <3>1, <4>1 DEF NonceInv
      <4>2. CASE s \in U
        <5>1. s.nonce = signer[m].nonces[c] /\ s.nonce # None /\ s.nonce[1] = m
          BY <1>9, <4>2
        <5>2. CASE k = m
          <6>1. signer[m].nonces[d] # signer[m].nonces[c]
            BY <2>2, <3>1, <5>1, <5>2 DEF NonceInv
          <6> QED BY <3>1, <5>1, <5>2, <6>1
        <5> QED BY <3>1, <3>3, <5>1, <5>2
      <4> QED BY <4>1, <4>2
    <3> QED BY <3>1, <3>3, <3>4, <3>5
  <2> QED BY <2>1, <2>2
<1>12. \A s, t \in used \cup U : s.nonce = t.nonce => s = t
  BY DEF NonceInv, NonceSignsOnce
<1> QED BY <1>0, <1>10, <1>11, <1>12 DEF NonceInv, NonceSignsOnce

\* What a response to coordinator c does, of whatever request it is.
RespondEffect(m, c, id, share) ==
  /\ share.signer = m /\ share.data = signer[m].data /\ signer[m].data # None
  /\ share.nonce = signer[m].nonces[c] /\ share.nonce # None
  /\ Cardinality(Committed(share.commitments)) >= Threshold
  /\ used' = used \cup {share}
  /\ signer'[m].nonces[c] = <<m, minted[m]>>
  /\ signer'[m].data = signer[m].data
  /\ \A d \in Member \ {c} : signer'[m].nonces[d] \in {signer[m].nonces[d], None}
  /\ \A k \in Member \ {m} : signer'[k] = signer[k]
  /\ coordinator' = [coordinator EXCEPT ![m] =
       IF c = m THEN on_response(AfterAggregate(m), m, id, share, <<m, minted[m]>>)
       ELSE AfterAggregate(m)]
  /\ net' \subseteq net \cup {Signature(m, c, id, share, <<m, minted[m]>>)}

\* Respond has that effect for some request of the queue.
LEMMA RespondFacts ==
  ASSUME TypeOK, NEW m \in Member, Respond(m)
  PROVE  \E c \in Member, id \in Nat, share \in SignatureShare : RespondEffect(m, c, id, share)
<1> DEFINE co == AfterAggregate(m)
           nonce == <<m, minted[m]>>
           r(i) == signer[m].requests[i]
           share(i) == [signer |-> m, nonce |-> signer[m].nonces[r(i).coordinator],
                        commitments |-> r(i).commitments, data |-> signer[m].data]
<1>1. PICK i \in DOMAIN signer[m].requests :
        /\ signable(m, i)
        /\ signer' = [signer EXCEPT ![m] =
             [consume(@, i) EXCEPT !.nonces[r(i).coordinator] = nonce]]
        /\ used' = used \cup {share(i)}
        /\ coordinator' = [coordinator EXCEPT ![m] =
             IF r(i).coordinator = m THEN on_response(co, m, r(i).id, share(i), nonce) ELSE co]
        /\ net' = IF r(i).coordinator = m THEN net
                  ELSE net \cup {Signature(m, r(i).coordinator, r(i).id, share(i), nonce)}
  BY DEF Respond, commit
<1>2. r(i) \in Request /\ i \in 1 .. Len(signer[m].requests)
  BY DEF TypeOK, Signer
<1>3. /\ r(i).coordinator \in Member /\ r(i).id \in Nat
      /\ signer[m].nonces[r(i).coordinator] # None /\ signer[m].data # None
      /\ Cardinality(Committed(r(i).commitments)) >= Threshold
  BY <1>1, <1>2 DEF signable, round2_sign_ok, Request, Respond
<1>4. /\ consume(signer[m], i) \in Signer
      /\ consume(signer[m], i).data = signer[m].data
      /\ \A p \in Member : consume(signer[m], i).nonces[p] \in {signer[m].nonces[p], None}
  BY <1>2, ConsumeType DEF TypeOK
<1>5. signer'[m] = [consume(signer[m], i) EXCEPT !.nonces[r(i).coordinator] = nonce]
  BY <1>1 DEF TypeOK
<1>6. /\ signer'[m].nonces[r(i).coordinator] = nonce
      /\ signer'[m].data = signer[m].data
      /\ \A d \in Member \ {r(i).coordinator} :
           signer'[m].nonces[d] \in {signer[m].nonces[d], None}
  BY <1>3, <1>4, <1>5 DEF Signer, Commitments
<1>7. share(i) \in SignatureShare
  <2>1. signer[m].nonces[r(i).coordinator] \in Nonce /\ signer[m].data \in Data
    BY <1>3 DEF TypeOK, Signer, Commitments
  <2>2. r(i).commitments \in Commitments
    BY <1>2 DEF Request
  <2> QED BY <2>1, <2>2 DEF SignatureShare
<1>8. \A k \in Member \ {m} : signer'[k] = signer[k]
  BY <1>1 DEF TypeOK
<1>9. net' \subseteq net \cup {Signature(m, r(i).coordinator, r(i).id, share(i), nonce)}
  BY <1>1
<1>10. /\ share(i).signer = m /\ share(i).data = signer[m].data
       /\ share(i).nonce = signer[m].nonces[r(i).coordinator]
       /\ share(i).commitments = r(i).commitments
  OBVIOUS
<1> HIDE DEF share, co, nonce, r
<1>11. RespondEffect(m, r(i).coordinator, r(i).id, share(i))
  BY <1>1, <1>3, <1>6, <1>8, <1>9, <1>10 DEF RespondEffect, co, nonce
<1> QED BY <1>3, <1>7, <1>11

\* Every step keeps the invariant on nonces.
LEMMA NonceStep == TypeOK /\ NonceInv /\ [Next]_vars => NonceInv'
<1> SUFFICES ASSUME TypeOK, NonceInv, [Next]_vars PROVE NonceInv'
  OBVIOUS
<1>1. CASE UNCHANGED vars
  BY <1>1, NonceFrame DEF vars, roast, history
<1>2. ASSUME NEW m \in Member, SendCommit(m) PROVE NonceInv'
  <2>1. PICK c \in coordinators[m] :
          /\ signer' = [signer EXCEPT ![m].nonces[c] = <<m, minted[m]>>]
          /\ minted' = [minted EXCEPT ![m] = @ + 1]
    BY <1>2 DEF SendCommit, commit
  <2>2. c \in Member /\ used' = used
    BY <1>2 DEF TypeOK, SendCommit, history
  <2>3. signer'[m].nonces[c] = <<m, minted[m]>>
    BY <2>1, <2>2 DEF TypeOK, Signer, Commitments
  <2>4. \A k, d \in Member : (k = m /\ d = c) \/ signer'[k].nonces[d] \in {signer[k].nonces[d], None}
    BY <2>1, <2>2 DEF TypeOK, Signer, Commitments
  <2>5. FreshNonces(m, c)
    BY <2>1, <2>2, <2>3, <2>4 DEF FreshNonces
  <2> QED BY <2>2, <2>5, NonceFresh
<1>3. ASSUME NEW m \in Member, Respond(m) PROVE NonceInv'
  <2>1. minted' = [minted EXCEPT ![m] = @ + 1]
    BY <1>3 DEF Respond
  <2>2. PICK c \in Member, id \in Nat, share \in SignatureShare : RespondEffect(m, c, id, share)
    BY <1>3, RespondFacts
  <2>3. \A k, d \in Member : (k = m /\ d = c) \/ signer'[k].nonces[d] \in {signer[k].nonces[d], None}
    BY <2>2 DEF RespondEffect
  <2>4. FreshNonces(m, c)
    BY <2>1, <2>2, <2>3 DEF FreshNonces, RespondEffect
  <2> QED BY <2>4, NonceFresh
<1>4. ASSUME NEW m \in Member, Complete(m) \/ StartSession(m) \/ Idle(m) PROVE NonceInv'
  <2>1. used' = used /\ minted' = minted
    BY <1>4 DEF Complete, StartSession, Idle, history
  <2>2. \A k, c \in Member : signer'[k].nonces[c] \in {signer[k].nonces[c], None}
    <3>1. CASE Complete(m)
      BY <3>1 DEF Complete
    <3>2. CASE StartSession(m)
      <4> DEFINE co == AfterAggregate(m)
                 x == sign(signer[m], m, co.session_id, Chosen(co.commitments))
      <4>1. x.nonces = signer[m].nonces
        BY AfterAggregateType, ChosenType, SignType, ZenonT(40) DEF TypeOK, Coordinator
      <4>2. signer' = [signer EXCEPT ![m] = IF Chosen(co.commitments)[m] # None THEN x ELSE @]
        BY <3>2 DEF StartSession
      <4> HIDE DEF x
      <4> QED BY <4>1, <4>2 DEF TypeOK
    <3>3. CASE Idle(m)
      <4>1. \A c \in Member :
              consume(signer[m], Len(signer[m].requests)).nonces[c] \in {signer[m].nonces[c], None}
        <5>1. signer[m] \in Signer /\ Len(signer[m].requests) \in 0 .. Len(signer[m].requests)
          BY DEF TypeOK, Signer
        <5> QED BY <5>1, ConsumeType
      <4> QED BY <3>3, <4>1 DEF Idle, TypeOK
    <3> QED BY <1>4, <3>1, <3>2, <3>3
  <2> QED BY <2>1, <2>2, NonceFrame
<1>5. ASSUME NEW m \in Member,
             \/ on_start(m)
             \/ \E d \in DataOf[m] : on_sign(m, d)
             \/ \E msg \in net : on_message(m, msg)
             \/ Restart(m)
             \/ on_complete
      PROVE  NonceInv'
  <2>1. used' = used /\ minted' = minted
    BY <1>5 DEF on_start, on_sign, on_message, Restart, on_complete, history
  <2>2. \A k, c \in Member : signer'[k].nonces[c] \in {signer[k].nonces[c], None}
    <3>1. \A c \in Member : NewSigner.nonces[c] = None
      BY DEF NewSigner, Empty
    <3>2. CASE on_start(m) \/ Restart(m)
      BY <3>1, <3>2 DEF on_start, Restart, NewSession, TypeOK
    <3>3. CASE on_complete
      BY <3>1, <3>3 DEF on_complete
    <3>4. CASE \E d \in DataOf[m] : on_sign(m, d)
      BY <3>4 DEF on_sign, TypeOK, Signer
    <3>5. CASE \E msg \in net : on_message(m, msg)
      <4>1. PICK msg \in net : on_message(m, msg)
        BY <3>5
      <4>2. CASE m \in session /\ msg.type = "Sign"
        <5>1. msg \in SignMessage
          BY <4>2 DEF TypeOK, CommitMessage, SignatureMessage
        <5>a. /\ signer[m] \in Signer /\ msg.from \in Member /\ msg.id \in Nat
              /\ msg.commitments \in Commitments
          BY <5>1 DEF TypeOK, SignMessage
        <5>2. sign(signer[m], msg.from, msg.id, msg.commitments).nonces = signer[m].nonces
          BY <5>a, SignType
        <5>3. signer' = [signer EXCEPT ![m] = sign(@, msg.from, msg.id, msg.commitments)]
          BY <4>1, <4>2 DEF on_message
        <5> QED BY <5>2, <5>3 DEF TypeOK
      <4>3. CASE ~(m \in session /\ msg.type = "Sign")
        BY <4>1, <4>3 DEF on_message, roast
      <4> QED BY <4>2, <4>3
    <3> QED BY <1>5, <3>2, <3>3, <3>4, <3>5
  <2> QED BY <2>1, <2>2, NonceFrame
<1>6. 1 \in Member
  BY ThresholdAssumption DEF Member
<1> QED BY <1>1, <1>2, <1>3, <1>4, <1>5, <1>6 DEF Next, next_action

-----------------------------------------------------------------------------
(* Shares *)

\* The commitments chosen are not empty when there are any: the lowest member's is one.
LEMMA ChosenNonEmpty ==
  ASSUME NEW c \in Commitments, Cardinality(Committed(c)) >= Threshold
  PROVE  Committed(Chosen(c)) # {}
<1>1. IsFiniteSet(Member) /\ Member \subseteq Nat
  BY ThresholdAssumption, FS_Interval DEF Member
<1>2. Committed(c) \subseteq Member
  BY DEF Committed
<1>3. Committed(c) # {}
  BY ThresholdAssumption, FS_EmptySet
<1> DEFINE less == OpToRel(<, Nat)
<1>a. IsWellFoundedOn(less, Nat)
  BY NatLessThanWellFounded, Zenon
<1>b. \A x, y \in Nat : x < y => <<x, y>> \in less
  BY DEF OpToRel
<1> HIDE DEF less
<1>4. PICK p \in Committed(c) : \A q \in Committed(c) : ~(<<q, p>> \in less)
  BY <1>1, <1>2, <1>3, <1>a, WFMin
<1>c. \A q \in Committed(c) : q \in Nat
  BY <1>1, <1>2
<1>d. \A q \in Nat : q <= p => q < p \/ q = p
  BY <1>c
<1>5. ASSUME NEW q \in Committed(c), q <= p PROVE q = p
  BY <1>4, <1>5, <1>b, <1>c, <1>d
<1> DEFINE low == {q \in Committed(c) : q <= p}
<1>e. p <= p
  BY <1>c
<1>6. low = {p}
  BY <1>5, <1>e
<1> HIDE DEF low
<1>f. Cardinality(low) = 1
  BY <1>6, FS_Singleton
<1>7. Cardinality({q \in Committed(c) : q <= p}) <= Threshold
  BY <1>f, ThresholdAssumption DEF low
<1>8. Chosen(c)[p] = c[p] /\ p \in Member /\ c[p] # None
  BY <1>2, <1>4, <1>7 DEF Chosen, Committed
<1> QED BY <1>8 DEF Committed

\* What keeps the shares of a coordinator good: fewer sessions, more shares made.
LEMMA GoodMono ==
  ASSUME NEW co, NEW k, NEW A, NEW B, GoodSessions(co, A), A \subseteq B,
         k.sessions \subseteq co.sessions
  PROVE  GoodSessions(k, B)
BY DEF GoodSessions

\* A commitment leaves the sessions alone.
LEMMA GoodCommit ==
  ASSUME NEW co \in Coordinator, NEW p \in Member, NEW n \in Nonce, NEW A, GoodSessions(co, A)
  PROVE  GoodSessions(on_commit(co, p, n), A)
<1>1. on_commit(co, p, n).sessions = co.sessions
  BY DEF on_commit, Coordinator
<1> QED BY <1>1, GoodMono

\* A response adds the share of its sender.
LEMMA GoodResponse ==
  ASSUME NEW co \in Coordinator, NEW p \in Member, NEW id \in Nat,
         NEW share \in SignatureShare, NEW n \in Nonce, NEW A,
         GoodSessions(co, A), share \in A, share.signer = p
  PROVE  GoodSessions(on_response(co, p, id, share, n), A)
<1> DEFINE new(s) == IF s.id = id THEN on_signature_share(s, p, share) ELSE s
           k == on_response(co, p, id, share, n)
<1>1. k.sessions = co.sessions \/ k.sessions = {new(s) : s \in co.sessions}
  BY DEF on_response, Coordinator
<1>2. ASSUME NEW s \in co.sessions
      PROVE  /\ Committed(new(s).commitments) # {}
             /\ \A q \in Member : new(s).shares[q] # None =>
                  new(s).shares[q] \in A /\ new(s).shares[q].signer = q
  <2>1. s \in Session
    BY DEF Coordinator
  <2>2. new(s).commitments = s.commitments
    BY <2>1 DEF on_signature_share, Session
  <2>3. \A q \in Member : new(s).shares[q] = s.shares[q] \/ (q = p /\ new(s).shares[q] = share)
    BY <2>1 DEF on_signature_share, Session
  <2> QED BY <2>2, <2>3 DEF GoodSessions
<1> HIDE DEF new, k
<1>3. GoodSessions(k, A)
  BY <1>1, <1>2 DEF GoodSessions
<1> QED BY <1>3 DEF k

\* A new session has no shares, and the commitments of somebody.
LEMMA GoodStart ==
  ASSUME NEW co \in Coordinator, NEW A, GoodSessions(co, A), can_start_session(co)
  PROVE  GoodSessions(start_session(co), A)
<1> DEFINE new == [id |-> co.session_id, commitments |-> Chosen(co.commitments),
                   shares |-> Empty]
           k == start_session(co)
<1>1. k.sessions = co.sessions \cup {new}
  BY DEF start_session, Coordinator
<1>2. Committed(new.commitments) # {}
  BY ChosenNonEmpty DEF can_start_session, Coordinator
<1>3. \A p \in Member : new.shares[p] = None
  BY DEF Empty
<1> HIDE DEF new, k
<1>4. GoodSessions(k, A)
  BY <1>1, <1>2, <1>3 DEF GoodSessions
<1> QED BY <1>4 DEF k

\* A session that starts has no shares at all.
LEMMA GoodNew ==
  ASSUME NEW m \in Member, NEW A
  PROVE  /\ GoodSessions(NewCoordinator(m), A)
         /\ GoodSessions([NewCoordinator(m) EXCEPT !.active = FALSE], A)
BY DEF NewCoordinator, GoodSessions

\* Without the session it aggregated, the shares of a coordinator are still good.
LEMMA GoodAfter ==
  ASSUME NEW m \in Member, NEW A, TypeOK, GoodSessions(coordinator[m], A)
  PROVE  GoodSessions(AfterAggregate(m), A)
<1>1. AfterAggregate(m).sessions \subseteq coordinator[m].sessions
  BY DEF AfterAggregate, TypeOK, Coordinator
<1> QED BY <1>1, GoodMono

\* The step that changes one coordinator, sends no share and makes none.
QuietStep(m) ==
  /\ used' = used
  /\ GoodSessions(coordinator'[m], used)
  /\ \A k \in Member \ {m} : coordinator'[k] = coordinator[k]
  /\ \A msg \in net' : msg \in net \/ msg.type # "Signature"

\* Such a step keeps ShareInv.
LEMMA ShareQuiet ==
  ASSUME NEW m \in Member, ShareInv, QuietStep(m)
  PROVE  ShareInv'
<1>1. \A c \in Member : GoodSessions(coordinator'[c], used)
  BY DEF ShareInv, QuietStep
<1>2. \A c \in Member : GoodSessions(coordinator[c], used)'
  BY <1>1 DEF GoodSessions, QuietStep, Committed
<1>3. \A s \in used' : Cardinality(Committed(s.commitments)) >= Threshold
  BY DEF ShareInv, QuietStep
<1> QED BY <1>2, <1>3 DEF ShareInv, QuietStep, Committed

\* Every step keeps the invariant on shares.
LEMMA ShareStep == TypeOK /\ ShareInv /\ [Next]_vars => ShareInv'
<1> SUFFICES ASSUME TypeOK, ShareInv, [Next]_vars PROVE ShareInv'
  OBVIOUS
<1>1. CASE UNCHANGED vars
  BY <1>1 DEF vars, roast, history, ShareInv, GoodSessions, Committed
<1>2. \A m \in Member : /\ coordinator[m] \in Coordinator
                        /\ AfterAggregate(m) \in Coordinator
                        /\ GoodSessions(coordinator[m], used)
                        /\ GoodSessions(AfterAggregate(m), used)
  BY AfterAggregateType, GoodAfter DEF TypeOK, ShareInv
<1>3. ASSUME NEW m \in Member, Complete(m) PROVE ShareInv'
  <2>1. coordinator' = [coordinator EXCEPT ![m] = [NewCoordinator(m) EXCEPT !.active = FALSE]]
    BY <1>3 DEF Complete
  <2>2. used' = used /\ net' = net
    BY <1>3 DEF Complete
  <2>3. QuietStep(m)
    BY <2>1, <2>2, GoodNew DEF QuietStep, TypeOK
  <2> QED BY <2>3, ShareQuiet
<1>4. ASSUME NEW m \in Member, StartSession(m) PROVE ShareInv'
  <2> DEFINE co == AfterAggregate(m)
  <2>1. coordinator' = [coordinator EXCEPT ![m] = start_session(co)]
    BY <1>4 DEF StartSession
  <2>2. GoodSessions(start_session(co), used)
    BY <1>2, <1>4, GoodStart DEF StartSession
  <2>3. used' = used
    BY <1>4 DEF StartSession, history
  <2>4. \A msg \in net' : msg \in net \/ msg.type # "Signature"
    BY <1>4 DEF StartSession, Sign
  <2> HIDE DEF co
  <2>5. QuietStep(m)
    BY <2>1, <2>2, <2>3, <2>4 DEF QuietStep, TypeOK
  <2> QED BY <2>5, ShareQuiet
<1>5. ASSUME NEW m \in Member, SendCommit(m) PROVE ShareInv'
  <2> DEFINE co == AfterAggregate(m)
             nonce == <<m, minted[m]>>
  <2>1. PICK c \in coordinators[m] :
          /\ coordinator' = [coordinator EXCEPT ![m] =
               IF c = m THEN on_commit(co, m, nonce) ELSE co]
          /\ net' = IF c = m THEN net ELSE net \cup {Commit(m, c, nonce)}
    BY <1>5 DEF SendCommit, commit
  <2>2. used' = used
    BY <1>5 DEF SendCommit, history
  <2>3. nonce \in Nonce
    BY DEF TypeOK, Nonce
  <2>4. GoodSessions(on_commit(co, m, nonce), used) /\ GoodSessions(co, used)
    BY <1>2, <2>3, GoodCommit
  <2>5. \A msg \in net' : msg \in net \/ msg.type # "Signature"
    BY <2>1 DEF Commit
  <2> HIDE DEF co, nonce
  <2>6. QuietStep(m)
    BY <2>1, <2>2, <2>4, <2>5 DEF QuietStep, TypeOK
  <2> QED BY <2>6, ShareQuiet
<1>6. ASSUME NEW m \in Member, Respond(m) PROVE ShareInv'
  <2> DEFINE co == AfterAggregate(m)
             nonce == <<m, minted[m]>>
  <2>1. PICK c \in Member, id \in Nat, share \in SignatureShare : RespondEffect(m, c, id, share)
    BY <1>6, RespondFacts
  <2>2. nonce \in Nonce
    BY DEF TypeOK, Nonce
  <2>3. used' = used \cup {share} /\ share.signer = m
        /\ Cardinality(Committed(share.commitments)) >= Threshold
    BY <2>1 DEF RespondEffect
  <2>4. coordinator' = [coordinator EXCEPT ![m] =
          IF c = m THEN on_response(co, m, id, share, nonce) ELSE co]
    BY <2>1 DEF RespondEffect
  <2>5. net' \subseteq net \cup {Signature(m, c, id, share, nonce)}
    BY <2>1 DEF RespondEffect
  <2>6. \A k \in Member : GoodSessions(coordinator[k], used')
    BY <1>2, <2>3, GoodMono
  <2>7. GoodSessions(co, used')
    BY <1>2, <2>3, GoodMono
  <2>8. GoodSessions(on_response(co, m, id, share, nonce), used')
    BY <1>2, <2>2, <2>3, <2>7, GoodResponse
  <2>9. Signature(m, c, id, share, nonce).share = share
        /\ Signature(m, c, id, share, nonce).from = m
    BY DEF Signature
  <2> HIDE DEF co, nonce
  <2>10. \A k \in Member : GoodSessions(coordinator'[k], used')
    BY <2>4, <2>6, <2>7, <2>8 DEF TypeOK
  <2>11. \A k \in Member : GoodSessions(coordinator[k], used)'
    BY <2>10 DEF GoodSessions, Committed
  <2>12. \A msg \in net' : msg.type = "Signature" =>
           msg.share \in used' /\ msg.share.signer = msg.from
    BY <2>3, <2>5, <2>9 DEF ShareInv
  <2>13. \A s \in used' : Cardinality(Committed(s.commitments)) >= Threshold
    BY <2>3 DEF ShareInv
  <2> QED BY <2>11, <2>12, <2>13 DEF ShareInv, Committed
<1>7. ASSUME NEW m \in Member, Idle(m) PROVE ShareInv'
  <2>1. /\ coordinator' = [coordinator EXCEPT ![m] = AfterAggregate(m)]
        /\ used' = used /\ net' = net
    BY <1>7 DEF Idle, history
  <2>2. QuietStep(m)
    BY <1>2, <2>1 DEF QuietStep, TypeOK
  <2> QED BY <2>2, ShareQuiet
<1>8. ASSUME NEW m \in Member, on_start(m) \/ Restart(m) PROVE ShareInv'
  <2>1. /\ coordinator' = [coordinator EXCEPT ![m] = NewCoordinator(m)]
        /\ used' = used /\ net' \subseteq net
    BY <1>8 DEF on_start, Restart, NewSession, history
  <2>2. QuietStep(m)
    BY <2>1, GoodNew DEF QuietStep, TypeOK
  <2> QED BY <2>2, ShareQuiet
<1>9. ASSUME NEW m \in Member, NEW d \in DataOf[m], on_sign(m, d) PROVE ShareInv'
  <2>1. coordinator' = coordinator /\ used' = used /\ net' = net
    BY <1>9 DEF on_sign, history
  <2>2. QuietStep(m)
    BY <1>2, <2>1 DEF QuietStep
  <2> QED BY <2>2, ShareQuiet
<1>10. ASSUME NEW m \in Member, NEW msg \in net, on_message(m, msg) PROVE ShareInv'
  <2>1. used' = used /\ net' \subseteq net
    BY <1>10 DEF on_message, history
  <2>2. \A k \in Member \ {m} : coordinator'[k] = coordinator[k]
    BY <1>10 DEF on_message, roast, TypeOK
  <2>3. GoodSessions(coordinator'[m], used)
    <3>1. CASE m \in session /\ msg.type = "Commit"
      <4>1. msg \in CommitMessage
        BY <3>1 DEF TypeOK, SignMessage, SignatureMessage
      <4>2. coordinator'[m] = on_commit(coordinator[m], msg.from, msg.nonce)
        BY <1>10, <3>1 DEF on_message, TypeOK
      <4> QED BY <1>2, <4>1, <4>2, GoodCommit DEF CommitMessage
    <3>2. CASE m \in session /\ msg.type = "Signature"
      <4>1. msg \in SignatureMessage
        BY <3>2 DEF TypeOK, SignMessage, CommitMessage
      <4>2. coordinator'[m] = on_response(coordinator[m], msg.from, msg.id, msg.share, msg.nonce)
        BY <1>10, <3>2 DEF on_message, TypeOK
      <4>3. msg.share \in used /\ msg.share.signer = msg.from
        BY <3>2 DEF ShareInv
      <4>4. /\ msg.from \in Member /\ msg.id \in Nat /\ msg.share \in SignatureShare
            /\ msg.nonce \in Nonce
        BY <4>1 DEF SignatureMessage
      <4> QED BY <1>2, <4>2, <4>3, <4>4, GoodResponse
    <3>3. CASE m \notin session \/ msg.type \notin {"Commit", "Signature"}
      <4>1. coordinator'[m] = coordinator[m]
        BY <1>10, <3>3 DEF on_message, roast, TypeOK
      <4> QED BY <1>2, <4>1
    <3> QED BY <3>1, <3>2, <3>3
  <2>4. QuietStep(m)
    BY <2>1, <2>2, <2>3 DEF QuietStep
  <2> QED BY <2>4, ShareQuiet
<1>11. CASE on_complete
  <2>1. /\ coordinator' = [m \in Member |-> NewCoordinator(m)]
        /\ used' = used /\ net' \subseteq net
    BY <1>11 DEF on_complete, history
  <2>2. \A k \in Member : GoodSessions(coordinator'[k], used)
    BY <2>1, GoodNew
  <2>3. \A k \in Member : GoodSessions(coordinator[k], used)'
    BY <2>1, <2>2 DEF GoodSessions, Committed
  <2> QED BY <2>1, <2>3 DEF ShareInv, Committed
<1> QED BY <1>1, <1>3, <1>4, <1>5, <1>6, <1>7, <1>8, <1>9, <1>10, <1>11 DEF Next, next_action

-----------------------------------------------------------------------------
(* Data *)

\* A step that makes no share and gives no signer data, nor moves a task back.
DataFrameStep ==
  /\ used' = used
  /\ restarted' = {} => restarted = {}
  /\ \A m \in Member : restarted' = {} =>
       /\ signer'[m].data \in {signer[m].data, None}
       /\ task'[m] \in {"no", "running", "late"} =>
            task[m] \in {"no", "running", "late"}

\* Such a step keeps DataInv.
LEMMA DataFrame ==
  ASSUME DataInv, DataFrameStep
  PROVE  DataInv'
BY DEF DataInv, DataFrameStep

\* Every step keeps the invariant on data.
LEMMA DataStep == TypeOK /\ DataInv /\ [Next]_vars => DataInv'
<1> SUFFICES ASSUME TypeOK, DataInv, [Next]_vars PROVE DataInv'
  OBVIOUS
<1>1. CASE UNCHANGED vars
  BY <1>1 DEF vars, roast, history, tasks, DataInv
<1>2. ASSUME NEW m \in Member, Complete(m) \/ StartSession(m) \/ SendCommit(m) \/ Idle(m)
      PROVE  DataInv'
  <2>1. used' = used /\ task' = task /\ restarted' = restarted
    BY <1>2 DEF Complete, StartSession, SendCommit, Idle, history, tasks
  <2>2. \A k \in Member : signer'[k].data = signer[k].data
    <3>1. CASE Complete(m)
      BY <3>1 DEF Complete
    <3>2. CASE StartSession(m)
      <4> DEFINE co == AfterAggregate(m)
                 x == sign(signer[m], m, co.session_id, Chosen(co.commitments))
      <4>1. x.data = signer[m].data
        BY DEF sign, TypeOK, Signer
      <4>2. signer' = [signer EXCEPT ![m] = IF Chosen(co.commitments)[m] # None THEN x ELSE @]
        BY <3>2 DEF StartSession
      <4> HIDE DEF x
      <4> QED BY <4>1, <4>2 DEF TypeOK
    <3>3. CASE SendCommit(m)
      BY <3>3 DEF SendCommit, TypeOK, Signer
    <3>4. CASE Idle(m)
      <4>1. consume(signer[m], Len(signer[m].requests)).data = signer[m].data
        BY DEF consume, TypeOK, Signer
      <4> QED BY <3>4, <4>1 DEF Idle, TypeOK
    <3> QED BY <1>2, <3>1, <3>2, <3>3, <3>4
  <2>3. DataFrameStep
    BY <2>1, <2>2 DEF DataFrameStep
  <2> QED BY <2>3, DataFrame
<1>3. ASSUME NEW m \in Member, Respond(m) PROVE DataInv'
  <2>1. PICK c \in Member, id \in Nat, share \in SignatureShare : RespondEffect(m, c, id, share)
    BY <1>3, RespondFacts
  <2>2. task' = task /\ restarted' = restarted
    BY <1>3 DEF Respond, tasks
  <2>3. \A k \in Member : signer'[k].data = signer[k].data
    BY <2>1 DEF RespondEffect
  <2>4. /\ share.signer = m /\ share.data = signer[m].data /\ signer[m].data # None
        /\ used' = used \cup {share}
    BY <2>1 DEF RespondEffect
  <2> QED BY <2>2, <2>3, <2>4 DEF DataInv
<1>4. ASSUME NEW m \in Member, NEW d \in DataOf[m], on_sign(m, d) PROVE DataInv'
  <2>1. used' = used /\ restarted' = restarted
    BY <1>4 DEF on_sign, history
  <2>2. task[m] \in {"running", "late"} /\ task'[m] \in {"signing", "done"}
    BY <1>4 DEF on_sign, TypeOK
  <2>3. \A k \in Member \ {m} : signer'[k] = signer[k] /\ task'[k] = task[k]
    BY <1>4 DEF on_sign, TypeOK
  <2>4. restarted = {} => \A s \in used : s.signer # m
    BY <2>2 DEF DataInv
  <2> QED BY <2>1, <2>2, <2>3, <2>4 DEF DataInv
<1>5. ASSUME NEW m \in Member, on_start(m) PROVE DataInv'
  <2>1. used' = used /\ restarted' = restarted /\ task[m] = "no"
    BY <1>5 DEF on_start, history
  <2>2. \A k \in Member : signer'[k].data \in {signer[k].data, None}
    BY <1>5 DEF on_start, NewSession, NewSigner, TypeOK
  <2>3. \A k \in Member \ {m} : task'[k] = task[k]
    BY <1>5 DEF on_start, TypeOK
  <2>4. DataFrameStep
    BY <2>1, <2>2, <2>3 DEF DataFrameStep
  <2> QED BY <2>4, DataFrame
<1>6. ASSUME NEW m \in Member, Restart(m) PROVE DataInv'
  BY <1>6 DEF Restart, DataInv
<1>7. ASSUME NEW m \in Member, NEW msg \in net, on_message(m, msg) PROVE DataInv'
  <2>1. used' = used /\ restarted' = restarted /\ task' = task
    BY <1>7 DEF on_message, history, tasks
  <2>2. \A k \in Member : signer'[k].data = signer[k].data
    <3>1. CASE m \in session /\ msg.type = "Sign"
      <4>1. sign(signer[m], msg.from, msg.id, msg.commitments).data = signer[m].data
        BY DEF sign, TypeOK, Signer
      <4>2. signer' = [signer EXCEPT ![m] = sign(@, msg.from, msg.id, msg.commitments)]
        BY <1>7, <3>1 DEF on_message
      <4> QED BY <4>1, <4>2 DEF TypeOK
    <3>2. CASE ~(m \in session /\ msg.type = "Sign")
      BY <1>7, <3>2 DEF on_message, roast
    <3> QED BY <3>1, <3>2
  <2>3. DataFrameStep
    BY <2>1, <2>2 DEF DataFrameStep
  <2> QED BY <2>3, DataFrame
<1>8. CASE on_complete
  <2>1. used' = used /\ restarted' = restarted
    BY <1>8 DEF on_complete, history
  <2>2. \A k \in Member : signer'[k].data = None
    BY <1>8 DEF on_complete, NewSigner
  <2>3. \A k \in Member : task'[k] = (IF task[k] \in {"running", "late"} THEN "late" ELSE "done")
    BY <1>8 DEF on_complete
  <2>4. DataFrameStep
    BY <2>1, <2>2, <2>3 DEF DataFrameStep
  <2> QED BY <2>4, DataFrame
<1> QED BY <1>1, <1>2, <1>3, <1>4, <1>5, <1>6, <1>7, <1>8 DEF Next, next_action

-----------------------------------------------------------------------------
(* Signatures *)

\* The shares made stay made.
LEMMA UsedGrows == TypeOK /\ [Next]_vars => used \subseteq used'
<1> SUFFICES ASSUME TypeOK, [Next]_vars PROVE used \subseteq used'
  OBVIOUS
<1>1. ASSUME NEW m \in Member, Respond(m) PROVE used \subseteq used'
  BY <1>1, RespondFacts DEF RespondEffect
<1> QED BY <1>1 DEF Next, next_action, vars, history, Complete, StartSession, SendCommit, Idle,
             on_start, on_sign, on_message, on_complete, Restart

\* Every step keeps the invariant on signatures: a session that is complete, and whose
\* shares are for its own commitments and data, was signed by all its members.
LEMMA SignatureStep == TypeOK /\ ShareInv /\ SignatureInv /\ [Next]_vars => SignatureInv'
<1> SUFFICES ASSUME TypeOK, ShareInv, SignatureInv, [Next]_vars PROVE SignatureInv'
  OBVIOUS
<1>1. used \subseteq used'
  BY UsedGrows
<1>2. CASE signatures' = signatures
  BY <1>1, <1>2 DEF SignatureInv, Committed
<1>3. ASSUME NEW m \in Member, Complete(m) PROVE SignatureInv'
  <2>1. PICK s \in Aggregated(m) :
          /\ aggregate_ok(s, signer[m].data)
          /\ signatures' = signatures \cup
               {[by |-> m, data |-> signer[m].data, commitments |-> s.commitments]}
    BY <1>3 DEF Complete
  <2>2. s \in coordinator[m].sessions /\ is_complete(s)
    BY <2>1 DEF Aggregated
  <2>3. ASSUME NEW p \in Committed(s.commitments)
        PROVE  /\ s.shares[p] \in used /\ s.shares[p].signer = p
               /\ s.shares[p].data = signer[m].data /\ s.shares[p].commitments = s.commitments
    <3>1. p \in Member /\ s.shares[p] # None
      BY <2>2 DEF is_complete, Committed
    <3> QED BY <2>1, <2>2, <3>1 DEF ShareInv, GoodSessions, aggregate_ok
  <2>4. Cardinality(Committed(s.commitments)) >= Threshold
    <3>1. PICK p : p \in Committed(s.commitments)
      BY <2>2 DEF ShareInv, GoodSessions
    <3> QED BY <2>3, <3>1 DEF ShareInv
  <2>5. \A p \in Committed(s.commitments) :
          \E u \in used : u.signer = p /\ u.data = signer[m].data
    BY <2>3
  <2> DEFINE new == [by |-> m, data |-> signer[m].data, commitments |-> s.commitments]
  <2>6. new.data = signer[m].data /\ new.commitments = s.commitments
    OBVIOUS
  <2> HIDE DEF new
  <2>7. signatures' = signatures \cup {new}
    BY <2>1 DEF new
  <2>8. ASSUME NEW x \in signatures'
        PROVE  /\ Cardinality(Committed(x.commitments)) >= Threshold
               /\ \A p \in Committed(x.commitments) : \E u \in used' : u.signer = p /\ u.data = x.data
    <3>1. CASE x = new
      BY <1>1, <2>4, <2>5, <2>6, <3>1
    <3>2. CASE x \in signatures
      BY <1>1, <3>2 DEF SignatureInv
    <3> QED BY <2>7, <3>1, <3>2
  <2> QED BY <2>8 DEF SignatureInv, Committed
<1> QED BY <1>2, <1>3, ZenonT(40) DEF Next, next_action, vars, history, StartSession, SendCommit, Respond,
             Idle, on_start, on_sign, on_message, on_complete, Restart

\* Two sets of more than half of the members have one in common.
LEMMA QuorumsMeet ==
  ASSUME NEW A \in SUBSET Member, NEW B \in SUBSET Member, 2 * Threshold > N,
         Cardinality(A) >= Threshold, Cardinality(B) >= Threshold
  PROVE  A \cap B # {}
<1>1. IsFiniteSet(Member) /\ Cardinality(Member) = N
  BY ThresholdAssumption, FS_Interval DEF Member
<1>2. Cardinality(A) \in Nat /\ Cardinality(B) \in Nat
  BY <1>1, FS_Subset, FS_CardinalityType
<1>3. Cardinality(A) + Cardinality(B) > Cardinality(Member)
  BY <1>1, <1>2, ThresholdAssumption
<1> QED BY <1>1, <1>3, FS_MajoritiesIntersect

-----------------------------------------------------------------------------
(* Commitments *)

\* Losing a commitment, or nothing, keeps OneUse.
LEMMA UseDropped ==
  ASSUME NEW p \in Member, NEW c \in Member, OneUse(p, c),
         InFlight(p, c)' \subseteq InFlight(p, c), Asks(p, c)' \subseteq Asks(p, c),
         coordinator'[c].commitments[p] \in {coordinator[c].commitments[p], None},
         signer'[p].nonces[c] = signer[p].nonces[c],
         c \in coordinators'[p] => c \in coordinators[p]
  PROVE  OneUse(p, c)'
BY DEF OneUse

\* Without a commitment there is nothing to hold.
LEMMA UseNone ==
  ASSUME NEW p \in Member, NEW c \in Member,
         InFlight(p, c)' = {}, Asks(p, c)' = {}, coordinator'[c].commitments[p] = None
  PROVE  OneUse(p, c)'
BY DEF OneUse

\* A step that changes neither requests nor messages of p and c.
LEMMA UseSame ==
  ASSUME NEW p \in Member, NEW c \in Member, signer'[p] = signer[p]
  PROVE  Asks(p, c)' = Asks(p, c)
BY DEF Asks

\* What the operations on a coordinator do with the commitments.
LEMMA CommitmentFacts ==
  ASSUME TypeOK, NEW m \in Member
  PROVE  /\ AfterAggregate(m).commitments = coordinator[m].commitments
         /\ \A p \in Member : NewCoordinator(m).commitments[p] = None
         /\ \A co \in Coordinator, peer \in Member, nonce \in Nonce, p \in Member :
              p # peer => on_commit(co, peer, nonce).commitments[p] = co.commitments[p]
         /\ \A co \in Coordinator, peer \in Member, nonce \in Nonce : \A id, share :
              \A p \in Member :
                p # peer => on_response(co, peer, id, share, nonce).commitments[p] = co.commitments[p]
<1>1. AfterAggregate(m).commitments = coordinator[m].commitments
  BY DEF AfterAggregate, TypeOK, Coordinator
<1>2. \A p \in Member : NewCoordinator(m).commitments[p] = None
  BY DEF NewCoordinator, Empty
<1>3. ASSUME NEW co \in Coordinator, NEW peer \in Member, NEW nonce \in Nonce,
             NEW p \in Member, p # peer
      PROVE  on_commit(co, peer, nonce).commitments[p] = co.commitments[p]
  BY <1>3 DEF on_commit, Coordinator, Commitments
<1>4. ASSUME NEW co \in Coordinator, NEW peer \in Member, NEW nonce \in Nonce, NEW id, NEW share,
             NEW p \in Member, p # peer
      PROVE  on_response(co, peer, id, share, nonce).commitments[p] = co.commitments[p]
  <2> DEFINE ss == {IF s.id = id THEN on_signature_share(s, peer, share) ELSE s : s \in co.sessions}
  <2>1. \/ on_response(co, peer, id, share, nonce) = co
        \/ on_response(co, peer, id, share, nonce) =
             [co EXCEPT !.commitments[peer] = nonce, !.sessions = ss]
    BY DEF on_response
  <2> HIDE DEF ss
  <2> QED BY <1>4, <2>1 DEF Coordinator, Commitments
<1> QED BY <1>1, <1>2, <1>3, <1>4

\* Completing keeps it: the coordinator forgets its commitments.
LEMMA CompleteUse ==
  ASSUME TypeOK, NEW m \in Member, Complete(m), NEW p \in Member, NEW c \in Member, OneUse(p, c)
  PROVE  OneUse(p, c)'
<1>1. coordinator' = [coordinator EXCEPT ![m] = [NewCoordinator(m) EXCEPT !.active = FALSE]]
  BY DEF Complete
<1>2. coordinator'[c].commitments[p] \in {coordinator[c].commitments[p], None}
  BY <1>1 DEF TypeOK, NewCoordinator, Empty
<1>3. net' = net /\ signer' = signer /\ coordinators' = coordinators
  BY DEF Complete
<1>4. InFlight(p, c)' = InFlight(p, c) /\ Asks(p, c)' = Asks(p, c)
  BY <1>3 DEF InFlight, Asks
<1> QED BY <1>2, <1>3, <1>4, UseDropped

\* Starting a session turns the commitments it takes into requests.
LEMMA StartSessionUse ==
  ASSUME TypeOK, NEW m \in Member, StartSession(m), NEW p \in Member, NEW c \in Member, OneUse(p, c)
  PROVE  OneUse(p, c)'
<1> DEFINE co == AfterAggregate(m)
           chosen == Chosen(co.commitments)
<1>1. co \in Coordinator /\ chosen \in Commitments /\ co.commitments = coordinator[m].commitments
  BY AfterAggregateType, ChosenType, CommitmentFacts DEF Coordinator
<1>2. \A q \in Member : chosen[q] \in {coordinator[m].commitments[q], None}
  BY <1>1, ChosenType DEF Coordinator
<1>3. coordinator' = [coordinator EXCEPT ![m] = start_session(co)]
  BY DEF StartSession
<1>4. net' = net \cup {Sign(m, q, co.session_id, chosen) : q \in Committed(chosen) \ {m}}
  BY DEF StartSession
<1>5. signer' = [signer EXCEPT ![m] =
        IF chosen[m] # None THEN sign(@, m, co.session_id, chosen) ELSE @]
  BY DEF StartSession
<1>6. coordinators' = coordinators
  BY DEF StartSession
<1>7. \A q \in Member : start_session(co).commitments[q] =
        IF chosen[q] = None THEN coordinator[m].commitments[q] ELSE None
  <2> DEFINE rest == [q \in Member |-> IF chosen[q] = None THEN co.commitments[q] ELSE None]
  <2>1. start_session(co).commitments = rest
    BY <1>1 DEF start_session, Coordinator
  <2> QED BY <1>1, <2>1
<1> HIDE DEF co, chosen
<1> DEFINE r == [coordinator |-> m, id |-> co.session_id, commitments |-> chosen]
<1>8. sign(signer[m], m, co.session_id, chosen) =
        [signer[m] EXCEPT !.requests = Append(@, r)]
  BY DEF sign
<1>9. /\ signer[m].requests \in Seq(Request) /\ r \in Request /\ r.coordinator = m
      /\ Len(signer[m].requests) \in Nat
  <2>1. r \in Request /\ r.coordinator = m
    BY <1>1 DEF Request, Coordinator
  <2>2. signer[m].requests \in Seq(Request)
    BY DEF TypeOK, Signer
  <2> QED BY <2>1, <2>2
<1>10. \A q \in Member : /\ Sign(m, q, co.session_id, chosen).type = "Sign"
                         /\ Sign(m, q, co.session_id, chosen).from = m
                         /\ Sign(m, q, co.session_id, chosen).to = q
  BY DEF Sign
<1>11. signer'[p].nonces = signer[p].nonces
  BY <1>5, <1>8 DEF TypeOK, Signer
<1>12. CASE c = m /\ chosen[p] # None
  <2>1. coordinator[m].commitments[p] # None
    BY <1>2, <1>12
  <2>2. InFlight(p, m) = {} /\ Asks(p, m) = {}
    BY <1>12, <2>1 DEF OneUse
  <2>3. signer[p].nonces[m] # None /\ m \notin coordinators[p]
    BY <1>12, <2>1 DEF OneUse
  <2>4. coordinator'[m].commitments[p] = None
    BY <1>3, <1>7, <1>12 DEF TypeOK
  <2>5. CASE p # m
    <3>1. signer'[p] = signer[p]
      BY <1>5, <2>5 DEF TypeOK
    <3>2. Asks(p, m)' = {}
      BY <2>2, <3>1 DEF Asks
    <3>3. InFlight(p, m)' \subseteq {Sign(m, p, co.session_id, chosen)}
      BY <1>4, <1>10, <2>2, <2>5 DEF InFlight, Committed
    <3> QED BY <1>6, <1>11, <1>12, <2>3, <2>4, <3>2, <3>3 DEF OneUse
  <2>6. CASE p = m
    <3>1. InFlight(p, m)' = {}
      <4>1. ASSUME NEW x \in InFlight(p, m)' PROVE FALSE
        <5>1. x \in net
          BY <1>4, <1>10, <2>6, <4>1 DEF InFlight, Committed
        <5> QED BY <2>2, <4>1, <5>1 DEF InFlight
      <4> QED BY <4>1
    <3>2. signer'[m].requests = Append(signer[m].requests, r)
      BY <1>5, <1>8, <1>12, <2>6 DEF TypeOK, Signer
    <3>3. ASSUME NEW i \in Asks(p, m)' PROVE i = Len(signer[m].requests) + 1
      <4>1. /\ i \in 1 .. Len(signer[m].requests) + 1
            /\ Append(signer[m].requests, r)[i].coordinator = m
        BY <1>9, <2>6, <3>2, <3>3 DEF Asks
      <4>2. CASE i \in 1 .. Len(signer[m].requests)
        <5>1. Append(signer[m].requests, r)[i] = signer[m].requests[i]
          BY <1>9, <4>2
        <5> QED BY <1>9, <2>2, <2>6, <4>1, <4>2, <5>1 DEF Asks
      <4> QED BY <1>9, <4>1, <4>2
    <3> QED BY <1>6, <1>11, <1>12, <2>3, <2>4, <2>6, <3>1, <3>3 DEF OneUse
  <2> QED BY <2>5, <2>6
<1>13. CASE ~(c = m /\ chosen[p] # None)
  <2>1. coordinator'[c].commitments[p] = coordinator[c].commitments[p]
    BY <1>3, <1>7, <1>13 DEF TypeOK
  <2>2. InFlight(p, c)' \subseteq InFlight(p, c)
    BY <1>4, <1>10, <1>13 DEF InFlight, Committed
  <2>3. Asks(p, c)' \subseteq Asks(p, c)
    <3>1. CASE signer'[p] = signer[p]
      BY <3>1, UseSame
    <3>2. CASE p = m /\ c # m /\ signer'[m].requests = Append(signer[m].requests, r)
      <4>1. ASSUME NEW i \in Asks(p, c)' PROVE i \in Asks(p, c)
        <5>1. /\ i \in 1 .. Len(signer[m].requests) + 1
              /\ Append(signer[m].requests, r)[i].coordinator = c
          BY <1>9, <3>2, <4>1 DEF Asks
        <5>2. i # Len(signer[m].requests) + 1
          BY <1>9, <3>2, <5>1
        <5>3. i \in 1 .. Len(signer[m].requests)
          BY <1>9, <5>1, <5>2
        <5>4. Append(signer[m].requests, r)[i] = signer[m].requests[i]
          BY <1>9, <5>3
        <5> QED BY <1>9, <3>2, <5>1, <5>3, <5>4 DEF Asks
      <4> QED BY <4>1
    <3>3. signer'[p] = signer[p] \/ (p = m /\ c # m /\ signer'[m].requests = Append(signer[m].requests, r))
      BY <1>5, <1>8, <1>13 DEF TypeOK, Signer
    <3> QED BY <3>1, <3>2, <3>3
  <2> QED BY <1>6, <1>11, <2>1, <2>2, <2>3, UseDropped
<1> QED BY <1>12, <1>13

\* Committing to a coordinator: there was no commitment to it before.
LEMMA SendCommitUse ==
  ASSUME TypeOK, NEW m \in Member, SendCommit(m), NEW p \in Member, NEW c \in Member, OneUse(p, c)
  PROVE  OneUse(p, c)'
<1> DEFINE co == AfterAggregate(m)
           nonce == <<m, minted[m]>>
<1>1. PICK d \in coordinators[m] :
        /\ coordinators' = [coordinators EXCEPT ![m] = @ \ {d}]
        /\ signer' = [signer EXCEPT ![m].nonces[d] = nonce]
        /\ coordinator' = [coordinator EXCEPT ![m] =
             IF d = m THEN on_commit(co, m, nonce) ELSE co]
        /\ net' = IF d = m THEN net ELSE net \cup {Commit(m, d, nonce)}
  BY DEF SendCommit, commit
<1>2. d \in Member /\ nonce \in Nonce /\ nonce # None
  BY ThresholdAssumption DEF TypeOK, Nonce
<1>3. co \in Coordinator /\ co.commitments = coordinator[m].commitments
  BY AfterAggregateType, CommitmentFacts
<1>a. \A x \in Coordinator, n \in Nonce : \A q \in Member :
        q # m => on_commit(x, m, n).commitments[q] = x.commitments[q]
  BY CommitmentFacts
<1> HIDE DEF co, nonce
<1>4. \A q \in Member : q # m => on_commit(co, m, nonce).commitments[q] = coordinator[m].commitments[q]
  BY <1>2, <1>3, <1>a
<1>5. /\ Commit(m, d, nonce).type = "Commit" /\ Commit(m, d, nonce).from = m
      /\ Commit(m, d, nonce).to = d
  BY DEF Commit
<1>6. signer'[p].requests = signer[p].requests
  BY <1>1, <1>2 DEF TypeOK, Signer
<1>7. Asks(p, c)' = Asks(p, c)
  BY <1>6 DEF Asks
<1>8. CASE p = m /\ c = d
  <2>1. InFlight(p, c) = {} /\ Asks(p, c) = {} /\ coordinator[c].commitments[p] = None
    BY <1>8 DEF OneUse
  <2>2. signer'[p].nonces[c] # None /\ c \notin coordinators'[p]
    BY <1>1, <1>2, <1>8 DEF TypeOK, Signer, Commitments
  <2>3. CASE d = m
    <3>1. InFlight(p, c)' = {}
      BY <1>1, <2>1, <2>3 DEF InFlight
    <3> QED BY <1>7, <2>1, <2>2, <3>1 DEF OneUse
  <2>4. CASE d # m
    <3>1. InFlight(p, c)' \subseteq {Commit(m, d, nonce)}
      BY <1>1, <2>1 DEF InFlight
    <3>2. coordinator'[c] = coordinator[c]
      BY <1>1, <1>8, <2>4 DEF TypeOK
    <3> QED BY <1>7, <2>1, <2>2, <3>1, <3>2 DEF OneUse
  <2> QED BY <2>3, <2>4
<1>9. CASE ~(p = m /\ c = d)
  <2>1. InFlight(p, c)' \subseteq InFlight(p, c)
    BY <1>1, <1>5, <1>9 DEF InFlight
  <2>2. coordinator'[c].commitments[p] = coordinator[c].commitments[p]
    BY <1>1, <1>3, <1>4, <1>9 DEF TypeOK
  <2>3. signer'[p].nonces[c] = signer[p].nonces[c]
    BY <1>1, <1>2, <1>9 DEF TypeOK, Signer, Commitments
  <2>4. coordinators'[p] \subseteq coordinators[p]
    BY <1>1 DEF TypeOK
  <2> QED BY <1>7, <2>1, <2>2, <2>3, <2>4, UseDropped
<1> QED BY <1>8, <1>9

\* The requests of coordinator c that are left after the first i were taken up.
Left(s, i, c) ==
  {j \in DOMAIN consume(s, i).requests : consume(s, i).requests[j].coordinator = c}

OneRequest(s, c) ==
  \A j, k \in DOMAIN s.requests :
    s.requests[j].coordinator = c /\ s.requests[k].coordinator = c => j = k

NotServed(s, i, c) == \A j \in 1 .. i : s.requests[j].coordinator # c

\* What taking up the first i requests leaves: of a coordinator that was served, none.
LEMMA ConsumeUse ==
  ASSUME NEW s \in Signer, NEW i \in 0 .. Len(s.requests), NEW c \in Member, OneRequest(s, c)
  PROVE  /\ \A j, k \in Left(s, i, c) : j = k
         /\ Left(s, i, c) # {} =>
              NotServed(s, i, c) /\ \E k \in DOMAIN s.requests : s.requests[k].coordinator = c
         /\ NotServed(s, i, c) => consume(s, i).nonces[c] = s.nonces[c]
<1> DEFINE served == {s.requests[j].coordinator : j \in 1 .. i}
           nonces == [p \in Member |-> IF p \in served THEN None ELSE s.nonces[p]]
           requests == SubSeq(s.requests, i + 1, Len(s.requests))
           n == Len(s.requests)
<1>1. s.requests \in Seq(Request) /\ i \in Nat /\ n \in Nat /\ i <= n /\ DOMAIN s.requests = 1 .. n
  BY DEF Signer
<1>2. Len(requests) = n - i /\ DOMAIN requests = 1 .. n - i
  BY <1>1
<1>3. \A j \in 1 .. n - i : requests[j] = s.requests[j + i] /\ j + i \in 1 .. n
  BY <1>1, <1>2
<1>4. consume(s, i) = [s EXCEPT !.requests = requests, !.nonces = nonces]
  BY DEF consume
<1>5. NotServed(s, i, c) => nonces[c] = s.nonces[c]
  BY DEF NotServed
<1> HIDE DEF requests, nonces, n
<1>6. consume(s, i).requests = requests /\ consume(s, i).nonces = nonces
  BY <1>4 DEF Signer
<1>7. ASSUME NEW j \in 1 .. n - i, NEW k \in 1 .. n - i,
             requests[j].coordinator = c, requests[k].coordinator = c
      PROVE  j = k
  <2>1. j + i = k + i
    BY <1>1, <1>3, <1>7 DEF OneRequest
  <2> QED BY <1>1, <2>1
<1>8. ASSUME NEW j \in 1 .. n - i, requests[j].coordinator = c
      PROVE  /\ \E k \in DOMAIN s.requests : s.requests[k].coordinator = c
             /\ NotServed(s, i, c)
  <2>1. j + i \in 1 .. n /\ s.requests[j + i].coordinator = c
    BY <1>3, <1>8
  <2>2. ASSUME NEW k \in 1 .. i, s.requests[k].coordinator = c PROVE FALSE
    <3>1. k = j + i
      BY <1>1, <2>1, <2>2 DEF OneRequest
    <3> QED BY <1>1, <3>1
  <2> QED BY <1>1, <2>1, <2>2 DEF NotServed
<1>9. Left(s, i, c) = {j \in 1 .. n - i : requests[j].coordinator = c}
  BY <1>2, <1>6 DEF Left
<1> QED BY <1>5, <1>6, <1>7, <1>8, <1>9

\* Taking up requests without an answer keeps it for every coordinator.
LEMMA ConsumedUse ==
  ASSUME TypeOK, NEW p \in Member, NEW c \in Member, OneUse(p, c),
         NEW i \in 0 .. Len(signer[p].requests),
         signer'[p].requests = consume(signer[p], i).requests,
         signer'[p].nonces[c] = consume(signer[p], i).nonces[c],
         InFlight(p, c)' = InFlight(p, c), coordinators'[p] = coordinators[p],
         coordinator'[c].commitments[p] = coordinator[c].commitments[p]
  PROVE  OneUse(p, c)'
<1> DEFINE s == signer[p]
<1>1. s \in Signer /\ DOMAIN s.requests = 1 .. Len(s.requests) /\ Len(s.requests) \in Nat
  BY DEF TypeOK, Signer
<1>a. i \in 0 .. Len(s.requests)
  OBVIOUS
<1>2. OneRequest(s, c)
  BY DEF OneUse, Asks, OneRequest
<1>3. /\ \A j, k \in Asks(p, c)' : j = k
      /\ Asks(p, c)' # {} =>
           NotServed(s, i, c) /\ \E k \in DOMAIN s.requests : s.requests[k].coordinator = c
      /\ NotServed(s, i, c) => signer'[p].nonces[c] = s.nonces[c]
  <2>1. Asks(p, c)' = Left(s, i, c)
    BY DEF Asks, Left
  <2> HIDE DEF s
  <2>2. /\ \A j, k \in Left(s, i, c) : j = k
        /\ Left(s, i, c) # {} =>
             NotServed(s, i, c) /\ \E k \in DOMAIN s.requests : s.requests[k].coordinator = c
        /\ NotServed(s, i, c) => consume(s, i).nonces[c] = s.nonces[c]
    BY <1>a, <1>1, <1>2, ConsumeUse
  <2>3. signer'[p].nonces[c] = consume(s, i).nonces[c]
    BY DEF s
  <2> QED BY <2>1, <2>2, <2>3
<1>4. Asks(p, c)' # {} => Asks(p, c) # {}
  <2>1. (\E k \in DOMAIN s.requests : s.requests[k].coordinator = c) => Asks(p, c) # {}
    BY DEF Asks
  <2> QED BY <1>3, <2>1
<1>5. CASE ~NotServed(s, i, c)
  <2>1. Asks(p, c) # {}
    BY <1>1, <1>5 DEF Asks, NotServed
  <2>2. Asks(p, c)' = {}
    BY <1>3, <1>5
  <2> QED BY <2>1, <2>2, UseNone DEF OneUse
<1>6. CASE NotServed(s, i, c)
  BY <1>3, <1>4, <1>6 DEF OneUse
<1> QED BY <1>5, <1>6

\* Answering a request turns it into the commitment that comes with the answer.
LEMMA RespondUse ==
  ASSUME TypeOK, NEW m \in Member, Respond(m), NEW p \in Member, NEW c \in Member, OneUse(p, c)
  PROVE  OneUse(p, c)'
<1> DEFINE co == AfterAggregate(m)
           nonce == <<m, minted[m]>>
           r(i) == signer[m].requests[i]
           share(i) == [signer |-> m, nonce |-> signer[m].nonces[r(i).coordinator],
                        commitments |-> r(i).commitments, data |-> signer[m].data]
<1>1. PICK i \in DOMAIN signer[m].requests :
        /\ signer' = [signer EXCEPT ![m] =
             [consume(@, i) EXCEPT !.nonces[r(i).coordinator] = nonce]]
        /\ coordinator' = [coordinator EXCEPT ![m] =
             IF r(i).coordinator = m THEN on_response(co, m, r(i).id, share(i), nonce) ELSE co]
        /\ net' = IF r(i).coordinator = m THEN net
                  ELSE net \cup {Signature(m, r(i).coordinator, r(i).id, share(i), nonce)}
  BY DEF Respond, commit
<1>2. /\ r(i) \in Request /\ i \in 0 .. Len(signer[m].requests) /\ nonce \in Nonce /\ nonce # None
      /\ i \in 1 .. i
  BY ThresholdAssumption DEF TypeOK, Signer, Nonce
<1> DEFINE d == r(i).coordinator
           msg == Signature(m, d, r(i).id, share(i), nonce)
           response == on_response(co, m, r(i).id, share(i), nonce)
<1>3. d \in Member
  BY <1>2 DEF Request
<1>4. co \in Coordinator /\ co.commitments = coordinator[m].commitments
  BY AfterAggregateType, CommitmentFacts
<1>a. \A x \in Coordinator, n \in Nonce : \A id, sh : \A q \in Member :
        q # m => on_response(x, m, id, sh, n).commitments[q] = x.commitments[q]
  BY CommitmentFacts
<1> HIDE DEF co, nonce, share
<1>5. \A q \in Member : q # m => response.commitments[q] = coordinator[m].commitments[q]
  BY <1>2, <1>4, <1>a
<1>6. msg.type = "Signature" /\ msg.from = m /\ msg.to = d
  BY DEF Signature
<1>7. consume(signer[m], i) \in Signer
  BY <1>2, ConsumeType DEF TypeOK
<1>8. coordinators' = coordinators /\ coordinators[m] = {}
  BY DEF Respond
<1> HIDE DEF msg, response
<1>9. /\ coordinator' = [coordinator EXCEPT ![m] = IF d = m THEN response ELSE co]
      /\ net' = IF d = m THEN net ELSE net \cup {msg}
      /\ signer' = [signer EXCEPT ![m] = [consume(@, i) EXCEPT !.nonces[d] = nonce]]
  BY <1>1 DEF msg, response
<1> HIDE DEF r, d
<1>10. /\ signer'[m].requests = consume(signer[m], i).requests
       /\ signer'[m].nonces[d] = nonce
       /\ \A e \in Member : e # d => signer'[m].nonces[e] = consume(signer[m], i).nonces[e]
  BY <1>3, <1>7, <1>9 DEF TypeOK, Signer, Commitments
<1>11. CASE p # m
  <2>1. signer'[p] = signer[p]
    BY <1>9, <1>11 DEF TypeOK
  <2>2. InFlight(p, c)' \subseteq InFlight(p, c)
    BY <1>6, <1>9, <1>11 DEF InFlight
  <2>3. coordinator'[c].commitments[p] = coordinator[c].commitments[p]
    BY <1>4, <1>5, <1>9, <1>11 DEF TypeOK
  <2> QED BY <1>8, <2>1, <2>2, <2>3, UseDropped, UseSame
<1>12. CASE p = m /\ c # d
  <2>1. InFlight(p, c)' = InFlight(p, c)
    BY <1>6, <1>9, <1>12 DEF InFlight
  <2>2. coordinator'[c].commitments[p] = coordinator[c].commitments[p]
    BY <1>4, <1>9, <1>12 DEF TypeOK
  <2>3. signer'[p].nonces[c] = consume(signer[p], i).nonces[c]
    BY <1>10, <1>12
  <2> QED BY <1>2, <1>8, <1>10, <1>12, <2>1, <2>2, <2>3, ConsumedUse
<1>13. CASE p = m /\ c = d
  <2>1. i \in Asks(p, c)
    BY <1>13 DEF Asks, d, r
  <2>2. InFlight(p, c) = {} /\ coordinator[c].commitments[p] = None
    BY <1>13, <2>1 DEF OneUse
  <2>3. Asks(p, c)' = {}
    <3>1. Asks(p, c)' = Left(signer[p], i, c)
      BY <1>10, <1>13 DEF Asks, Left
    <3>2. OneRequest(signer[p], c)
      BY DEF OneUse, Asks, OneRequest
    <3>3. Left(signer[p], i, c) # {} => NotServed(signer[p], i, c)
      BY <1>2, <1>13, <3>2, ConsumeUse DEF TypeOK
    <3> QED BY <1>2, <1>13, <3>1, <3>3 DEF NotServed, d, r
  <2>4. signer'[p].nonces[c] # None /\ c \notin coordinators'[p]
    BY <1>2, <1>8, <1>10, <1>13
  <2>5. CASE d = m
    <3>1. InFlight(p, c)' = {}
      BY <1>9, <1>13, <2>2, <2>5 DEF InFlight
    <3> QED BY <1>13, <2>3, <2>4, <3>1 DEF OneUse
  <2>6. CASE d # m
    <3>1. InFlight(p, c)' \subseteq {msg}
      BY <1>9, <2>2 DEF InFlight
    <3>2. coordinator'[c] = coordinator[c]
      BY <1>9, <1>13, <2>6 DEF TypeOK
    <3> QED BY <1>13, <2>2, <2>3, <2>4, <3>1, <3>2 DEF OneUse
  <2> QED BY <2>5, <2>6
<1> QED BY <1>11, <1>12, <1>13

\* The end of the loop takes all requests up, once there is data.
LEMMA IdleUse ==
  ASSUME TypeOK, NEW m \in Member, Idle(m), NEW p \in Member, NEW c \in Member, OneUse(p, c)
  PROVE  OneUse(p, c)'
<1> DEFINE co == AfterAggregate(m)
           n == Len(signer[m].requests)
<1>1. co.commitments = coordinator[m].commitments
  BY CommitmentFacts
<1>2. /\ coordinator' = [coordinator EXCEPT ![m] = co]
      /\ signer' = [signer EXCEPT ![m] = IF @.data = None THEN @ ELSE consume(@, n)]
      /\ net' = net /\ coordinators' = coordinators
  BY DEF Idle
<1>3. n \in 0 .. n
  BY DEF TypeOK, Signer
<1> HIDE DEF co
<1>4. coordinator'[c].commitments[p] = coordinator[c].commitments[p]
  BY <1>1, <1>2 DEF TypeOK
<1>5. InFlight(p, c)' = InFlight(p, c)
  BY <1>2 DEF InFlight
<1>6. CASE signer'[p] = signer[p]
  BY <1>2, <1>4, <1>5, <1>6, UseDropped, UseSame
<1>7. CASE p = m /\ signer'[m] = consume(signer[m], n)
  BY <1>2, <1>3, <1>4, <1>5, <1>7, ConsumedUse
<1> QED BY <1>2, <1>6, <1>7 DEF TypeOK

\* Starting the session keeps it: a member that had not started had committed to nobody.
LEMMA StartUse ==
  ASSUME TypeOK, NEW m \in Member, on_start(m), NotStarted(m),
         NEW p \in Member, NEW c \in Member, OneUse(p, c)
  PROVE  OneUse(p, c)'
<1>1. /\ signer' = [signer EXCEPT ![m] = NewSigner]
      /\ coordinator' = [coordinator EXCEPT ![m] = NewCoordinator(m)]
      /\ coordinators' = [coordinators EXCEPT ![m] = Coordinators]
      /\ net' = net
  BY DEF on_start, NewSession
<1>2. InFlight(p, c)' = InFlight(p, c)
  BY <1>1 DEF InFlight
<1>3. coordinator'[c].commitments[p] \in {coordinator[c].commitments[p], None}
  BY <1>1, CommitmentFacts, ZenonT(40) DEF TypeOK
<1>4. CASE p # m
  <2>1. signer'[p] = signer[p] /\ coordinators'[p] = coordinators[p]
    BY <1>1, <1>4 DEF TypeOK
  <2> QED BY <1>2, <1>3, <2>1, UseDropped, UseSame
<1>5. CASE p = m
  <2>1. signer[p].nonces[c] = None
    BY <1>5 DEF NotStarted, on_start
  <2>2. InFlight(p, c) = {} /\ coordinator[c].commitments[p] = None
    BY <2>1 DEF OneUse
  <2>3. signer'[p].requests = <<>>
    BY <1>1, <1>5 DEF TypeOK, NewSigner
  <2>4. Asks(p, c)' = {}
    BY <2>3 DEF Asks
  <2> QED BY <1>2, <1>3, <2>2, <2>4, UseNone
<1> QED BY <1>4, <1>5

\* Handing the executor's data over touches no commitment.
LEMMA SignUse ==
  ASSUME TypeOK, NEW m \in Member, NEW d \in DataOf[m], on_sign(m, d),
         NEW p \in Member, NEW c \in Member, OneUse(p, c)
  PROVE  OneUse(p, c)'
<1>1. /\ signer' = [signer EXCEPT ![m].data = d]
      /\ coordinator' = coordinator /\ coordinators' = coordinators /\ net' = net
  BY DEF on_sign
<1>2. signer'[p].requests = signer[p].requests /\ signer'[p].nonces = signer[p].nonces
  BY <1>1 DEF TypeOK, Signer
<1>3. InFlight(p, c)' = InFlight(p, c) /\ Asks(p, c)' = Asks(p, c)
  BY <1>1, <1>2 DEF InFlight, Asks
<1> QED BY <1>1, <1>2, <1>3, UseDropped

\* A message that arrives becomes the commitment or the request it carries, or is dropped.
LEMMA MessageUse ==
  ASSUME TypeOK, NEW m \in Member, NEW msg \in net, on_message(m, msg),
         NEW p \in Member, NEW c \in Member, OneUse(p, c)
  PROVE  OneUse(p, c)'
<1>1. net' = net \ {msg} /\ coordinators' = coordinators /\ msg.to = m
  BY DEF on_message, roast
<1>2. InFlight(p, c)' \subseteq InFlight(p, c)
  BY <1>1 DEF InFlight
<1>3. msg \in InFlight(p, c) => InFlight(p, c)' = {}
  BY <1>1 DEF InFlight, OneUse
<1>4. CASE m \notin session
  <2>1. signer' = signer /\ coordinator' = coordinator
    BY <1>4 DEF on_message, roast
  <2> QED BY <1>1, <1>2, <2>1, UseDropped, UseSame
<1>5. CASE m \in session /\ msg.type \in {"Commit", "Signature"}
  <2>1. signer' = signer
    BY <1>5 DEF on_message
  <2>2. Asks(p, c)' = Asks(p, c)
    BY <2>1, UseSame
  <2>3. CASE p = msg.from /\ c = m
    <3>1. msg \in InFlight(p, c)
      BY <1>1, <1>5, <2>3 DEF InFlight
    <3> QED BY <1>1, <1>3, <2>1, <2>2, <3>1 DEF OneUse
  <2>4. CASE c # m
    <3>1. coordinator'[c] = coordinator[c]
      BY <1>5, <2>4 DEF on_message, TypeOK
    <3> QED BY <1>1, <1>2, <2>1, <2>2, <3>1, UseDropped
  <2>5. CASE c = m /\ p # msg.from
    <3>1. coordinator'[m].commitments[p] = coordinator[m].commitments[p]
      <4>1. CASE msg.type = "Commit"
        <5>1. msg.from \in Member /\ msg.nonce \in Nonce
          BY <4>1 DEF TypeOK, CommitMessage, SignMessage, SignatureMessage
        <5>2. coordinator'[m] = on_commit(coordinator[m], msg.from, msg.nonce)
          BY <1>5, <4>1 DEF on_message, TypeOK
        <5>3. coordinator[m] \in Coordinator
          BY DEF TypeOK
        <5> QED BY <2>5, <5>1, <5>2, <5>3, CommitmentFacts
      <4>2. CASE msg.type = "Signature"
        <5>1. msg.from \in Member /\ msg.nonce \in Nonce
          BY <4>2 DEF TypeOK, CommitMessage, SignMessage, SignatureMessage
        <5>2. coordinator'[m] =
                on_response(coordinator[m], msg.from, msg.id, msg.share, msg.nonce)
          BY <1>5, <4>2 DEF on_message, TypeOK
        <5>3. coordinator[m] \in Coordinator
          BY DEF TypeOK
        <5> QED BY <2>5, <5>1, <5>2, <5>3, CommitmentFacts
      <4> QED BY <1>5, <4>1, <4>2
    <3> QED BY <1>1, <1>2, <2>1, <2>2, <2>5, <3>1, UseDropped
  <2> QED BY <2>3, <2>4, <2>5
<1>6. CASE m \in session /\ msg.type = "Sign"
  <2> DEFINE s == signer[m]
             n == Len(s.requests)
             request == [coordinator |-> msg.from, id |-> msg.id, commitments |-> msg.commitments]
  <2>1. coordinator' = coordinator
    BY <1>6 DEF on_message, TypeOK
  <2>2. s \in Signer /\ msg.from \in Member /\ msg.id \in Nat /\ msg.commitments \in Commitments
    BY <1>6 DEF TypeOK, CommitMessage, SignMessage, SignatureMessage
  <2>3. signer' = [signer EXCEPT ![m] = sign(@, msg.from, msg.id, msg.commitments)]
    BY <1>6 DEF on_message
  <2>4. sign(s, msg.from, msg.id, msg.commitments) = [s EXCEPT !.requests = Append(@, request)]
    BY DEF sign
  <2>5. n \in Nat /\ DOMAIN s.requests = 1 .. n /\ s.requests \in Seq(Request)
    BY <2>2 DEF Signer
  <2>6. request.coordinator = msg.from /\ request \in Request
    BY <2>2 DEF Request
  <2> HIDE DEF request
  <2>7. /\ signer'[m].requests = Append(s.requests, request)
        /\ signer'[m].nonces = s.nonces
        /\ \A k \in Member : k # m => signer'[k] = signer[k]
    BY <2>2, <2>3, <2>4 DEF TypeOK, Signer
  <2>8. /\ DOMAIN Append(s.requests, request) = 1 .. n + 1
        /\ \A i \in 1 .. n : Append(s.requests, request)[i] = s.requests[i]
        /\ Append(s.requests, request)[n + 1] = request
    BY <2>5, <2>6
  <2>9. signer'[p].nonces = signer[p].nonces
    BY <2>7
  <2>10. CASE p # m
    BY <1>1, <1>2, <2>1, <2>7, <2>10, UseDropped, UseSame
  <2>11. CASE p = m /\ c # msg.from
    <3>1. Asks(p, c)' \subseteq Asks(p, c)
      <4>1. ASSUME NEW i \in Asks(p, c)' PROVE i \in Asks(p, c)
        <5>1. i \in 1 .. n + 1 /\ Append(s.requests, request)[i].coordinator = c
          BY <2>7, <2>8, <2>11, <4>1 DEF Asks
        <5>2. i # n + 1
          BY <2>6, <2>8, <2>11, <5>1
        <5>3. i \in 1 .. n
          BY <2>5, <5>1, <5>2
        <5> QED BY <2>5, <2>8, <2>11, <5>1, <5>3 DEF Asks
      <4> QED BY <4>1
    <3> QED BY <1>1, <1>2, <2>1, <2>9, <3>1, UseDropped
  <2>12. CASE p = m /\ c = msg.from
    <3>1. msg \in InFlight(p, c)
      BY <1>1, <1>6, <2>12 DEF InFlight
    <3>2. Asks(p, c) = {} /\ coordinator[c].commitments[p] = None
      BY <3>1 DEF OneUse
    <3>3. ASSUME NEW i \in Asks(p, c)' PROVE i = n + 1
      <4>1. i \in 1 .. n + 1 /\ Append(s.requests, request)[i].coordinator = c
        BY <2>7, <2>8, <2>12, <3>3 DEF Asks
      <4>2. CASE i \in 1 .. n
        BY <2>5, <2>8, <2>12, <3>2, <4>1, <4>2 DEF Asks
      <4> QED BY <2>5, <4>1, <4>2
    <3>4. \A i, j \in Asks(p, c)' : i = j
      BY <3>3
    <3> QED BY <1>1, <1>3, <2>1, <2>9, <3>1, <3>2, <3>4 DEF OneUse
  <2> QED BY <2>10, <2>11, <2>12
<1>7. msg.type \in {"Commit", "Sign", "Signature"}
  BY DEF TypeOK, CommitMessage, SignMessage, SignatureMessage
<1> QED BY <1>4, <1>5, <1>6, <1>7

\* What the steps of the loop leave alone.
LEMMA NextActionFrame ==
  ASSUME TypeOK, NEW m \in Member, next_action(m)
  PROVE  /\ m \in polling /\ polling' \subseteq polling
         /\ session' = session /\ task' = task /\ restarted' = restarted
         /\ \A k \in Member : k # m => signer'[k] = signer[k]
<1>1. CASE Complete(m)
  BY <1>1 DEF Complete, tasks, next_action
<1>2. CASE StartSession(m)
  BY <1>2 DEF StartSession, tasks, next_action, TypeOK
<1>3. CASE SendCommit(m)
  BY <1>3 DEF SendCommit, tasks, next_action, TypeOK
<1>4. CASE Respond(m)
  <2>1. PICK c \in Member, id \in Nat, share \in SignatureShare : RespondEffect(m, c, id, share)
    BY <1>4, RespondFacts
  <2>2. \A k \in Member : k # m => signer'[k] = signer[k]
    BY <2>1 DEF RespondEffect
  <2> QED BY <1>4, <2>2 DEF Respond, tasks, next_action
<1>5. CASE Idle(m)
  BY <1>5 DEF Idle, tasks, next_action, TypeOK
<1> QED BY <1>1, <1>2, <1>3, <1>4, <1>5 DEF next_action

\* Every step keeps the invariant on commitments.
LEMMA CommitStep == TypeOK /\ CommitInv /\ [Next]_vars => CommitInv'
<1> SUFFICES ASSUME TypeOK, CommitInv, [Next]_vars, Undisturbed'
             PROVE  \A p \in Member : NotStarted(p)' /\ \A c \in Member : OneUse(p, c)'
  BY DEF CommitInv
<1> DEFINE Kept == \A p \in Member : NotStarted(p)' /\ \A c \in Member : OneUse(p, c)'
           Before == \A p \in Member : NotStarted(p) /\ \A c \in Member : OneUse(p, c)
<1>1. CASE UNCHANGED vars
  <2>1. Before
    BY <1>1 DEF CommitInv, Undisturbed, vars, tasks
  <2>2. ASSUME NEW p \in Member PROVE NotStarted(p)' /\ \A c \in Member : OneUse(p, c)'
    <3>1. NotStarted(p)'
      BY <1>1, <2>1 DEF NotStarted, vars, tasks, roast
    <3>2. ASSUME NEW c \in Member PROVE OneUse(p, c)'
      <4>1. InFlight(p, c)' = InFlight(p, c) /\ Asks(p, c)' = Asks(p, c)
        BY <1>1 DEF InFlight, Asks, vars, roast
      <4> QED BY <1>1, <2>1, <4>1, UseDropped DEF vars, roast
    <3> QED BY <3>1, <3>2
  <2> QED BY <2>2
<1>2. ASSUME NEW m \in Member, next_action(m) PROVE Kept
  <2>1. Before
    BY <1>2, NextActionFrame DEF CommitInv, Undisturbed
  <2>2. ASSUME NEW p \in Member PROVE NotStarted(p)'
    BY <1>2, <2>1, NextActionFrame DEF NotStarted
  <2>3. ASSUME NEW p \in Member, NEW c \in Member PROVE OneUse(p, c)'
    BY <1>2, <2>1, CompleteUse, StartSessionUse, SendCommitUse, RespondUse, IdleUse DEF next_action
  <2> QED BY <2>2, <2>3
<1>3. ASSUME NEW m \in Member, on_start(m) PROVE Kept
  <2>1. task' = [task EXCEPT ![m] = "running"] /\ task[m] = "no" /\ restarted' = restarted
    BY <1>3 DEF on_start
  <2>2. Before
    BY <2>1 DEF CommitInv, Undisturbed, TypeOK
  <2>3. ASSUME NEW p \in Member PROVE NotStarted(p)'
    BY <1>3, <2>1, <2>2 DEF NotStarted, on_start, NewSession, TypeOK
  <2>4. ASSUME NEW p \in Member, NEW c \in Member PROVE OneUse(p, c)'
    BY <1>3, <2>2, StartUse
  <2> QED BY <2>3, <2>4
<1>4. ASSUME NEW m \in Member, NEW d \in DataOf[m], on_sign(m, d) PROVE Kept
  <2>1. /\ task' = [task EXCEPT ![m] = IF @ = "late" THEN "done" ELSE "signing"]
        /\ task[m] \in {"running", "late"} /\ restarted' = restarted
    BY <1>4 DEF on_sign
  <2>2. Before
    BY <2>1 DEF CommitInv, Undisturbed, TypeOK
  <2>3. ASSUME NEW p \in Member PROVE NotStarted(p)'
    BY <1>4, <2>1, <2>2 DEF NotStarted, on_sign, TypeOK
  <2>4. ASSUME NEW p \in Member, NEW c \in Member PROVE OneUse(p, c)'
    BY <1>4, <2>2, SignUse
  <2> QED BY <2>3, <2>4
<1>5. ASSUME NEW m \in Member, NEW msg \in net, on_message(m, msg) PROVE Kept
  <2>1. task' = task /\ session' = session /\ restarted' = restarted
    BY <1>5 DEF on_message, tasks
  <2>2. Before
    BY <2>1 DEF CommitInv, Undisturbed
  <2>3. \A p \in Member : signer'[p].nonces = signer[p].nonces
    <3>1. CASE signer' = signer
      BY <3>1
    <3>2. CASE signer' = [signer EXCEPT ![m] = sign(@, msg.from, msg.id, msg.commitments)]
      BY <3>2 DEF TypeOK, Signer, sign
    <3> QED BY <1>5, <3>1, <3>2 DEF on_message, roast
  <2>4. polling' \subseteq polling \/ (m \in session /\ polling' = {m})
    BY <1>5 DEF on_message
  <2>5. ASSUME NEW p \in Member PROVE NotStarted(p)'
    BY <2>1, <2>2, <2>3, <2>4 DEF NotStarted
  <2>6. ASSUME NEW p \in Member, NEW c \in Member PROVE OneUse(p, c)'
    BY <1>5, <2>2, MessageUse
  <2> QED BY <2>5, <2>6
<1>6. ASSUME NEW m \in Member, Restart(m) PROVE FALSE
  BY <1>6 DEF Restart, Undisturbed
<1>7. ASSUME on_complete PROVE FALSE
  <2>1. 1 \in Member
    BY ThresholdAssumption DEF Member
  <2>2. task'[1] \in {"late", "done"}
    BY <1>7, <2>1 DEF on_complete
  <2> QED BY <2>1, <2>2 DEF Undisturbed
<1> QED BY <1>1, <1>2, <1>3, <1>4, <1>5, <1>6, <1>7 DEF Next

-----------------------------------------------------------------------------

\* The invariant holds of every reachable state.
THEOREM InvHolds == Spec => []Inv
<1>1. Init => Inv
  <2> SUFFICES ASSUME Init PROVE Inv
    OBVIOUS
  <2>1. TypeOK
    BY InitType
  <2>2. NonceInv
    BY DEF Init, NonceInv, NonceSignsOnce, NewSigner, Empty
  <2>3. ShareInv
    BY GoodNew DEF Init, ShareInv
  <2>4. DataInv
    BY DEF Init, DataInv, NewSigner
  <2>5. SignatureInv
    BY DEF Init, SignatureInv
  <2>6. CommitInv
    <3>1. ASSUME NEW p \in Member PROVE NotStarted(p) /\ \A c \in Member : OneUse(p, c)
      <4>1. signer[p] = NewSigner /\ net = {} /\ polling = {}
        BY DEF Init
      <4>2. NotStarted(p)
        BY <4>1 DEF Init, NotStarted, NewSigner, Empty
      <4>3. ASSUME NEW c \in Member PROVE OneUse(p, c)
        <5>1. InFlight(p, c) = {} /\ Asks(p, c) = {}
          BY <4>1 DEF InFlight, Asks, NewSigner
        <5>2. coordinator[c].commitments[p] = None
          BY DEF Init, NewCoordinator, Empty
        <5> QED BY <5>1, <5>2 DEF OneUse
      <4> QED BY <4>2, <4>3
    <3> QED BY <3>1 DEF CommitInv
  <2> QED BY <2>1, <2>2, <2>3, <2>4, <2>5, <2>6 DEF Inv
<1>2. Inv /\ [Next]_vars => Inv'
  BY TypeStep, NonceStep, ShareStep, DataStep, SignatureStep, CommitStep DEF Inv
<1> QED BY <1>1, <1>2, PTL DEF Spec

\* Every variable keeps its type.
THEOREM TypesHold == Spec => []TypeOK
<1>1. Inv => TypeOK
  BY DEF Inv
<1> QED BY <1>1, InvHolds, PTL

\* No nonce signs twice, whatever is lost, late or restarted (RoastSigner::message).
THEOREM NoncesSignOnce == Spec => []NonceSignsOnce
<1>1. Inv => NonceSignsOnce
  BY DEF Inv, NonceInv
<1> QED BY <1>1, InvHolds, PTL

\* RoastSigner::message finds the nonces of every request it takes up, as long as no
\* process restarts and the task is not completed, in whatever order messages arrive.
THEOREM CommitmentsHeld == Spec => []CommitmentHeld
<1>1. Inv => CommitmentHeld
  <2> SUFFICES ASSUME Inv, Undisturbed, NEW m \in Member, NEW i \in DOMAIN signer[m].requests
               PROVE  /\ signer[m].nonces[signer[m].requests[i].coordinator] # None
                      /\ \A j \in 1 .. i - 1 :
                           signer[m].requests[j].coordinator # signer[m].requests[i].coordinator
    BY DEF CommitmentHeld, Undisturbed
  <2> DEFINE c == signer[m].requests[i].coordinator
  <2>1. /\ c \in Member /\ DOMAIN signer[m].requests = 1 .. Len(signer[m].requests)
        /\ Len(signer[m].requests) \in Nat
    <3>1. signer[m].requests \in Seq(Request)
      BY DEF Inv, TypeOK, Signer
    <3>2. signer[m].requests[i] \in Request
      BY <3>1
    <3> QED BY <3>1, <3>2 DEF Request
  <2>2. OneUse(m, c)
    BY <2>1 DEF Inv, CommitInv
  <2>3. i \in Asks(m, c)
    BY DEF Asks
  <2>4. ASSUME NEW j \in 1 .. i - 1, signer[m].requests[j].coordinator = c PROVE FALSE
    <3>1. j \in Asks(m, c)
      BY <2>1, <2>4 DEF Asks
    <3>2. j = i
      BY <2>2, <2>3, <3>1 DEF OneUse
    <3> QED BY <2>1, <3>2
  <2>5. signer[m].nonces[c] # None
    BY <2>2, <2>3 DEF OneUse
  <2> QED BY <2>4, <2>5
<1> QED BY <1>1, InvHolds, PTL

\* The signatures of a session are of one payload, when more than half of the members
\* have to sign and none restarts.
THEOREM SessionsAgree == Spec => []SignaturesAgree
<1>1. Inv => SignaturesAgree
  <2> SUFFICES ASSUME Inv, NEW s \in signatures, NEW t \in signatures,
                      restarted = {}, ~(2 * Threshold <= N)
               PROVE  s.data = t.data
    BY DEF SignaturesAgree
  <2>1. 2 * Threshold > N
    BY ThresholdAssumption
  <2>2. /\ Cardinality(Committed(s.commitments)) >= Threshold
        /\ Cardinality(Committed(t.commitments)) >= Threshold
    BY DEF Inv, SignatureInv
  <2>3. Committed(s.commitments) \in SUBSET Member /\ Committed(t.commitments) \in SUBSET Member
    BY DEF Committed
  <2>4. PICK p \in Member : p \in Committed(s.commitments) /\ p \in Committed(t.commitments)
    BY <2>1, <2>2, <2>3, QuorumsMeet
  <2>5. PICK u \in used : u.signer = p /\ u.data = s.data
    BY <2>4 DEF Inv, SignatureInv
  <2>6. PICK v \in used : v.signer = p /\ v.data = t.data
    BY <2>4 DEF Inv, SignatureInv
  <2> QED BY <2>5, <2>6 DEF Inv, DataInv
<1> QED BY <1>1, InvHolds, PTL
=============================================================================
