----------------------------- MODULE AppendProofs -----------------------------
(***************************************************************************)
(* Proofs about Append, for every number of appends at a time, every Data  *)
(* in each, every number of retries, and a network that loses, delays and  *)
(* times out as it likes.                                                  *)
(***************************************************************************)
EXTENDS Append, TLAPS

------------------------------------------------------------------------------
(* The inductive invariant. *)

\* The application is told once, and there are retries left until it is.
ClientInv ==
  \A a \in Nonce :
    /\ succeeded[a] + failed[a] = IF phase[a] = "done" THEN 1 ELSE 0
    /\ phase[a] # "done" => retry[a] <= MAX_RETRIES + 1

\* No two sessions of the ledger share a nonce2.
SessionInv ==
  /\ \A s \in sessions : s.nonce2 <= lastNonce2
  /\ \A s, t \in sessions : s.nonce2 = t.nonce2 => s = t

\* The Data of an append is handed on as one token: a submission in flight,
\* then a session that validates it, then a call of m_onUpdate.  Its nonce2 is
\* the one the client has matched.
TokenInv ==
  \A a \in Nonce :
    /\ processed[a] <= 1
    /\ processed[a] = 1 => matched[a] > 0
    /\ \A x \in Nonce2 : Submission(a, x) \in net =>
         /\ matched[a] = x /\ processed[a] = 0
         /\ \A s \in sessions : s.nonce = a => s.step # "validating"
    /\ \A s \in sessions : s.nonce = a /\ s.step = "validating" =>
         matched[a] = s.nonce2 /\ processed[a] = 0

\* An ack of nothing but successes is true from the moment it is sent.
AckInv ==
  \A a \in Nonce :
    ack[a] = {SUCCESS} \/ Ack(a, {SUCCESS}) \in net => DataOf[a] \subseteq stored

AInv == TypeOK /\ ClientInv /\ SessionInv /\ TokenInv /\ AckInv

------------------------------------------------------------------------------
(* Packets. *)

\* The packets of the protocol have different names, and are packets.
LEMMA PacketNames ==
  ASSUME NEW a \in Nonce, NEW b \in Nonce, NEW x \in Nonce2, NEW y \in Nonce2,
         NEW s \in SUBSET AppendStatus, NEW t \in SUBSET AppendStatus
  PROVE  /\ Notify(a) \in Packet /\ Fetch(a, x) \in Packet
         /\ Submission(a, x) \in Packet /\ Ack(a, s) \in Packet
         /\ Submission(a, x) # Notify(b) /\ Submission(a, x) # Fetch(b, y)
         /\ Submission(a, x) # Ack(b, s)
         /\ Submission(a, x) = Submission(b, y) => a = b /\ x = y
         /\ Ack(a, s) # Notify(b) /\ Ack(a, s) # Fetch(b, y)
         /\ Ack(a, s) = Ack(b, t) => a = b /\ s = t
<1>1. Notify(a) \in Packet
  BY DEF Notify, Packet
<1>2. Fetch(a, x) \in Packet
  BY DEF Fetch, Packet
<1>3. Submission(a, x) \in Packet
  BY DEF Submission, Packet
<1>4. Ack(a, s) \in Packet
  BY DEF Ack, Packet
<1>5. /\ Notify(b).type = "notify" /\ Fetch(b, y).type = "fetch"
      /\ Submission(a, x).type = "submission"
      /\ Ack(a, s).type = "ack" /\ Ack(b, s).type = "ack"
  BY DEF Notify, Fetch, Submission, Ack
<1>6. Submission(a, x) = Submission(b, y) => a = b /\ x = y
  <2>1. /\ Submission(a, x).nonce = a /\ Submission(a, x).nonce2 = x
        /\ Submission(b, y).nonce = b /\ Submission(b, y).nonce2 = y
    BY DEF Submission
  <2> QED
    BY <2>1
<1>7. Ack(a, s) = Ack(b, t) => a = b /\ s = t
  <2>1. /\ Ack(a, s).nonce = a /\ Ack(a, s).status = s
        /\ Ack(b, t).nonce = b /\ Ack(b, t).status = t
    BY DEF Ack
  <2> QED
    BY <2>1
<1> QED
  BY <1>1, <1>2, <1>3, <1>4, <1>5, <1>6, <1>7

\* Statuses are told apart, and a status alone is a set of statuses.
LEMMA StatusSets ==
  /\ {SUCCESS} \in SUBSET AppendStatus /\ {FAILURE_TIMEOUT} \in SUBSET AppendStatus
  /\ {FAILURE_NACK} \in SUBSET AppendStatus
  /\ {FAILURE_VALIDATION_PROTO} \in SUBSET AppendStatus
  /\ SUCCESS # FAILURE_TIMEOUT /\ SUCCESS # FAILURE_NACK
  /\ SUCCESS # FAILURE_VALIDATION_PROTO /\ SUCCESS # FAILURE_VALIDATION_APP
  /\ SUCCESS # FAILURE_STORAGE
  /\ {} # {SUCCESS} /\ {FAILURE_TIMEOUT} # {SUCCESS} /\ {FAILURE_NACK} # {SUCCESS}
  /\ {FAILURE_VALIDATION_PROTO} # {SUCCESS}
BY DEF AppendStatus, SUCCESS, FAILURE_NACK, FAILURE_TIMEOUT, FAILURE_STORAGE,
   FAILURE_VALIDATION_APP, FAILURE_VALIDATION_PROTO

\* A submission is known by its two nonces.
LEMMA SubmissionName ==
  \A a, b \in Nonce, x, y \in Nonce2 :
    Submission(a, x) = Submission(b, y) => a = b /\ x = y
BY PacketNames, StatusSets

------------------------------------------------------------------------------
(* The client. *)

\* The variables of the protocol, one by one.
LEMMA Unchanged ==
  /\ UNCHANGED clientVars <=>
       /\ phase' = phase /\ retry' = retry /\ matched' = matched
       /\ filter' = filter /\ ack' = ack
       /\ succeeded' = succeeded /\ failed' = failed
  /\ UNCHANGED ledgerVars <=>
       /\ sessions' = sessions /\ lastNonce2' = lastNonce2
       /\ processed' = processed /\ stored' = stored
BY DEF clientVars, ledgerVars

\* What the client does without answering a fetch leaves the token where it is,
\* or lets a packet go; and it has no ack but one that was in flight.
LEMMA LedgerSideKept ==
  ASSUME AInv, UNCHANGED ledgerVars, matched' = matched,
         \A a \in Nonce, x \in Nonce2 :
           Submission(a, x) \in net' => Submission(a, x) \in net,
         \A a \in Nonce : Ack(a, {SUCCESS}) \in net' => Ack(a, {SUCCESS}) \in net,
         \A a \in Nonce : ack'[a] = ack[a] \/ Ack(a, ack'[a]) \in net
  PROVE  SessionInv' /\ TokenInv' /\ AckInv'
<1>1. SessionInv'
  BY Unchanged DEF AInv, SessionInv
<1>2. TokenInv'
  BY Unchanged DEF AInv, TokenInv
<1>3. AckInv'
  BY Unchanged DEF AInv, AckInv
<1> QED
  BY <1>1, <1>2, <1>3

\* dispatchNotification keeps the invariant, at first and after a timeout: the
\* last retry tells the application.
LEMMA DispatchInv ==
  ASSUME AInv, NEW a \in Nonce, phase[a] \in {"idle", "pending"},
         dispatchNotification(a), filter' \in [Nonce -> BOOLEAN],
         matched' = matched, ack' = ack, UNCHANGED ledgerVars
  PROVE  AInv'
<1>1. /\ TypeOK /\ ClientInv /\ MAX_RETRIES \in Nat
      /\ retry' = [retry EXCEPT ![a] = @ + 1]
      /\ retry[a] \in Nat /\ retry[a] <= MAX_RETRIES + 1
  BY AppendAssumption DEF AInv, TypeOK, ClientInv, dispatchNotification
<1>2. /\ net' \subseteq net \cup {Notify(a)}
      /\ \/ /\ exhaustRetries(retry[a]) /\ onFailure(a)
         \/ /\ ~ exhaustRetries(retry[a])
            /\ phase' = [phase EXCEPT ![a] = "pending"]
            /\ succeeded' = succeeded /\ failed' = failed
  BY DEF dispatchNotification
<1>3. TypeOK' /\ ClientInv'
  <2>1. net' \subseteq Packet
    BY <1>1, <1>2 DEF TypeOK, Packet, Notify
  <2>2. retry' \in [Nonce -> 0 .. MAX_RETRIES + 2]
    BY <1>1 DEF TypeOK
  <2>3. /\ phase' \in [Nonce -> {"idle", "pending", "validating", "done"}]
        /\ succeeded' \in [Nonce -> Nat] /\ failed' \in [Nonce -> Nat]
    BY <1>1, <1>2 DEF TypeOK, onFailure
  <2>4. TypeOK'
    BY <1>1, <2>1, <2>2, <2>3, Unchanged DEF TypeOK
  <2>5. ASSUME NEW b \in Nonce
        PROVE  /\ succeeded'[b] + failed'[b] = IF phase'[b] = "done" THEN 1 ELSE 0
               /\ phase'[b] # "done" => retry'[b] <= MAX_RETRIES + 1
    <3>1. CASE b # a
      BY <1>1, <1>2, <3>1 DEF TypeOK, ClientInv, onFailure
    <3>2. CASE b = a /\ exhaustRetries(retry[a])
      BY <1>1, <1>2, <3>2 DEF TypeOK, ClientInv, onFailure
    <3>3. CASE b = a /\ ~ exhaustRetries(retry[a])
      BY <1>1, <1>2, <3>3 DEF TypeOK, ClientInv, exhaustRetries
    <3> QED
      BY <3>1, <3>2, <3>3
  <2> QED
    BY <2>4, <2>5 DEF ClientInv
<1>4. SessionInv' /\ TokenInv' /\ AckInv'
  <2>1. \A b \in Nonce, x \in Nonce2 : Submission(b, x) # Notify(a)
    BY DEF Submission, Notify
  <2>2. \A b \in Nonce : Ack(b, {SUCCESS}) # Notify(a)
    BY DEF Ack, Notify
  <2> QED
    BY <1>2, <2>1, <2>2, LedgerSideKept
<1> QED
  BY <1>3, <1>4 DEF AInv

\* A callback of the application, called for an append that is not done yet.
LEMMA OutcomeInv ==
  ASSUME AInv, NEW a \in Nonce, phase[a] # "done", onSuccess(a) \/ onFailure(a),
         retry' = retry, matched' = matched, filter' = filter, ack' = ack,
         UNCHANGED ledgerVars, net' = net
  PROVE  AInv'
<1>1. TypeOK'
  BY Unchanged DEF AInv, TypeOK, onSuccess, onFailure
<1>2. ASSUME NEW b \in Nonce
      PROVE  /\ succeeded'[b] + failed'[b] = IF phase'[b] = "done" THEN 1 ELSE 0
             /\ phase'[b] # "done" => retry'[b] <= MAX_RETRIES + 1
  <2>1. /\ phase \in [Nonce -> {"idle", "pending", "validating", "done"}]
        /\ succeeded \in [Nonce -> Nat] /\ failed \in [Nonce -> Nat]
        /\ succeeded[b] + failed[b] = IF phase[b] = "done" THEN 1 ELSE 0
        /\ phase[b] # "done" => retry[b] <= MAX_RETRIES + 1
    BY DEF AInv, TypeOK, ClientInv
  <2>2. CASE b # a
    BY <2>1, <2>2 DEF onSuccess, onFailure
  <2>3. CASE b = a
    <3>1. succeeded[a] + failed[a] = 0 /\ succeeded[a] \in Nat /\ failed[a] \in Nat
      BY <2>1, <2>3
    <3>2. phase'[a] = "done" /\ succeeded'[a] + failed'[a] = 1
      BY <2>1, <3>1 DEF onSuccess, onFailure
    <3> QED
      BY <2>3, <3>2
  <2> QED
    BY <2>2, <2>3
<1>3. SessionInv' /\ TokenInv' /\ AckInv'
  BY LedgerSideKept
<1> QED
  BY <1>1, <1>2, <1>3 DEF AInv, ClientInv

\* The ack meets the pending notification.
LEMMA OnAckInv ==
  ASSUME AInv, NEW a \in Nonce, NEW s \in SUBSET AppendStatus, OnAck(a, s)
  PROVE  AInv'
<1>1. TypeOK'
  BY Unchanged DEF AInv, TypeOK, OnAck
<1>2. ClientInv'
  BY DEF AInv, TypeOK, ClientInv, OnAck
<1>3. \A b \in Nonce : ack'[b] = ack[b] \/ Ack(b, ack'[b]) \in net
  BY DEF AInv, TypeOK, OnAck
<1>4. SessionInv' /\ TokenInv' /\ AckInv'
  BY <1>3, LedgerSideKept DEF OnAck
<1> QED
  BY <1>1, <1>2, <1>4 DEF AInv

\* The client answers the first fetch: the token comes to be.
LEMMA OnFetchInv ==
  ASSUME AInv, NEW a \in Nonce, NEW x \in Nonce2, OnFetch(a, x)
  PROVE  AInv'
<1>1. /\ phase' = phase /\ retry' = retry /\ filter' = filter /\ ack' = ack
      /\ succeeded' = succeeded /\ failed' = failed /\ UNCHANGED ledgerVars
      /\ matched \in [Nonce -> Nat] /\ TypeOK /\ TokenInv
  BY DEF OnFetch, AInv, TypeOK
<1>2. \/ net' = net \ {Fetch(a, x)} /\ matched' = matched
      \/ /\ net' = (net \ {Fetch(a, x)}) \cup {Submission(a, x)}
         /\ matched[a] = 0 /\ matched' = [matched EXCEPT ![a] = x]
  BY <1>1 DEF OnFetch
<1>3. TypeOK'
  <2>1. net' \subseteq Packet
    BY <1>1, <1>2 DEF TypeOK, Packet, Submission
  <2>2. matched' \in [Nonce -> Nat]
    BY <1>1, <1>2 DEF Nonce2
  <2> QED
    BY <1>1, <2>1, <2>2, Unchanged DEF TypeOK
<1>4. ClientInv' /\ SessionInv'
  BY <1>1, Unchanged DEF AInv, ClientInv, SessionInv
<1>5. AckInv'
  <2>1. \A b \in Nonce : Ack(b, {SUCCESS}) # Submission(a, x)
    BY DEF Ack, Submission
  <2> QED
    BY <1>1, <1>2, <2>1, Unchanged DEF AInv, AckInv
<1>6. TokenInv'
  <2>1. CASE net' = net \ {Fetch(a, x)} /\ matched' = matched
    BY <1>1, <2>1, Unchanged DEF TokenInv
  <2>2. CASE /\ net' = (net \ {Fetch(a, x)}) \cup {Submission(a, x)}
             /\ matched[a] = 0 /\ matched' = [matched EXCEPT ![a] = x]
    <3>1. ASSUME NEW b \in Nonce, NEW y \in Nonce2, Submission(b, y) \in net'
          PROVE  Submission(b, y) \in net \/ (b = a /\ y = x)
      <4>1. Submission(b, y) \in net \/ Submission(b, y) = Submission(a, x)
        BY <2>2, <3>1
      <4> QED
        BY <4>1, SubmissionName
    <3>2. /\ \A y \in Nonce2 : Submission(a, y) \notin net
          /\ processed[a] = 0
          /\ \A s \in sessions : s.nonce = a => s.step # "validating"
      BY <1>1, <2>2 DEF TypeOK, TokenInv, Nonce2, Session
    <3>3. /\ matched'[a] = x /\ \A b \in Nonce \ {a} : matched'[b] = matched[b]
      BY <1>1, <2>2
    <3>4. sessions' = sessions /\ processed' = processed
      BY <1>1, Unchanged
    <3> QED
      BY <1>1, <3>1, <3>2, <3>3, <3>4 DEF TokenInv, Nonce2
  <2> QED
    BY <1>2, <2>1, <2>2
<1> QED
  BY <1>3, <1>4, <1>5, <1>6 DEF AInv

------------------------------------------------------------------------------
(* The ledger and the network. *)

\* What a session is made of.
LEMMA SessionFields ==
  ASSUME TypeOK, NEW s \in sessions
  PROVE  /\ s \in Session /\ s.nonce \in Nonce /\ s.nonce2 \in Nonce2
         /\ s.retry \in 0 .. MAX_RETRIES + 1 /\ s.nonce2 \in Nat
         /\ s.step \in {"fetching", "validating"}
BY DEF TypeOK, Session, Nonce2

\* A step that only loses packets and sessions, and sends packets that carry
\* neither Data nor the promise of success, keeps the invariant.
LEMMA LossKept ==
  ASSUME AInv, UNCHANGED clientVars, processed' = processed, stored' = stored,
         lastNonce2' = lastNonce2, sessions' \subseteq sessions,
         net' \subseteq Packet,
         \A b \in Nonce, x \in Nonce2 :
           Submission(b, x) \in net' => Submission(b, x) \in net,
         \A b \in Nonce : Ack(b, {SUCCESS}) \in net' => Ack(b, {SUCCESS}) \in net
  PROVE  AInv'
<1>1. TypeOK' /\ ClientInv'
  BY Unchanged DEF AInv, TypeOK, ClientInv
<1>2. SessionInv' /\ AckInv'
  BY Unchanged DEF AInv, SessionInv, AckInv
<1>3. TokenInv'
  BY Unchanged DEF AInv, TokenInv
<1> QED
  BY <1>1, <1>2, <1>3 DEF AInv

\* A session ends with an ack that is not a success.
LEMMA RefusalInv ==
  ASSUME AInv, NEW s \in sessions, NEW t \in SUBSET AppendStatus, t # {SUCCESS},
         acknowledge(s, t), processed' = processed, stored' = stored
  PROVE  AInv'
<1>1. /\ UNCHANGED clientVars /\ lastNonce2' = lastNonce2
      /\ sessions' = sessions \ {s} /\ net' = net \cup {Ack(s.nonce, t)}
  BY DEF acknowledge
<1>2. s.nonce \in Nonce /\ net \subseteq Packet
  BY SessionFields DEF AInv, TypeOK
<1>3. Ack(s.nonce, t) \in Packet
  BY <1>2 DEF Packet, Ack
<1>4. \A b \in Nonce, x \in Nonce2 : Submission(b, x) # Ack(s.nonce, t)
  BY DEF Submission, Ack
<1>5. \A b \in Nonce : Ack(b, {SUCCESS}) # Ack(s.nonce, t)
  <2> SUFFICES ASSUME NEW b \in Nonce, Ack(b, {SUCCESS}) = Ack(s.nonce, t)
               PROVE  FALSE
    OBVIOUS
  <2>1. Ack(b, {SUCCESS}).status = {SUCCESS} /\ Ack(s.nonce, t).status = t
    BY DEF Ack
  <2> QED
    BY <2>1
<1> QED
  BY <1>1, <1>2, <1>3, <1>4, <1>5, LossKept

\* serveClient opens a session under a nonce2 of its own, or gives up.
LEMMA ServeInv ==
  ASSUME AInv, NEW a \in Nonce, NEW count \in 0 .. MAX_RETRIES + 1,
         NEW old \in SUBSET sessions, NEW lost,
         serveClient(a, count, old, lost),
         UNCHANGED <<clientVars, processed, stored>>
  PROVE  AInv'
<1>1. /\ UNCHANGED clientVars /\ processed' = processed /\ stored' = stored
      /\ net \subseteq Packet /\ MAX_RETRIES \in Nat
  BY AppendAssumption DEF AInv, TypeOK
<1>2. CASE exhaustRetries(count)
  <2>1. /\ sessions' = sessions \ old /\ lastNonce2' = lastNonce2
        /\ net' = (net \ lost) \cup {Ack(a, {FAILURE_TIMEOUT})}
    BY <1>2 DEF serveClient
  <2>2. Ack(a, {FAILURE_TIMEOUT}) \in Packet
    BY StatusSets DEF Packet, Ack
  <2>3. \A b \in Nonce, x \in Nonce2 :
          Submission(b, x) # Ack(a, {FAILURE_TIMEOUT})
    BY DEF Submission, Ack
  <2>4. \A b \in Nonce : Ack(b, {SUCCESS}) # Ack(a, {FAILURE_TIMEOUT})
    <3> SUFFICES ASSUME NEW b \in Nonce,
                        Ack(b, {SUCCESS}) = Ack(a, {FAILURE_TIMEOUT})
                 PROVE  FALSE
      OBVIOUS
    <3>1. /\ Ack(b, {SUCCESS}).status = {SUCCESS}
          /\ Ack(a, {FAILURE_TIMEOUT}).status = {FAILURE_TIMEOUT}
      BY DEF Ack
    <3> QED
      BY <3>1, StatusSets
  <2> QED
    BY <1>1, <2>1, <2>2, <2>3, <2>4, LossKept
<1>3. CASE ~ exhaustRetries(count)
  <2> DEFINE fresh == lastNonce2 + 1
             u == [nonce |-> a, retry |-> count + 1, nonce2 |-> fresh,
                   step |-> "fetching"]
  <2>1. /\ lastNonce2' = fresh /\ sessions' = (sessions \ old) \cup {u}
        /\ net' = (net \ lost) \cup {Fetch(a, fresh)}
    BY <1>3 DEF serveClient
  <2>2. /\ lastNonce2 \in Nat /\ fresh \in Nat /\ fresh \in Nonce2
        /\ fresh > lastNonce2
    BY DEF AInv, TypeOK, Nonce2
  <2>3. u \in Session
    BY <1>1, <1>3, <2>2 DEF Session, exhaustRetries
  <2>4. /\ u.nonce = a /\ u.nonce2 = fresh /\ u.step = "fetching"
    OBVIOUS
  <2>5. Fetch(a, fresh) \in Packet
    BY <2>2 DEF Packet, Fetch
  <2>6. /\ \A b \in Nonce, x \in Nonce2 : Submission(b, x) # Fetch(a, fresh)
        /\ \A b \in Nonce : Ack(b, {SUCCESS}) # Fetch(a, fresh)
    BY DEF Submission, Ack, Fetch
  <2> HIDE DEF fresh, u
  <2>7. TypeOK' /\ ClientInv'
    BY <1>1, <2>1, <2>2, <2>3, <2>5, Unchanged DEF AInv, TypeOK, ClientInv
  <2>8. SessionInv'
    <3>1. \A s \in sessions : s.nonce2 \in Nat /\ s.nonce2 <= lastNonce2
      BY SessionFields DEF AInv, SessionInv
    <3>2. \A s \in sessions : s.nonce2 < fresh
      BY <2>2, <3>1
    <3> QED
      BY <2>1, <2>2, <2>4, <3>1, <3>2 DEF AInv, SessionInv
  <2>9. TokenInv'
    BY <1>1, <2>1, <2>4, <2>6, Unchanged DEF AInv, TokenInv
  <2>10. AckInv'
    BY <1>1, <2>1, <2>6, Unchanged DEF AInv, AckInv
  <2> QED
    BY <2>7, <2>8, <2>9, <2>10 DEF AInv
<1> QED
  BY <1>2, <1>3

\* The submission meets its fetch: the token moves into the session.
LEMMA OnSubmissionInv ==
  ASSUME AInv, NEW s \in sessions, OnSubmission(s)
  PROVE  AInv'
<1> DEFINE v == [s EXCEPT !.step = "validating"]
<1>1. /\ UNCHANGED clientVars /\ lastNonce2' = lastNonce2
      /\ processed' = processed /\ stored' = stored
      /\ Submission(s.nonce, s.nonce2) \in net
      /\ sessions' = (sessions \ {s}) \cup {v}
      /\ net' = net \ {Submission(s.nonce, s.nonce2)}
  BY DEF OnSubmission
<1>2. /\ s \in Session /\ s.nonce \in Nonce /\ s.nonce2 \in Nonce2
  BY SessionFields DEF AInv
<1>3. /\ v \in Session /\ v.nonce = s.nonce /\ v.nonce2 = s.nonce2
      /\ v.step = "validating"
  BY <1>2 DEF Session
<1> HIDE DEF v
<1>4. TypeOK' /\ ClientInv'
  BY <1>1, <1>3, Unchanged DEF AInv, TypeOK, ClientInv
<1>5. SessionInv' /\ AckInv'
  BY <1>1, <1>3, Unchanged DEF AInv, SessionInv, AckInv
<1>6. TokenInv'
  <2>1. matched[s.nonce] = s.nonce2 /\ processed[s.nonce] = 0
    BY <1>1, <1>2 DEF AInv, TokenInv
  <2>2. \A x \in Nonce2 : Submission(s.nonce, x) \notin net'
    BY <1>1, <1>2, <2>1 DEF AInv, TokenInv
  <2> QED
    BY <1>1, <1>2, <1>3, <2>1, <2>2, Unchanged DEF AInv, TokenInv
<1> QED
  BY <1>4, <1>5, <1>6 DEF AInv

\* Ledger::onValidationSuccess: the token is spent, and an ack of nothing but
\* successes is sent when every Data of the submission was stored.
LEMMA SubmissionValidInv ==
  ASSUME AInv, NEW s \in sessions,
         NEW refused \in SUBSET DataOf[s.nonce], NEW broken \in SUBSET DataOf[s.nonce],
         SubmissionValid(s, refused, broken)
  PROVE  AInv'
<1> DEFINE a == s.nonce
           ok == DataOf[a] \ (refused \cup broken)
           t == {SUCCESS : d \in ok}
                  \cup {FAILURE_VALIDATION_APP : d \in refused}
                  \cup {FAILURE_STORAGE : d \in broken \ refused}
<1>1. /\ UNCHANGED clientVars /\ lastNonce2' = lastNonce2
      /\ sessions' = sessions \ {s} /\ net' = net \cup {Ack(a, t)}
      /\ stored' = stored \cup ok /\ s.step = "validating"
      /\ processed' = [processed EXCEPT ![a] = @ + 1]
  BY DEF SubmissionValid, acknowledge
<1>2. /\ a \in Nonce /\ s \in Session
      /\ net \subseteq Packet /\ stored \subseteq Data
      /\ processed \in [Nonce -> Nat] /\ DataOf[a] \subseteq Data
  BY SessionFields, AppendAssumption DEF AInv, TypeOK
<1>3. t \in SUBSET AppendStatus
  BY DEF AppendStatus
<1>4. t = {SUCCESS} => ok = DataOf[a]
  <2> SUFFICES ASSUME t = {SUCCESS}
               PROVE  refused = {} /\ broken = {}
    OBVIOUS
  <2>1. \A d \in refused : FAILURE_VALIDATION_APP \in t
    OBVIOUS
  <2>2. \A d \in broken \ refused : FAILURE_STORAGE \in t
    OBVIOUS
  <2> QED
    BY <2>1, <2>2, StatusSets
<1> HIDE DEF ok, t
<1>5. Ack(a, t) \in Packet
  BY <1>2, <1>3 DEF Packet, Ack
<1>6. \A b \in Nonce, x \in Nonce2 : Submission(b, x) # Ack(a, t)
  BY DEF Submission, Ack
<1>7. \A b \in Nonce : Ack(b, {SUCCESS}) = Ack(a, t) => b = a /\ t = {SUCCESS}
  <2> SUFFICES ASSUME NEW b \in Nonce, Ack(b, {SUCCESS}) = Ack(a, t)
               PROVE  b = a /\ t = {SUCCESS}
    OBVIOUS
  <2>1. /\ Ack(b, {SUCCESS}).status = {SUCCESS} /\ Ack(a, t).status = t
        /\ Ack(b, {SUCCESS}).nonce = b /\ Ack(a, t).nonce = a
    BY DEF Ack
  <2> QED
    BY <2>1
<1>8. /\ matched[a] = s.nonce2 /\ processed[a] = 0
      /\ \A x \in Nonce2 : Submission(a, x) \notin net
  BY <1>1, <1>2 DEF AInv, TokenInv
<1>9. s.nonce2 \in Nat /\ s.nonce2 > 0
  BY SessionFields DEF AInv, Nonce2
<1> HIDE DEF a
<1>10. /\ processed'[a] = 1 /\ processed' \in [Nonce -> Nat]
       /\ \A b \in Nonce : b # a => processed'[b] = processed[b]
  BY <1>1, <1>2, <1>8
<1>11. TypeOK' /\ ClientInv'
  <2>1. stored' \subseteq Data /\ net' \subseteq Packet
    BY <1>1, <1>2, <1>5 DEF ok
  <2> QED
    BY <1>1, <1>10, <2>1, Unchanged DEF AInv, TypeOK, ClientInv
<1>12. SessionInv'
  BY <1>1 DEF AInv, SessionInv
<1>13. AckInv'
  BY <1>1, <1>4, <1>7, Unchanged DEF AInv, AckInv
<1>14. \A u \in sessions' : u.nonce = a => u.step # "validating"
  BY <1>1, <1>2, <1>8 DEF AInv, TokenInv, SessionInv
<1>15. matched' = matched
  BY <1>1, Unchanged
<1>16. TokenInv'
  <2> SUFFICES ASSUME NEW b \in Nonce
               PROVE  /\ processed'[b] <= 1
                      /\ processed'[b] = 1 => matched[b] > 0
                      /\ \A x \in Nonce2 : Submission(b, x) \in net' =>
                           /\ matched[b] = x /\ processed'[b] = 0
                           /\ \A u \in sessions' : u.nonce = b => u.step # "validating"
                      /\ \A u \in sessions' : u.nonce = b /\ u.step = "validating" =>
                           matched[b] = u.nonce2 /\ processed'[b] = 0
    BY <1>15 DEF TokenInv
  <2>1. CASE b = a
    BY <1>1, <1>6, <1>8, <1>9, <1>10, <1>14, <2>1
  <2>2. CASE b # a
    BY <1>1, <1>6, <1>10, <2>2 DEF AInv, TokenInv
  <2> QED
    BY <2>1, <2>2
<1> QED
  BY <1>11, <1>12, <1>13, <1>16 DEF AInv

------------------------------------------------------------------------------
(* The theorems. *)

\* The invariant holds before anything was appended.
LEMMA InitAInv == Init => AInv
<1> SUFFICES ASSUME Init PROVE AInv
  OBVIOUS
<1>1. TypeOK
  BY AppendAssumption DEF Init, TypeOK
<1>2. ASSUME NEW a \in Nonce
      PROVE  /\ succeeded[a] + failed[a] = IF phase[a] = "done" THEN 1 ELSE 0
             /\ phase[a] # "done" => retry[a] <= MAX_RETRIES + 1
  <2>1. /\ succeeded[a] = 0 /\ failed[a] = 0 /\ retry[a] = 0
        /\ phase[a] = "idle" /\ MAX_RETRIES \in Nat
    BY AppendAssumption DEF Init
  <2>2. succeeded[a] + failed[a] = 0
    BY <2>1
  <2> QED
    BY <2>1, <2>2
<1>3. SessionInv /\ TokenInv
  BY DEF Init, SessionInv, TokenInv
<1>4. AckInv
  BY StatusSets DEF Init, AckInv
<1> QED
  BY <1>1, <1>2, <1>3, <1>4 DEF AInv, ClientInv

\* Every step of the client keeps the invariant.
LEMMA ClientStep ==
  ASSUME AInv, NEW a \in Nonce, Client(a)
  PROVE  AInv'
<1>1. CASE AppendData(a)
  <2>1. filter' \in [Nonce -> BOOLEAN]
    BY <1>1 DEF AppendData, AInv, TypeOK
  <2> QED
    BY <1>1, <2>1, DispatchInv DEF AppendData
<1>2. CASE NotificationTimeout(a)
  <2>1. filter' \in [Nonce -> BOOLEAN]
    BY <1>2 DEF NotificationTimeout, AInv, TypeOK
  <2> QED
    BY <1>2, <2>1, DispatchInv DEF NotificationTimeout
<1>3. CASE NotificationNack(a)
  BY <1>3, OutcomeInv DEF NotificationNack
<1>4. CASE \E x \in 1 .. lastNonce2 : OnFetch(a, x)
  <2>1. PICK x \in 1 .. lastNonce2 : OnFetch(a, x)
    BY <1>4
  <2>2. x \in Nonce2
    BY DEF AInv, TypeOK, Nonce2
  <2> QED
    BY <2>1, <2>2, OnFetchInv
<1>5. CASE \E s \in SUBSET AppendStatus : OnAck(a, s)
  BY <1>5, OnAckInv
<1>6. CASE AckValid(a)
  BY <1>6, OutcomeInv DEF AckValid
<1>7. CASE AckInvalid(a)
  BY <1>7, OutcomeInv DEF AckInvalid
<1> QED
  BY <1>1, <1>2, <1>3, <1>4, <1>5, <1>6, <1>7 DEF Client

\* Every step of the ledger keeps the invariant.
LEMMA LedgerStep ==
  ASSUME AInv, Ledger
  PROVE  AInv'
<1>1. ASSUME NEW a \in Nonce, OnNotification(a)
      PROVE  AInv'
  <2>1. 0 \in 0 .. MAX_RETRIES + 1
    BY AppendAssumption
  <2>2. {} \in SUBSET sessions
    OBVIOUS
  <2> QED
    BY <1>1, <2>1, <2>2, ServeInv DEF OnNotification
<1>2. ASSUME NEW s \in sessions, FetchTimeout(s)
      PROVE  AInv'
  <2>1. s.nonce \in Nonce /\ s.retry \in 0 .. MAX_RETRIES + 1
    BY SessionFields DEF AInv
  <2>2. {s} \in SUBSET sessions
    OBVIOUS
  <2> QED
    BY <1>2, <2>1, <2>2, ServeInv DEF FetchTimeout
<1>3. ASSUME NEW s \in sessions, FetchNack(s)
      PROVE  AInv'
  BY <1>3, StatusSets, RefusalInv DEF FetchNack
<1>4. ASSUME NEW s \in sessions, SubmissionInvalid(s)
      PROVE  AInv'
  BY <1>4, StatusSets, RefusalInv DEF SubmissionInvalid
<1> QED
  BY <1>1, <1>2, <1>3, <1>4, OnSubmissionInv, SubmissionValidInv DEF Ledger

\* Every step keeps the invariant; the network only loses packets.
LEMMA NextAInv == AInv /\ [Next]_vars => AInv'
<1> SUFFICES ASSUME AInv, [Next]_vars PROVE AInv'
  OBVIOUS
<1>1. ASSUME NEW p \in net, Drop(p)
      PROVE  AInv'
  <2>1. /\ net' \subseteq net /\ net \subseteq Packet
        /\ UNCHANGED clientVars /\ UNCHANGED ledgerVars
    BY <1>1 DEF Drop, AInv, TypeOK
  <2> QED
    BY <2>1, Unchanged, LossKept
<1>2. CASE Finished \/ UNCHANGED vars
  <2>1. UNCHANGED clientVars /\ UNCHANGED ledgerVars /\ net' = net
    BY <1>2 DEF Finished, vars
  <2>2. net \subseteq Packet
    BY DEF AInv, TypeOK
  <2> QED
    BY <2>1, <2>2, Unchanged, LossKept
<1> QED
  BY <1>1, <1>2, ClientStep, LedgerStep DEF Next

\* The invariant holds of every reachable state.
THEOREM AppendInvariance == Spec => []AInv
BY InitAInv, NextAInv, PTL DEF Spec

\* The variables keep their types: in particular the client sends a
\* notification MAX_RETRIES + 1 times at most, and the ledger a fetch.
THEOREM AppendTypeCorrect == Spec => []TypeOK
<1>1. AInv => TypeOK
  BY DEF AInv
<1> QED
  BY <1>1, AppendInvariance, PTL

\* appendData calls one of onSuccess and onFailure, once: no timeout, Nack, late
\* ack or validator's answer of an append that is over reaches the application.
THEOREM OneOutcomeCorrect == Spec => []OneOutcome
<1>1. AInv => OneOutcome
  BY DEF AInv, ClientInv, OneOutcome
<1> QED
  BY <1>1, AppendInvariance, PTL

\* The Data of an append goes to m_onUpdate once at most, however many sessions
\* its repeated notifications opened at the ledger.
THEOREM ProcessedOnceCorrect == Spec => []ProcessedOnce
<1>1. AInv => ProcessedOnce
  BY DEF AInv, TokenInv, ProcessedOnce
<1> QED
  BY <1>1, AppendInvariance, PTL

\* A client that reads nothing but SUCCESS in its ack has its Data stored, even
\* if the ack comes from another session than the last.
THEOREM AckCorrect == Spec => []AckTruthful
<1>1. AInv => AckTruthful
  BY DEF AInv, AckInv, AckTruthful
<1> QED
  BY <1>1, AppendInvariance, PTL

==============================================================================
