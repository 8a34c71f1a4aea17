-------------------------------- MODULE Append --------------------------------
(***************************************************************************)
(* The append protocol between one client (append::Client) and one ledger  *)
(* (append::Ledger).                                                       *)
(*                                                                         *)
(*   client --- notify(nonce) -------------> ledger                        *)
(*   client <-- fetch(nonce, nonce2) ------- ledger                        *)
(*   client --- submission(nonce, nonce2) -> ledger   m_onUpdate, per Data *)
(*   client <-- ack(nonce, statuses) ------- ledger                        *)
(*                                                                         *)
(* The network (NDN, external) may lose or delay every packet.  A Data     *)
(* packet is delivered only to a pending Interest of its name.  A repeated *)
(* notification has the same name as the first one; every notification     *)
(* that reaches the ledger opens a session of its own.                     *)
(*                                                                         *)
(* The client runs several appends at a time; each is named by its nonce.  *)
(* A list of statuses is kept as the set of its members.                   *)
(***************************************************************************)
EXTENDS Naturals

CONSTANTS
  Nonce,        \* the appends of the client
  Data,         \* the Data packets
  DataOf,       \* DataOf[a]: the Data append a submits
  MAX_RETRIES,  \* of both exhaustRetries
  Lossy         \* whether packets get lost, timers fire early and steps fail

ASSUME AppendAssumption ==
  /\ DataOf \in [Nonce -> SUBSET Data]
  /\ \A a \in Nonce : DataOf[a] # {}
  /\ MAX_RETRIES \in Nat
  /\ Lossy \in BOOLEAN

SUCCESS == "SUCCESS"
FAILURE_NACK == "FAILURE_NACK"
FAILURE_TIMEOUT == "FAILURE_TIMEOUT"
FAILURE_VALIDATION_APP == "FAILURE_VALIDATION_APP"
FAILURE_VALIDATION_PROTO == "FAILURE_VALIDATION_PROTO"
FAILURE_STORAGE == "FAILURE_STORAGE"
AppendStatus == {SUCCESS, FAILURE_NACK, FAILURE_TIMEOUT, FAILURE_STORAGE,
                 FAILURE_VALIDATION_APP, FAILURE_VALIDATION_PROTO}

VARIABLES
  phase,      \* phase[a]: "idle", "pending" (notification), "validating", "done"
  retry,      \* retry[a]: the client's ClientOptions::m_retryCount
  matched,    \* matched[a]: the client's ClientOptions::m_nonce2, 0 if not set
  filter,     \* filter[a]: the Interest filter of a is registered
  ack,        \* ack[a]: the statuses of the ack that a received
  succeeded,  \* succeeded[a]: calls of onSuccess
  failed,     \* failed[a]: calls of onFailure
  sessions,   \* the ledger's sessions: nonce, retry count, nonce2 and step
  lastNonce2, \* how many nonce2 were drawn
  processed,  \* processed[a]: submissions of a handed to m_onUpdate
  stored,     \* the Data the ledger holds
  net         \* packets in flight

clientVars == <<phase, retry, matched, filter, ack, succeeded, failed>>
ledgerVars == <<sessions, lastNonce2, processed, stored>>
vars == <<clientVars, ledgerVars, net>>

\* Each call of serveClient draws a fresh nonce2, which is never 0.
Nonce2 == Nat \ {0}

Session == [nonce : Nonce, retry : 0 .. MAX_RETRIES + 1,
            nonce2 : Nonce2, step : {"fetching", "validating"}]

Packet ==
  [type : {"notify"}, nonce : Nonce]
    \cup [type : {"fetch", "submission"}, nonce : Nonce, nonce2 : Nonce2]
    \cup [type : {"ack"}, nonce : Nonce, status : SUBSET AppendStatus]

Notify(a)        == [type |-> "notify", nonce |-> a]
Fetch(a, x)      == [type |-> "fetch", nonce |-> a, nonce2 |-> x]
Submission(a, x) == [type |-> "submission", nonce |-> a, nonce2 |-> x]
Ack(a, s)        == [type |-> "ack", nonce |-> a, status |-> s]

Init == /\ phase = [a \in Nonce |-> "idle"]
        /\ retry = [a \in Nonce |-> 0]
        /\ matched = [a \in Nonce |-> 0]
        /\ filter = [a \in Nonce |-> FALSE]
        /\ ack = [a \in Nonce |-> {}]
        /\ succeeded = [a \in Nonce |-> 0]
        /\ failed = [a \in Nonce |-> 0]
        /\ sessions = {}
        /\ lastNonce2 = 0
        /\ processed = [a \in Nonce |-> 0]
        /\ stored = {}
        /\ net = {}

------------------------------------------------------------------------------
(* The client. *)

\* Mutant: the count is compared after the increment, one retry too many.
exhaustRetriesLate(count) == count > MAX_RETRIES + 1

\* exhaustRetries: the count before the increment is compared.
exhaustRetries(count) == count > MAX_RETRIES

onSuccess(a) == /\ succeeded' = [succeeded EXCEPT ![a] = @ + 1]
                /\ phase' = [phase EXCEPT ![a] = "done"]
                /\ UNCHANGED failed

onFailure(a) == /\ failed' = [failed EXCEPT ![a] = @ + 1]
                /\ phase' = [phase EXCEPT ![a] = "done"]
                /\ UNCHANGED succeeded

\* Mutant: the failure is reported and the notification sent all the same.
dispatchNotificationGoesOn(a) ==
  /\ retry' = [retry EXCEPT ![a] = @ + 1]
  /\ net' = net \cup {Notify(a)}
  /\ phase' = [phase EXCEPT ![a] = "pending"]
  /\ failed' = [failed EXCEPT ![a] = IF exhaustRetries(retry[a]) THEN @ + 1 ELSE @]
  /\ UNCHANGED succeeded

\* Mutant: the retries are exhausted and nobody is told.
dispatchNotificationSilent(a) ==
  IF exhaustRetries(retry[a])
  THEN UNCHANGED <<retry, net, phase, succeeded, failed>>
  ELSE /\ retry' = [retry EXCEPT ![a] = @ + 1]
       /\ net' = net \cup {Notify(a)}
       /\ phase' = [phase EXCEPT ![a] = "pending"]
       /\ UNCHANGED <<succeeded, failed>>

\* dispatchNotification, at first and after every timeout.
dispatchNotification(a) ==
  /\ retry' = [retry EXCEPT ![a] = @ + 1]
  /\ IF exhaustRetries(retry[a])
     THEN onFailure(a) /\ UNCHANGED net
     ELSE /\ net' = net \cup {Notify(a)}
          /\ phase' = [phase EXCEPT ![a] = "pending"]
          /\ UNCHANGED <<succeeded, failed>>

AppendData(a) ==
  /\ phase[a] = "idle"
  /\ filter' = [filter EXCEPT ![a] = TRUE]
  /\ dispatchNotification(a)
  /\ UNCHANGED <<matched, ack, ledgerVars>>

\* No packet of a is on its way, and no session of it is at work.
Quiet(a) == /\ \A p \in net : p.nonce # a
            /\ \A s \in sessions : s.nonce # a

NotificationTimeout(a) ==
  /\ phase[a] = "pending"
  /\ Lossy \/ Quiet(a)
  /\ dispatchNotification(a)
  /\ UNCHANGED <<matched, filter, ack, ledgerVars>>

NotificationNack(a) ==
  /\ Lossy
  /\ phase[a] = "pending"
  /\ onFailure(a)
  /\ UNCHANGED <<retry, matched, filter, ack, ledgerVars, net>>

\* Mutant: every fetch is answered.
OnFetchAlways(a, x) ==
  /\ Fetch(a, x) \in net
  /\ filter[a]
  /\ net' = (net \ {Fetch(a, x)}) \cup {Submission(a, x)}
  /\ matched' = [matched EXCEPT ![a] = x]
  /\ UNCHANGED <<phase, retry, filter, ack, succeeded, failed, ledgerVars>>

\* The filter callback: only the first fetch is answered.
OnFetch(a, x) ==
  /\ Fetch(a, x) \in net
  /\ filter[a]
  /\ IF matched[a] > 0
     THEN /\ net' = net \ {Fetch(a, x)}
          /\ UNCHANGED matched
     ELSE /\ net' = (net \ {Fetch(a, x)}) \cup {Submission(a, x)}
          /\ matched' = [matched EXCEPT ![a] = x]
  /\ UNCHANGED <<phase, retry, filter, ack, succeeded, failed, ledgerVars>>

\* The ack meets the pending notification: unregisterFilters cancels the
\* filters of all appends of the client, and the ack goes to the validator.
OnAck(a, s) ==
  /\ Ack(a, s) \in net
  /\ phase[a] = "pending"
  /\ net' = net \ {Ack(a, s)}
  /\ filter' = [b \in Nonce |-> FALSE]
  /\ phase' = [phase EXCEPT ![a] = "validating"]
  /\ ack' = [ack EXCEPT ![a] = s]
  /\ UNCHANGED <<retry, matched, succeeded, failed, ledgerVars>>

\* Client::onValidationSuccess reads the statuses and calls onSuccess.
AckValid(a) ==
  /\ phase[a] = "validating"
  /\ onSuccess(a)
  /\ UNCHANGED <<retry, matched, filter, ack, ledgerVars, net>>

AckInvalid(a) ==
  /\ Lossy
  /\ phase[a] = "validating"
  /\ onFailure(a)
  /\ UNCHANGED <<retry, matched, filter, ack, ledgerVars, net>>

------------------------------------------------------------------------------
(* The ledger. *)

\* serveClient for a session with retry count count, in place of the sessions
\* old: a new fetch, or the ack that gives up.
serveClient(a, count, old, lost) ==
  IF exhaustRetries(count)
  THEN /\ sessions' = sessions \ old
       /\ net' = (net \ lost) \cup {Ack(a, {FAILURE_TIMEOUT})}
       /\ UNCHANGED lastNonce2
  ELSE /\ lastNonce2' = lastNonce2 + 1
       /\ sessions' = (sessions \ old) \cup
            {[nonce |-> a, retry |-> count + 1, nonce2 |-> lastNonce2 + 1,
              step |-> "fetching"]}
       /\ net' = (net \ lost) \cup {Fetch(a, lastNonce2 + 1)}

\* The filter of listen: a session for every notification.
OnNotification(a) ==
  /\ Notify(a) \in net
  /\ serveClient(a, 0, {}, {Notify(a)})
  /\ UNCHANGED <<clientVars, processed, stored>>

\* The fetch timed out: serveClient again.
FetchTimeout(s) ==
  /\ s.step = "fetching"
  /\ Lossy \/ {Fetch(s.nonce, s.nonce2), Submission(s.nonce, s.nonce2)}
                \cap net = {}
  /\ serveClient(s.nonce, s.retry, {s}, {})
  /\ UNCHANGED <<clientVars, processed, stored>>

\* The session s ends with an ack of the given statuses.
acknowledge(s, statuses) ==
  /\ sessions' = sessions \ {s}
  /\ net' = net \cup {Ack(s.nonce, statuses)}
  /\ UNCHANGED <<clientVars, lastNonce2>>

FetchNack(s) ==
  /\ Lossy
  /\ s.step = "fetching"
  /\ acknowledge(s, {FAILURE_NACK})
  /\ UNCHANGED <<processed, stored>>

\* The submission meets the pending fetch of its name.
OnSubmission(s) ==
  /\ s.step = "fetching"
  /\ Submission(s.nonce, s.nonce2) \in net
  /\ sessions' = (sessions \ {s}) \cup {[s EXCEPT !.step = "validating"]}
  /\ net' = net \ {Submission(s.nonce, s.nonce2)}
  /\ UNCHANGED <<clientVars, lastNonce2, processed, stored>>

\* Mutant: only the first status that is pushed is acknowledged.
SubmissionValidOneStatus(s, refused, broken) ==
  /\ Lossy \/ refused \cup broken = {}
  /\ s.step = "validating"
  /\ LET ok == DataOf[s.nonce] \ (refused \cup broken)
     IN  /\ acknowledge(s, {IF ok # {} THEN SUCCESS ELSE FAILURE_STORAGE})
         /\ stored' = stored \cup ok
  /\ processed' = [processed EXCEPT ![s.nonce] = @ + 1]

\* Ledger::onValidationSuccess: each Data goes to m_onUpdate, which refuses it
\* (its own signature is not valid), fails to store it, or stores it.
SubmissionValid(s, refused, broken) ==
  /\ Lossy \/ refused \cup broken = {}
  /\ s.step = "validating"
  /\ LET ds == DataOf[s.nonce]
         ok == ds \ (refused \cup broken)
     IN  /\ acknowledge(s,
              {SUCCESS : d \in ok}
                \cup {FAILURE_VALIDATION_APP : d \in refused}
                \cup {FAILURE_STORAGE : d \in broken \ refused})
         /\ stored' = stored \cup ok
  /\ processed' = [processed EXCEPT ![s.nonce] = @ + 1]

SubmissionInvalid(s) ==
  /\ Lossy
  /\ s.step = "validating"
  /\ acknowledge(s, {FAILURE_VALIDATION_PROTO})
  /\ UNCHANGED <<processed, stored>>

------------------------------------------------------------------------------
(* The network. *)

\* A packet is lost, or nobody is there to take it.
Unwanted(p) ==
  \/ p.type = "fetch" /\ ~ filter[p.nonce]
  \/ p.type = "ack" /\ phase[p.nonce] # "pending"
  \/ p.type = "submission" /\
       ~ \E s \in sessions : s.nonce2 = p.nonce2 /\ s.step = "fetching"

Drop(p) ==
  /\ p \in net
  /\ Lossy \/ Unwanted(p)
  /\ net' = net \ {p}
  /\ UNCHANGED <<clientVars, ledgerVars>>

Client(a) == \/ AppendData(a) \/ NotificationTimeout(a) \/ NotificationNack(a)
             \/ \E x \in 1 .. lastNonce2 : OnFetch(a, x)
             \/ \E s \in SUBSET AppendStatus : OnAck(a, s)
             \/ AckValid(a) \/ AckInvalid(a)

Ledger == \/ \E a \in Nonce : OnNotification(a)
          \/ \E s \in sessions :
               \/ FetchTimeout(s) \/ FetchNack(s) \/ OnSubmission(s)
               \/ SubmissionInvalid(s)
               \/ \E refused, broken \in SUBSET DataOf[s.nonce] :
                    SubmissionValid(s, refused, broken)

\* The client has its answers and the ledger has nothing left to do.
Finished == /\ \A a \in Nonce : phase[a] = "done"
            /\ sessions = {} /\ net = {}
            /\ UNCHANGED vars

Next == (\E a \in Nonce : Client(a)) \/ Ledger \/ (\E p \in net : Drop(p))
          \/ Finished

Spec == Init /\ [][Next]_vars

\* An Interest that gets no answer times out, the validators call back and
\* packets do not stay in flight for ever.
Fairness ==
  /\ \A a \in Nonce : /\ WF_vars(NotificationTimeout(a))
                      /\ WF_vars(AckValid(a) \/ AckInvalid(a))
  /\ WF_vars(Ledger)
  /\ WF_vars(\E a \in Nonce, x \in 1 .. lastNonce2 : OnFetch(a, x))
  /\ WF_vars(\E a \in Nonce, s \in SUBSET AppendStatus : OnAck(a, s))
  /\ WF_vars(\E p \in net : Drop(p))

FairSpec == Spec /\ Fairness

------------------------------------------------------------------------------
(* Properties. *)

\* The variables keep their types.
TypeOK ==
  /\ phase \in [Nonce -> {"idle", "pending", "validating", "done"}]
  /\ retry \in [Nonce -> 0 .. MAX_RETRIES + 2]
  /\ matched \in [Nonce -> Nat]
  /\ filter \in [Nonce -> BOOLEAN]
  /\ ack \in [Nonce -> SUBSET AppendStatus]
  /\ succeeded \in [Nonce -> Nat] /\ failed \in [Nonce -> Nat]
  /\ sessions \subseteq Session
  /\ lastNonce2 \in Nat
  /\ processed \in [Nonce -> Nat]
  /\ stored \subseteq Data
  /\ net \subseteq Packet

\* The application hears of an append exactly once: never a success and a
\* failure, nor two of either, whatever is lost, retried or late.
OneOutcome ==
  \A a \in Nonce :
    succeeded[a] + failed[a] = IF phase[a] = "done" THEN 1 ELSE 0

\* However often notifications and fetches are repeated, the ledger hands the
\* Data of one append to m_onUpdate at most once.
ProcessedOnce == \A a \in Nonce : processed[a] <= 1

\* An ack that reports nothing but successes tells the truth.
AckTruthful ==
  \A a \in Nonce : ack[a] = {SUCCESS} => DataOf[a] \subseteq stored

\* "if all success, onSuccess; otherwise, failure".
SuccessMeansStored ==
  \A a \in Nonce : succeeded[a] > 0 => DataOf[a] \subseteq stored

\* Every append ends with one of the two callbacks.
AppendEnds == \A a \in Nonce : phase[a] = "pending" ~> phase[a] = "done"

==============================================================================
