------------------------------ MODULE Guardian ------------------------------
(***************************************************************************)
(* The risk decision: evaluate of the guardian crate as operators, and     *)
(* evaluate_guardian of the gateway, which fixes the credit, records the   *)
(* decision and answers it.  Reasons are left out; security_overview is    *)
(* Evaluate of no penalties and changes nothing.  Without a database no    *)
(* session has a device and nothing is recorded.                           *)
(***************************************************************************)
EXTENDS Integers

CONSTANTS
  Sent,       \* the penalties clients send
  Claims,     \* the credits clients send
  Sessions,   \* session ids
  Requests,   \* concurrent requests
  None

U8 == 0..255

Penalties == [device_integrity : U8, network : U8, credential_exposure : U8,
              session_context : U8, anomaly : U8]

ASSUME GuardianAssumption == Sent \subseteq Penalties /\ Claims \subseteq U8

\* Defect variant: the weights are added in the width they are sent in.
PositiveU8(p) ==
  (p.device_integrity + p.network + p.credential_exposure
     + p.session_context + p.anomaly) % 256

\* The sum, in u16.
Positive(p) ==
  (p.device_integrity + p.network + p.credential_exposure
     + p.session_context + p.anomaly) % 65536

AsI16(u) == IF u < 32768 THEN u ELSE u - 65536

\* Defect variant: the sum is not clamped from above.
ClampBelow(n) == IF n < 0 THEN 0 ELSE n

Clamp(n) == IF n < 0 THEN 0 ELSE IF n > 100 THEN 100 ELSE n

Score(p, credit) == Clamp(10 + AsI16(Positive(p)) - credit)

Levels == 0..3   \* low, medium, high, critical

\* Each level has one action: allow, notify, step-up, block-and-recover.
Level(score) ==
  CASE score <= 29 -> 0 [] score \in 30..54 -> 1
    [] score \in 55..79 -> 2 [] OTHER -> 3

RequiresStepUp(level) == level >= 2

Decision == [session : Sessions, penalties : Penalties, credit : U8,
             score : 0..100, level : Levels, step_up : BOOLEAN]

Evaluate(s, p, credit) ==
  LET score == Score(p, credit) IN
  [session |-> s, penalties |-> p, credit |-> credit, score |-> score,
   level |-> Level(score), step_up |-> RequiresStepUp(Level(score))]
-----------------------------------------------------------------------------
VARIABLES
  live,       \* sessions created and neither revoked nor expired
  bound,      \* sessions that were ever bound to a trusted device
  req,        \* the decision a request is about to record
  decision,   \* authlink.guardian_decision: the row of each request's call
  answered    \* history: the decision each request was answered

vars == <<live, bound, req, decision, answered>>

\* The type of the sessions, the requests and the rows.
TypeOK ==
  /\ live \subseteq Sessions /\ bound \subseteq Sessions
  /\ req \in [Requests -> Decision \cup {None}]
  /\ decision \in [Requests -> Decision \cup {None}]
  /\ answered \in [Requests -> Decision \cup {None}]

Init ==
  /\ live \in SUBSET Sessions /\ bound = {}
  /\ req = [r \in Requests |-> None]
  /\ decision = [r \in Requests |-> None]
  /\ answered = [r \in Requests |-> None]

\* authorize_current_identity: the relation on a user's own identity was
\* written before its first session, so it is the lookup of the session.
Authorized(s) == s \in live

\* Defect variant: a credit in the body is believed.
CreditClaimed(s, claim) == IF s \in bound THEN 6 ELSE claim

\* The credit is a server-side fact: the one in the body is overwritten.
StrongAuthCredit(s, claim) == IF s \in bound THEN 6 ELSE 0

\* evaluate_guardian up to the decision; a dead session is answered 401.
ReceiveEvaluate(r) ==
  /\ req[r] = None
  /\ \E s \in Sessions, p \in Sent, claim \in Claims :
       \/ /\ Authorized(s)
          /\ req' = [req EXCEPT ![r] = Evaluate(s, p, StrongAuthCredit(s, claim))]
          /\ decision' = [decision EXCEPT ![r] = None]
          /\ answered' = [answered EXCEPT ![r] = None]
       \/ ~Authorized(s) /\ UNCHANGED <<req, decision, answered>>
  /\ UNCHANGED <<live, bound>>

\* Defect variant: a decision that could not be recorded is answered anyway.
AnswerUnrecorded(r) ==
  /\ req[r] # None
  /\ decision' \in {decision, [decision EXCEPT ![r] = req[r]]}
  /\ answered' = [answered EXCEPT ![r] = req[r]]
  /\ req' = [req EXCEPT ![r] = None]
  /\ UNCHANGED <<live, bound>>

\* record_guardian_decision and the answer, which may be lost.
RecordDecision(r) ==
  /\ req[r] # None
  /\ decision' = [decision EXCEPT ![r] = req[r]]
  /\ answered' \in {answered, [answered EXCEPT ![r] = req[r]]}
  /\ req' = [req EXCEPT ![r] = None]
  /\ UNCHANGED <<live, bound>>

\* A failed call, answered with an error, or a cancelled handler.
Fail(r) ==
  /\ req[r] # None
  /\ req' = [req EXCEPT ![r] = None]
  /\ UNCHANGED <<live, bound, decision, answered>>

\* The device service binds a session; a logout, a revocation or the clock
\* ends it.
BindDevice(s) ==
  /\ s \in live /\ s \notin bound
  /\ bound' = bound \cup {s}
  /\ UNCHANGED <<live, req, decision, answered>>

EndSession(s) ==
  /\ s \in live
  /\ live' = live \ {s}
  /\ UNCHANGED <<bound, req, decision, answered>>

Next ==
  \/ \E r \in Requests : ReceiveEvaluate(r) \/ RecordDecision(r) \/ Fail(r)
  \/ \E s \in Sessions : BindDevice(s) \/ EndSession(s)

Spec == Init /\ [][Next]_vars
-----------------------------------------------------------------------------
AtMost(p, q) == \A f \in DOMAIN p : p[f] <= q[f]

Answers == {answered[r] : r \in Requests} \ {None}

\* Worse signals are never answered with a lower score or a weaker action,
\* whatever the weights: no sum wraps, no clamp or threshold is out of order.
RiskIsMonotone ==
  \A a, b \in Answers :
    a.credit = b.credit /\ AtMost(a.penalties, b.penalties)
      => a.score <= b.score /\ a.level <= b.level /\ (a.step_up => b.step_up)

\* Strong authentication lowers the answer by one level at most, and lowers
\* it never for a session that no device was bound to.
CreditIsBounded ==
  \A a, b \in Answers :
    a.penalties = b.penalties /\ a.credit < b.credit
      => b.level \in {a.level, a.level - 1} /\ b.session \in bound

\* What a client was answered is on record.
AnswersAreRecorded ==
  \A r \in Requests : answered[r] # None => decision[r] = answered[r]
=============================================================================
