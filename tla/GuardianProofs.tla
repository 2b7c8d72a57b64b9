--------------------------- MODULE GuardianProofs ---------------------------
(***************************************************************************)
(* Theorems about Guardian.                                                *)
(***************************************************************************)
EXTENDS Guardian, TLAPS

\* The sum before the clamp, with no width.
Raw(p) ==
  10 + (p.device_integrity + p.network + p.credential_exposure
          + p.session_context + p.anomaly)

\* The fields of a record of penalties.
LEMMA Weights ==
  ASSUME NEW p \in Penalties
  PROVE  /\ p.device_integrity \in 0..255 /\ p.network \in 0..255
         /\ p.credential_exposure \in 0..255
         /\ p.session_context \in 0..255 /\ p.anomaly \in 0..255
         /\ DOMAIN p = {"device_integrity", "network", "credential_exposure",
                        "session_context", "anomaly"}
  BY DEF Penalties, U8

\* No weights overflow the sum or its conversion.
LEMMA NoOverflow ==
  ASSUME NEW p \in Penalties
  PROVE  Raw(p) \in 10..1285 /\ AsI16(Positive(p)) = Raw(p) - 10
  <1> DEFINE a == p.device_integrity  b == p.network  c == p.credential_exposure
             d == p.session_context   e == p.anomaly
  <1>1. /\ a \in 0..255 /\ b \in 0..255 /\ c \in 0..255
        /\ d \in 0..255 /\ e \in 0..255
    BY Weights
  <1>2. Positive(p) = (a + b + c + d + e) % 65536 /\ Raw(p) = 10 + (a + b + c + d + e)
    BY DEF Positive, Raw
  <1> HIDE DEF a, b, c, d, e
  <1>3. PICK sum \in 0..1275 : sum = a + b + c + d + e
    BY <1>1
  <1>4. sum % 65536 = sum
    OBVIOUS
  <1>5. Positive(p) = sum /\ Raw(p) = 10 + sum
    BY <1>2, <1>3, <1>4
  <1>6. AsI16(sum) = sum /\ 10 + sum \in 10..1285 /\ (10 + sum) - 10 = sum
    BY DEF AsI16
  <1> QED
    BY <1>5, <1>6

\* A clamped number is between 0 and 100, and clamping keeps the order.
LEMMA Clamped ==
  ASSUME NEW m \in Int, NEW n \in Int, m <= n
  PROVE  /\ Clamp(m) \in 0..100 /\ Clamp(n) \in 0..100
         /\ Clamp(m) <= Clamp(n)
         /\ n <= m + 6 => Clamp(n) <= Clamp(m) + 6
  BY DEF Clamp

\* The score of a call of evaluate is a number from 0 to 100.
LEMMA ScoreExact ==
  ASSUME NEW p \in Penalties, NEW credit \in U8
  PROVE  /\ Raw(p) - credit \in Int
         /\ Score(p, credit) = Clamp(Raw(p) - credit)
         /\ Score(p, credit) \in 0..100
  <1>1. /\ Raw(p) \in 10..1285 /\ credit \in 0..255
        /\ AsI16(Positive(p)) = Raw(p) - 10
    BY NoOverflow DEF U8
  <1>2. PICK x \in 10..1285 : x = Raw(p)
    BY <1>1
  <1>3. 10 + (x - 10) - credit = x - credit /\ x - credit \in Int
    BY <1>1
  <1>4. Score(p, credit) = Clamp(10 + (x - 10) - credit)
    BY <1>1, <1>2 DEF Score
  <1>5. Score(p, credit) = Clamp(Raw(p) - credit) /\ Raw(p) - credit \in Int
    BY <1>2, <1>3, <1>4
  <1> QED
    BY <1>5, Clamped

\* The thresholds cover the scores and are in order.
LEMMA LevelMonotone ==
  ASSUME NEW m \in 0..100, NEW n \in 0..100, m <= n
  PROVE  /\ Level(m) \in Levels /\ Level(n) \in Levels
         /\ Level(m) <= Level(n)
         /\ n <= m + 6 => Level(m) \in {Level(n), Level(n) - 1}
  <1>1. \A k \in 0..100 :
          Level(k) = IF k <= 29 THEN 0 ELSE IF k <= 54 THEN 1
                     ELSE IF k <= 79 THEN 2 ELSE 3
    BY DEF Level
  <1>2. Level(m) \in Levels /\ Level(n) \in Levels
    BY <1>1 DEF Levels
  <1> QED
    BY <1>1, <1>2

\* Worse signals raise the score or leave it.
LEMMA ScoreMonotone ==
  ASSUME NEW p \in Penalties, NEW q \in Penalties, NEW credit \in U8, AtMost(p, q)
  PROVE  Score(p, credit) <= Score(q, credit)
  <1>1. Raw(p) <= Raw(q)
    <2> DEFINE a == p.device_integrity  b == p.network  c == p.credential_exposure
               d == p.session_context   e == p.anomaly
               v == q.device_integrity  w == q.network  x == q.credential_exposure
               y == q.session_context   z == q.anomaly
    <2>1. a <= v /\ b <= w /\ c <= x /\ d <= y /\ e <= z
      BY Weights DEF AtMost
    <2>2. /\ a \in 0..255 /\ b \in 0..255 /\ c \in 0..255
          /\ d \in 0..255 /\ e \in 0..255
      BY Weights
    <2>3. /\ v \in 0..255 /\ w \in 0..255 /\ x \in 0..255
          /\ y \in 0..255 /\ z \in 0..255
      BY Weights
    <2>4. /\ Raw(p) = 10 + (a + b + c + d + e)
          /\ Raw(q) = 10 + (v + w + x + y + z)
      BY DEF Raw
    <2> HIDE DEF a, b, c, d, e, v, w, x, y, z
    <2>5. 10 + (a + b + c + d + e) <= 10 + (v + w + x + y + z)
      BY <2>1, <2>2, <2>3
    <2> QED
      BY <2>4, <2>5
  <1>2. PICK x \in 10..1285 : x = Raw(p)
    BY NoOverflow
  <1>3. PICK y \in 10..1285 : y = Raw(q)
    BY NoOverflow
  <1>4. x <= y
    BY <1>1, <1>2, <1>3
  <1>5. credit \in 0..255
    BY DEF U8
  <1>6. x - credit <= y - credit /\ x - credit \in Int /\ y - credit \in Int
    BY <1>4, <1>5
  <1>7. Score(p, credit) = Clamp(x - credit)
    BY <1>2, ScoreExact
  <1>8. Score(q, credit) = Clamp(y - credit)
    BY <1>3, ScoreExact
  <1> QED
    BY <1>6, <1>7, <1>8, Clamped

\* The credit of six lowers a score by six at most.
LEMMA CreditLowers ==
  ASSUME NEW p \in Penalties
  PROVE  Score(p, 6) <= Score(p, 0) /\ Score(p, 0) <= Score(p, 6) + 6
  <1>1. PICK x \in 10..1285 : x = Raw(p)
    BY NoOverflow
  <1>2. /\ Score(p, 6) = Clamp(Raw(p) - 6)
        /\ Score(p, 0) = Clamp(Raw(p) - 0)
    BY ScoreExact DEF U8
  <1>3. /\ x - 6 \in Int /\ x - 0 \in Int
        /\ x - 6 <= x - 0 /\ x - 0 <= (x - 6) + 6
    OBVIOUS
  <1>4. Score(p, 6) = Clamp(x - 6) /\ Score(p, 0) = Clamp(x - 0)
    BY <1>1, <1>2
  <1> QED
    BY <1>3, <1>4, Clamped

\* A call of evaluate returns a decision.
LEMMA EvaluateType ==
  ASSUME NEW s \in Sessions, NEW p \in Penalties, NEW credit \in U8
  PROVE  Evaluate(s, p, credit) \in Decision
  <1>1. Score(p, credit) \in 0..100
    BY ScoreExact
  <1>2. Level(Score(p, credit)) \in Levels
    BY <1>1, LevelMonotone
  <1> QED
    BY <1>1, <1>2 DEF Evaluate, Decision, RequiresStepUp
-----------------------------------------------------------------------------
\* A decision computed by evaluate_guardian: the credit is one the server
\* grants, and six only for a session that was bound.
Computed(d) ==
  /\ d = Evaluate(d.session, d.penalties, d.credit)
  /\ d.credit \in {0, 6}
  /\ d.credit = 6 => d.session \in bound

\* Inductive: an answer is computed and its slot is free.
IInv ==
  /\ TypeOK
  /\ \A r \in Requests : req[r] # None => Computed(req[r])
  /\ \A r \in Requests : answered[r] # None => Computed(answered[r]) /\ req[r] = None
  /\ AnswersAreRecorded

LEMMA InitIInv == Init => IInv
  BY DEF Init, IInv, TypeOK, AnswersAreRecorded

LEMMA ReceiveEvaluateStep ==
  ASSUME IInv, NEW r \in Requests, ReceiveEvaluate(r)
  PROVE  IInv'
  <1>1. PICK s \in Sessions, p \in Sent, claim \in Claims :
          \/ /\ Authorized(s)
             /\ req' = [req EXCEPT ![r] = Evaluate(s, p, StrongAuthCredit(s, claim))]
             /\ decision' = [decision EXCEPT ![r] = None]
             /\ answered' = [answered EXCEPT ![r] = None]
          \/ ~Authorized(s) /\ UNCHANGED <<req, decision, answered>>
    BY DEF ReceiveEvaluate
  <1>2. UNCHANGED <<live, bound>>
    BY DEF ReceiveEvaluate
  <1>3. CASE ~Authorized(s) /\ UNCHANGED <<req, decision, answered>>
    BY <1>2, <1>3 DEF IInv, TypeOK, AnswersAreRecorded, Computed
  <1>4. CASE /\ req' = [req EXCEPT ![r] = Evaluate(s, p, StrongAuthCredit(s, claim))]
             /\ decision' = [decision EXCEPT ![r] = None]
             /\ answered' = [answered EXCEPT ![r] = None]
    <2> DEFINE credit == StrongAuthCredit(s, claim)
               d == Evaluate(s, p, credit)
    <2>1. credit \in {0, 6} /\ (credit = 6 => s \in bound)
      BY DEF StrongAuthCredit
    <2>2. d \in Decision
      BY <2>1, EvaluateType, GuardianAssumption DEF U8
    <2>3. d.session = s /\ d.penalties = p /\ d.credit = credit
      BY DEF Evaluate
    <2>4. Computed(d)'
      <3>1. Computed(d)
        BY <2>1, <2>3 DEF Computed
      <3> HIDE DEF d
      <3>2. d' = d
        BY <1>2 DEF d, StrongAuthCredit, Evaluate
      <3> QED
        BY <1>2, <3>1, <3>2 DEF Computed
    <2> HIDE DEF d
    <2>5. req' = [req EXCEPT ![r] = d]
      BY <1>4 DEF d
    <2>6. TypeOK'
      BY <1>2, <1>4, <2>2, <2>5 DEF IInv, TypeOK
    <2>7. \A t \in Requests : req'[t] # None => Computed(req[t])'
      <3> SUFFICES ASSUME NEW t \in Requests, req'[t] # None PROVE Computed(req[t])'
        OBVIOUS
      <3>1. CASE t = r
        <4>1. req'[t] = d
          BY <2>5, <3>1 DEF IInv, TypeOK
        <4>2. d' = d
          BY <1>2 DEF d, StrongAuthCredit, Evaluate
        <4> QED
          BY <2>4, <4>1, <4>2 DEF Computed
      <3>2. CASE t # r
        <4>1. req'[t] = req[t]
          BY <2>5, <3>2 DEF IInv, TypeOK
        <4> QED
          BY <1>2, <4>1 DEF IInv, Computed
      <3> QED
        BY <3>1, <3>2
    <2>8. \A t \in Requests :
          answered'[t] # None => Computed(answered[t])' /\ req'[t] = None
      BY <1>2, <1>4 DEF IInv, TypeOK, Computed
    <2>9. AnswersAreRecorded'
      BY <1>4 DEF IInv, TypeOK, AnswersAreRecorded
    <2> QED
      BY <2>6, <2>7, <2>8, <2>9 DEF IInv
  <1> QED
    BY <1>1, <1>3, <1>4

LEMMA RecordDecisionStep ==
  ASSUME IInv, NEW r \in Requests, RecordDecision(r)
  PROVE  IInv'
  <1> USE DEF RecordDecision
  <1>1. /\ req[r] # None /\ bound' = bound
        /\ \A t \in Requests : decision'[t] = IF t = r THEN req[r] ELSE decision[t]
        /\ answered' = answered \/ answered' = [answered EXCEPT ![r] = req[r]]
    BY DEF IInv, TypeOK
  <1>2. \A t \in Requests :
          answered'[t] = answered[t] \/ (t = r /\ answered'[t] = req[r])
    <2>1. CASE answered' = answered
      BY <2>1
    <2>2. CASE answered' = [answered EXCEPT ![r] = req[r]]
      BY <2>2 DEF IInv, TypeOK
    <2> QED
      BY <1>1, <2>1, <2>2
  <1>3. TypeOK'
    BY DEF IInv, TypeOK
  <1>4. \A t \in Requests : req'[t] # None => Computed(req[t])'
    BY DEF IInv, TypeOK, Computed
  <1>5. \A t \in Requests :
          answered'[t] # None => Computed(answered[t])' /\ req'[t] = None
    <2> SUFFICES ASSUME NEW t \in Requests, answered'[t] # None
                 PROVE  Computed(answered[t])' /\ req'[t] = None
      OBVIOUS
    <2>1. \/ Computed(answered[t]) /\ answered'[t] = answered[t]
          \/ Computed(req[r]) /\ answered'[t] = req[r]
      BY <1>1, <1>2 DEF IInv
    <2>2. req'[t] = None
      BY <1>1, <1>2 DEF IInv, TypeOK
    <2> QED
      BY <1>1, <2>1, <2>2 DEF Computed
  <1>6. AnswersAreRecorded'
    BY <1>1, <1>2 DEF IInv, AnswersAreRecorded
  <1> QED
    BY <1>3, <1>4, <1>5, <1>6 DEF IInv

LEMMA IInvStep == IInv /\ [Next]_vars => IInv'
  <1> SUFFICES ASSUME IInv, [Next]_vars PROVE IInv'
    OBVIOUS
  <1>1. ASSUME NEW r \in Requests, ReceiveEvaluate(r) PROVE IInv'
    BY <1>1, ReceiveEvaluateStep
  <1>2. ASSUME NEW r \in Requests, RecordDecision(r) PROVE IInv'
    BY <1>2, RecordDecisionStep
  <1>3. ASSUME NEW r \in Requests, Fail(r) PROVE IInv'
    BY <1>3 DEF Fail, IInv, TypeOK, Computed, AnswersAreRecorded
  <1>4. ASSUME NEW s \in Sessions, BindDevice(s) PROVE IInv'
    BY <1>4 DEF BindDevice, IInv, TypeOK, Computed, AnswersAreRecorded
  <1>5. ASSUME NEW s \in Sessions, EndSession(s) PROVE IInv'
    BY <1>5 DEF EndSession, IInv, TypeOK, Computed, AnswersAreRecorded
  <1>6. CASE UNCHANGED vars
    BY <1>6 DEF vars, IInv, TypeOK, Computed, AnswersAreRecorded
  <1> QED
    BY <1>1, <1>2, <1>3, <1>4, <1>5, <1>6 DEF Next

LEMMA InductiveInvariant == Spec => []IInv
  BY InitIInv, IInvStep, PTL DEF Spec

\* The type of the sessions, the requests and the rows.
THEOREM TypeCorrect == Spec => []TypeOK
  <1>1. IInv => TypeOK
    BY DEF IInv
  <1> QED
    BY <1>1, InductiveInvariant, PTL

\* What a client was answered is on record.
THEOREM Recorded == Spec => []AnswersAreRecorded
  <1>1. IInv => AnswersAreRecorded
    BY DEF IInv
  <1> QED
    BY <1>1, InductiveInvariant, PTL

\* What an answer shows is what evaluate computes from its signals.
LEMMA AnswerShape ==
  ASSUME IInv, NEW a \in Answers
  PROVE  /\ a.penalties \in Penalties /\ a.credit \in {0, 6}
         /\ a.credit = 6 => a.session \in bound
         /\ a.score = Score(a.penalties, a.credit)
         /\ a.level = Level(a.score)
         /\ a.step_up = RequiresStepUp(a.level)
  <1>1. a \in Decision /\ Computed(a)
    BY DEF Answers, IInv, TypeOK
  <1> DEFINE d == Evaluate(a.session, a.penalties, a.credit)
  <1>2. /\ d.score = Score(a.penalties, a.credit)
        /\ d.level = Level(d.score)
        /\ d.step_up = RequiresStepUp(d.level)
    BY DEF Evaluate
  <1>3. a = d
    BY <1>1 DEF Computed
  <1> HIDE DEF d
  <1> QED
    BY <1>1, <1>2, <1>3 DEF Decision, Computed

\* Worse signals are never answered with a lower score or a weaker action,
\* for all weights a client can send.
THEOREM Monotone == Spec => []RiskIsMonotone
  <1>1. IInv => RiskIsMonotone
    <2> SUFFICES ASSUME IInv, NEW a \in Answers, NEW b \in Answers,
                        a.credit = b.credit, AtMost(a.penalties, b.penalties)
                 PROVE  a.score <= b.score /\ a.level <= b.level
                          /\ (a.step_up => b.step_up)
      BY DEF RiskIsMonotone
    <2>1. a.score \in 0..100 /\ b.score \in 0..100 /\ a.score <= b.score
      BY AnswerShape, ScoreMonotone, ScoreExact DEF U8
    <2>2. /\ a.level \in Levels /\ b.level \in Levels /\ a.level <= b.level
      BY <2>1, AnswerShape, LevelMonotone
    <2>3. a.step_up => b.step_up
      <3>1. \A m, n \in Levels : m <= n /\ RequiresStepUp(m) => RequiresStepUp(n)
        BY DEF RequiresStepUp, Levels
      <3>2. a.step_up = RequiresStepUp(a.level) /\ b.step_up = RequiresStepUp(b.level)
        BY AnswerShape
      <3> QED
        BY <2>2, <3>1, <3>2
    <2> QED
      BY <2>1, <2>2, <2>3
  <1> QED
    BY <1>1, InductiveInvariant, PTL

\* Strong authentication lowers the answer by one level at most, and never
\* for a session that no device was bound to.
THEOREM CreditBounded == Spec => []CreditIsBounded
  <1>1. IInv => CreditIsBounded
    <2> SUFFICES ASSUME IInv, NEW a \in Answers, NEW b \in Answers,
                        a.penalties = b.penalties, a.credit < b.credit
                 PROVE  b.level \in {a.level, a.level - 1} /\ b.session \in bound
      BY DEF CreditIsBounded
    <2>1. a.credit = 0 /\ b.credit = 6
      BY AnswerShape
    <2>2. /\ a.score \in 0..100 /\ b.score \in 0..100
          /\ b.score <= a.score /\ a.score <= b.score + 6
      BY <2>1, AnswerShape, CreditLowers, ScoreExact DEF U8
    <2>3. b.level \in {a.level, a.level - 1}
      BY <2>2, AnswerShape, LevelMonotone
    <2> QED
      BY <2>1, <2>3, AnswerShape
  <1> QED
    BY <1>1, InductiveInvariant, PTL
=============================================================================
