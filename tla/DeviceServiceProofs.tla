------------------------ MODULE DeviceServiceProofs ------------------------
(***************************************************************************)
(* Theorems about DeviceService for every set of users, keys, sessions,    *)
(* challenges and concurrent requests.                                     *)
(***************************************************************************)
EXTENDS DeviceService, TLAPS

\* The operations each call belongs to, and the fields a handler has at it.
RequestShape ==
  \A r \in Requests :
    /\ ~At(r, "idle") => req[r].session \in Sessions
    /\ req[r].pc \in {"load", "consume", "upsert", "check_owner", "write_owner",
                      "trust", "bind", "bind_locked", "revoke",
                      "revoke_sessions", "sweep"} => req[r].device \in Devices
    /\ At(r, "load") =>
         \/ req[r].op = "bind_challenge"
         \/ req[r].op = "bind_complete" /\ req[r].challenge \in Challenges
    /\ At(r, "consume") => /\ req[r].op \in {"enroll_complete", "bind_complete"}
                           /\ req[r].challenge \in Challenges
    /\ At(r, "issue") => req[r].op \in {"enroll_challenge", "bind_challenge"}
    /\ req[r].pc \in {"consume", "upsert", "check_owner", "write_owner", "trust",
                      "bind", "bind_locked", "revoke_sessions", "sweep"} =>
         OwnerOf(req[r].device) = IdentityOf(r)
    /\ ~At(r, "sweep") => req[r].found = {} /\ req[r].swept = {}

TypeInv == TypeOK /\ RequestShape
-----------------------------------------------------------------------------
(* Type correctness. *)

\* A request that arrives is well typed and has what its first call needs.
LEMMA ReceiveType ==
  ASSUME TypeInv, NEW r \in Requests, NEW op \in Ops, NEW pc \in PCs,
         NEW s \in Sessions, NEW d \in Devices \cup {None},
         NEW c \in Challenges \cup {None}, NEW k \in Keys \cup {None},
         Receive(r, op, pc, s, d, c, k),
         \/ pc = "issue" /\ op = "enroll_challenge"
         \/ pc = "load" /\ op = "bind_challenge" /\ d \in Devices
         \/ pc = "load" /\ op = "bind_complete" /\ d \in Devices /\ c \in Challenges
         \/ pc = "revoke" /\ d \in Devices
         \/ /\ pc = "consume" /\ op = "enroll_complete" /\ c \in Challenges
            /\ d \in Devices /\ OwnerOf(d) = SessionIdentity[s]
  PROVE  TypeInv'
  <1>1. [pc |-> pc, op |-> op, session |-> s, device |-> d,
         challenge |-> c, signer |-> k, found |-> {}, swept |-> {}] \in Request
    BY DEF Request
  <1>2. req' \in [Requests -> Request]
    BY <1>1 DEF Receive, TypeInv, TypeOK
  <1>3. TypeOK'
    BY <1>2 DEF Receive, TypeInv, TypeOK, StoreTypeOK
  <1>4. RequestShape'
    BY DEF Receive, TypeInv, TypeOK, RequestShape, At, IdentityOf, PCs, Ops
  <1> QED
    BY <1>3, <1>4 DEF TypeInv

\* A request that arrives, whatever its operation, keeps the types.
LEMMA ArrivalType ==
  ASSUME TypeInv, NEW r \in Requests, Arrival(r)
  PROVE  TypeInv'
  <1>1. CASE RejectUnauthorized(r)
    BY <1>1 DEF RejectUnauthorized, vars, TypeInv, TypeOK, StoreTypeOK,
                RequestShape, At, IdentityOf
  <1>2. CASE ReceiveEnrollChallenge(r)
    <2>1. PICK s \in Sessions :
            Receive(r, "enroll_challenge", "issue", s, None, None, None)
      BY <1>2 DEF ReceiveEnrollChallenge
    <2> QED
      BY <2>1, ReceiveType DEF Ops, PCs
  <1>3. CASE ReceiveEnrollComplete(r)
    <2>1. PICK s \in Sessions, k \in Keys, c \in Challenges,
               signer \in Keys \cup {None} :
            Receive(r, "enroll_complete", "consume", s, <<SessionIdentity[s], k>>,
                    c, signer)
      BY <1>3 DEF ReceiveEnrollComplete
    <2>2. /\ <<SessionIdentity[s], k>> \in Devices
          /\ OwnerOf(<<SessionIdentity[s], k>>) = SessionIdentity[s]
      BY StoreAssumption DEF Devices, OwnerOf
    <2> QED
      BY <2>1, <2>2, ReceiveType DEF Ops, PCs
  <1>4. CASE ReceiveForDevice(r)
    <2>1. PICK s \in Sessions, d \in Devices :
            \/ Receive(r, "bind_challenge", "load", s, d, None, None)
            \/ Receive(r, "revoke_device", "revoke", s, d, None, None)
            \/ \E c \in Challenges, signer \in Keys \cup {None} :
                 Receive(r, "bind_complete", "load", s, d, c, signer)
      BY <1>4 DEF ReceiveForDevice
    <2> QED
      BY <2>1, ReceiveType DEF Ops, PCs
  <1> QED
    BY <1>1, <1>2, <1>3, <1>4 DEF Arrival

\* Answering a request keeps the shape of all requests.
LEMMA AnswerShape ==
  ASSUME TypeInv, NEW r \in Requests, Answer(r)
  PROVE  req' \in [Requests -> Request] /\ RequestShape'
  <1>1. Idle \in Request
    BY DEF Idle, Request, PCs
  <1> QED
    BY <1>1 DEF Answer, Idle, TypeInv, TypeOK, RequestShape, At, IdentityOf

\* Moving to a later call keeps the types of all requests.
LEMMA GotoType ==
  ASSUME TypeInv, NEW r \in Requests, NEW pc \in PCs, Goto(r, pc)
  PROVE  req' \in [Requests -> Request]
  BY DEF Goto, TypeInv, TypeOK, Request

\* Each call that waits for nobody keeps the types.
LEMMA CallType ==
  ASSUME TypeInv, NEW r \in Requests, Call(r)
  PROVE  TypeInv'
  <1> USE DEF TypeInv
  <1>1. CASE LoadOwnedDevice(r)
    <2>1. CASE MayRead(r)
      <3>1. OwnerOf(req[r].device) = IdentityOf(r)
        BY <2>1 DEF MayRead, LoadTrustedDevice
      <3>2. req' \in [Requests -> Request]
        BY <1>1, <2>1, GotoType DEF LoadOwnedDevice, PCs
      <3>3. RequestShape'
        BY <1>1, <2>1, <3>1
           DEF LoadOwnedDevice, Goto, RequestShape, At, IdentityOf, TypeOK, Request
      <3> QED
        BY <1>1, <3>2, <3>3 DEF LoadOwnedDevice, TypeOK, StoreTypeOK
    <2>2. CASE ~MayRead(r)
      BY <1>1, <2>2, AnswerShape DEF LoadOwnedDevice, TypeOK, StoreTypeOK
    <2> QED
      BY <2>1, <2>2
  <1>2. CASE IssueChallenge(r)
    <2>1. req' \in [Requests -> Request] /\ RequestShape'
      BY <1>2, AnswerShape DEF IssueChallenge
    <2>2. /\ ActionOf(req[r].op) \in ChallengeActions
          /\ req[r].session \in Sessions
          /\ req[r].device \in Devices \cup {None}
      BY <1>2 DEF IssueChallenge, ActionOf, ChallengeActions, RequestShape, At,
                  TypeOK, Request
    <2>3. challenge' \in [Challenges -> ChallengeRow]
      BY <1>2, <2>2
         DEF IssueChallenge, CreateDeviceChallenge, TypeOK, StoreTypeOK, ChallengeRow
    <2> QED
      BY <1>2, <2>1, <2>3 DEF IssueChallenge, TypeOK, StoreTypeOK
  <1>3. CASE ConsumeChallenge(r)
    <2>1. req[r].challenge \in Challenges /\ req[r].session \in Sessions
      BY <1>3 DEF ConsumeChallenge, RequestShape, At
    <2>2. /\ GotoVerified(r) \/ Answer(r)
          /\ SpendChallenge(req[r].challenge) \/ challenge' = challenge
      BY <1>3 DEF ConsumeChallenge
    <2>3. req' \in [Requests -> Request] /\ RequestShape'
      <3>1. CASE GotoVerified(r)
        <4>1. req' \in [Requests -> Request]
          <5> DEFINE next == IF req[r].op = "enroll_complete" THEN "upsert" ELSE "bind"
          <5>1. next \in PCs
            BY DEF PCs
          <5>2. [req[r] EXCEPT !.pc = next] \in Request
            BY <5>1 DEF TypeOK, Request
          <5> HIDE DEF next
          <5>3. [[req[r] EXCEPT !.pc = next] EXCEPT !.challenge = None] \in Request
            BY <5>2 DEF Request
          <5>4. [[[req[r] EXCEPT !.pc = next] EXCEPT !.challenge = None]
                   EXCEPT !.signer = None] \in Request
            BY <5>3 DEF Request
          <5> QED
            BY <3>1, <5>4 DEF GotoVerified, TypeOK, next
        <4>2. RequestShape'
          BY <1>3, <3>1 DEF ConsumeChallenge, GotoVerified, RequestShape, At,
                            IdentityOf, TypeOK, Request
        <4> QED
          BY <4>1, <4>2
      <3> QED
        BY <2>2, <3>1, AnswerShape
    <2>4. challenge' \in [Challenges -> ChallengeRow]
      <3>1. CASE SpendChallenge(req[r].challenge)
        BY <2>1, <3>1 DEF SpendChallenge, TypeOK, StoreTypeOK, ChallengeRow
      <3> QED
        BY <2>2, <3>1 DEF TypeOK, StoreTypeOK
    <2>5. taken' \in [Challenges -> Nat]
      BY <1>3, <2>1 DEF ConsumeChallenge, TypeOK
    <2>6. evidence' \in [Challenges -> Devices \cup {None}]
      <3>1. req[r].signer # None => <<IdentityOf(r), req[r].signer>> \in Devices
        BY <2>1, StoreAssumption DEF TypeOK, Request, IdentityOf, Devices
      <3> QED
        BY <1>3, <3>1 DEF ConsumeChallenge, TypeOK
    <2> QED
      BY <1>3, <2>3, <2>4, <2>5, <2>6 DEF ConsumeChallenge, TypeOK, StoreTypeOK
  <1>4. CASE CheckOwner(r)
    <2>1. req' \in [Requests -> Request]
      BY <1>4, GotoType DEF CheckOwner, PCs
    <2>2. RequestShape'
      BY <1>4 DEF CheckOwner, Goto, RequestShape, At, IdentityOf, TypeOK, Request
    <2> QED
      BY <1>4, <2>1, <2>2 DEF CheckOwner, TypeOK, StoreTypeOK
  <1>5. CASE WriteOwner(r)
    <2>1. req' \in [Requests -> Request] /\ RequestShape'
      <3>1. CASE Answer(r)
        BY <3>1, AnswerShape
      <3>2. CASE Goto(r, "trust")
        <4>1. req' \in [Requests -> Request]
          BY <3>2, GotoType DEF PCs
        <4>2. RequestShape'
          BY <1>5, <3>2 DEF WriteOwner, Goto, RequestShape, At, IdentityOf,
                            TypeOK, Request
        <4> QED
          BY <4>1, <4>2
      <3> QED
        BY <1>5, <3>1, <3>2 DEF WriteOwner
    <2>2. <<IdentityOf(r), req[r].device>> \in Identities \X Devices
      BY <1>5, StoreAssumption DEF WriteOwner, RequestShape, At, IdentityOf
    <2> QED
      BY <1>5, <2>1, <2>2 DEF WriteOwner, TypeOK, StoreTypeOK
  <1>6. CASE SelectBind(r)
    <2>1. req' \in [Requests -> Request] /\ RequestShape'
      <3>1. CASE Answer(r)
        BY <3>1, AnswerShape
      <3>2. CASE Goto(r, "bind_locked")
        <4>1. req' \in [Requests -> Request]
          BY <3>2, GotoType DEF PCs
        <4>2. RequestShape'
          BY <1>6, <3>2 DEF SelectBind, Goto, RequestShape, At, IdentityOf,
                            TypeOK, Request
        <4> QED
          BY <4>1, <4>2
      <3> QED
        BY <1>6, <3>1, <3>2 DEF SelectBind
    <2> QED
      BY <1>6, <2>1 DEF SelectBind, TypeOK, StoreTypeOK
  <1>7. CASE SelectSessions(r)
    <2>1. BoundSessions(req[r].device) \in SUBSET Sessions
      BY DEF BoundSessions
    <2>2. [[req[r] EXCEPT !.pc = "sweep"]
             EXCEPT !.found = BoundSessions(req[r].device)] \in Request
      BY <2>1 DEF TypeOK, Request, PCs
    <2>3. req' \in [Requests -> Request]
      BY <1>7, <2>2 DEF SelectSessions, TypeOK
    <2>4. RequestShape'
      BY <1>7 DEF SelectSessions, RequestShape, At, IdentityOf, TypeOK, Request
    <2>5. late' \in [Devices -> SUBSET Sessions]
      BY <1>7 DEF SelectSessions, TypeOK
    <2> QED
      BY <1>7, <2>3, <2>4, <2>5 DEF SelectSessions, TypeOK, StoreTypeOK
  <1>8. CASE CommitRevoke(r)
    <2>1. session' \in [Sessions -> SessionRow]
      BY <1>8 DEF CommitRevoke, RevokeTrustedDevice, RevokeSessions, TypeOK,
                  StoreTypeOK, SessionRow
    <2>2. device' \in [Devices -> TrustStates]
      BY <1>8 DEF CommitRevoke, RevokeTrustedDevice, TypeOK, StoreTypeOK, TrustStates
    <2> QED
      BY <1>8, <2>1, <2>2, AnswerShape DEF CommitRevoke, TypeOK, StoreTypeOK
  <1> QED
    BY <1>1, <1>2, <1>3, <1>4, <1>5, <1>6, <1>7, <1>8 DEF Call

\* Each write that queues for a row keeps the types.
LEMMA RowWriteType ==
  ASSUME TypeInv, NEW r \in Requests, RowWrite(r)
  PROVE  TypeInv'
  <1> USE DEF TypeInv
  <1>1. CASE UpsertDevice(r)
    <2>1. Goto(r, "check_owner") \/ Answer(r)
      BY <1>1 DEF UpsertDevice
    <2>2. req' \in [Requests -> Request] /\ RequestShape'
      <3>1. CASE Goto(r, "check_owner")
        <4>1. req' \in [Requests -> Request]
          BY <3>1, GotoType DEF PCs
        <4>2. RequestShape'
          BY <1>1, <3>1 DEF UpsertDevice, Goto, RequestShape, At, IdentityOf,
                            TypeOK, Request
        <4> QED
          BY <4>1, <4>2
      <3> QED
        BY <2>1, <3>1, AnswerShape
    <2>3. device' \in [Devices -> TrustStates]
      BY <1>1 DEF UpsertDevice, UpsertUnrevokedDevice, TypeOK, StoreTypeOK,
                  TrustStates
    <2> QED
      BY <1>1, <2>2, <2>3 DEF UpsertDevice, TypeOK, StoreTypeOK
  <1>2. CASE MarkTrusted(r)
    <2>1. Goto(r, "bind") \/ Answer(r)
      BY <1>2 DEF MarkTrusted
    <2>2. req' \in [Requests -> Request] /\ RequestShape'
      <3>1. CASE Goto(r, "bind")
        <4>1. req' \in [Requests -> Request]
          BY <3>1, GotoType DEF PCs
        <4>2. RequestShape'
          BY <1>2, <3>1 DEF MarkTrusted, Goto, RequestShape, At, IdentityOf,
                            TypeOK, Request
        <4> QED
          BY <4>1, <4>2
      <3> QED
        BY <2>1, <3>1, AnswerShape
    <2>3. device' \in [Devices -> TrustStates]
      BY <1>2 DEF MarkTrusted, MarkDeviceTrusted, TypeOK, StoreTypeOK, TrustStates
    <2> QED
      BY <1>2, <2>2, <2>3 DEF MarkTrusted, TypeOK, StoreTypeOK
  <1>3. CASE MarkRevoked(r)
    <2>1. req' \in [Requests -> Request] /\ RequestShape'
      <3>1. CASE Revocable(req[r].device, IdentityOf(r)) /\ Goto(r, "revoke_sessions")
        <4>1. req' \in [Requests -> Request]
          BY <3>1, GotoType DEF PCs
        <4>2. RequestShape'
          BY <1>3, <3>1 DEF MarkRevoked, Revocable, Goto, RequestShape, At,
                            IdentityOf, TypeOK, Request
        <4> QED
          BY <4>1, <4>2
      <3> QED
        BY <1>3, <3>1, AnswerShape DEF MarkRevoked
    <2> QED
      BY <1>3, <2>1 DEF MarkRevoked, TypeOK, StoreTypeOK
  <1>4. CASE ApplyBind(r)
    <2>1. req[r].device \in Devices /\ req[r].session \in Sessions
      BY <1>4 DEF ApplyBind, RequestShape, At
    <2>2. session' \in [Sessions -> SessionRow]
      BY <1>4, <2>1 DEF ApplyBind, BindSession, TypeOK, StoreTypeOK, SessionRow
    <2>3. late' \in [Devices -> SUBSET Sessions]
      BY <1>4, <2>1 DEF ApplyBind, TypeOK
    <2> QED
      BY <1>4, <2>2, <2>3, AnswerShape DEF ApplyBind, TypeOK, StoreTypeOK
  <1>5. CASE LockSession(r)
    <2>1. PICK s \in req[r].found :
            req' = [req EXCEPT
              ![r].found = @ \ {s},
              ![r].swept = @ \cup ({s} \cap BoundSessions(req[r].device))]
      BY <1>5 DEF LockSession
    <2>2. {s} \cap BoundSessions(req[r].device) \subseteq Sessions
      BY DEF BoundSessions
    <2>3. req' \in [Requests -> Request]
      <3> DEFINE q == [req[r] EXCEPT !.found = @ \ {s}]
                 w == q.swept \cup ({s} \cap BoundSessions(req[r].device))
      <3>1. q \in Request
        BY DEF TypeOK, Request
      <3>2. w \in SUBSET Sessions
        BY <2>2, <3>1 DEF Request
      <3>3. [q EXCEPT !.swept = w] \in Request
        <4> HIDE DEF q, w
        <4> QED
          BY <3>1, <3>2 DEF Request
      <3> QED
        BY <2>1, <3>3 DEF TypeOK
    <2>4. RequestShape'
      BY <1>5, <2>1 DEF LockSession, RequestShape, At, IdentityOf, TypeOK, Request
    <2> QED
      BY <1>5, <2>3, <2>4 DEF LockSession, TypeOK, StoreTypeOK
  <1> QED
    BY <1>1, <1>2, <1>3, <1>4, <1>5 DEF RowWrite

\* The gateway and the clock keep the types.
LEMMA EnvironmentType ==
  ASSUME TypeInv, Environment
  PROVE  TypeInv'
  <1> USE DEF TypeInv
  <1>1. ASSUME NEW s \in Sessions, Login(s) \/ Logout(s) \/ SessionExpires(s)
        PROVE  TypeInv'
    <2>1. session' \in [Sessions -> SessionRow]
      BY <1>1 DEF Login, CreateSession, Logout, RevokeSession, SessionExpires,
                  ExpireSession, TypeOK, StoreTypeOK, SessionRow
    <2>2. UNCHANGED <<device, challenge, req, tuples, taken, evidence, late>>
      BY <1>1 DEF Login, Logout, SessionExpires
    <2> QED
      BY <2>1, <2>2 DEF TypeOK, StoreTypeOK, RequestShape, At, IdentityOf
  <1>2. ASSUME NEW c \in Challenges, ChallengeExpires(c)
        PROVE  TypeInv'
    <2>1. challenge' \in [Challenges -> ChallengeRow]
      BY <1>2 DEF ChallengeExpires, ExpireChallenge, TypeOK, StoreTypeOK,
                  ChallengeRow
    <2> QED
      BY <1>2, <2>1 DEF ChallengeExpires, TypeOK, StoreTypeOK, RequestShape, At,
                        IdentityOf
  <1> QED
    BY <1>1, <1>2 DEF Environment

\* TypeInv is preserved by every step of the specification.
LEMMA TypeInvStep == TypeInv /\ [Next]_vars => TypeInv'
  <1> SUFFICES ASSUME TypeInv, [Next]_vars
               PROVE  TypeInv'
    OBVIOUS
  <1>1. ASSUME NEW r \in Requests, Fail(r)
        PROVE  TypeInv'
    BY <1>1, AnswerShape DEF Fail, TypeInv, TypeOK, StoreTypeOK
  <1>2. CASE UNCHANGED vars
    BY <1>2 DEF vars, TypeInv, TypeOK, StoreTypeOK, RequestShape, At, IdentityOf
  <1> QED
    BY <1>1, <1>2, ArrivalType, CallType, RowWriteType, EnvironmentType DEF Next

\* TypeInv holds of the empty tables and idle requests.
LEMMA TypeInvInit == Init => TypeInv
  <1> SUFFICES ASSUME Init
               PROVE  TypeInv
    OBVIOUS
  <1>1. StoreTypeOK
    BY DEF Init, StoreInit, StoreTypeOK, SessionRow, ChallengeRow, TrustStates
  <1>2. Idle \in Request
    BY DEF Idle, Request, PCs
  <1>3. TypeOK
    BY <1>1, <1>2 DEF Init, TypeOK
  <1>4. RequestShape
    BY DEF Init, Idle, RequestShape, At
  <1> QED
    BY <1>3, <1>4 DEF TypeInv

\* Types and request shapes hold in every reachable state.
LEMMA TypeInvariant == Spec => []TypeInv
  BY TypeInvInit, TypeInvStep, PTL DEF Spec

\* Every variable of the service keeps its type.
THEOREM TypeCorrect == Spec => []TypeOK
  <1>1. TypeInv => TypeOK
    BY DEF TypeInv
  <1> QED
    BY <1>1, TypeInvariant, PTL
-----------------------------------------------------------------------------
(* Single use of challenges and the evidence they leave. *)

\* taken and evidence follow the challenge row; its device is the one proven.
ChallengeInv ==
  \A c \in Challenges :
    /\ taken[c] = IF challenge[c].state = "used" THEN 1 ELSE 0
    /\ evidence[c] # None => challenge[c].state = "used"
    /\ challenge[c].action = "bind-session" =>
         evidence[c] \in {None, challenge[c].device}

\* What one consume_device_challenge can do: find no row; spend the row and
\* refuse the completion; or spend it and record the device of the request.
LEMMA ConsumeCases ==
  ASSUME TypeInv, NEW r \in Requests, ConsumeChallenge(r)
  PROVE  LET c == req[r].challenge IN
         \/ Answer(r) /\ UNCHANGED <<challenge, taken, evidence>>
         \/ /\ challenge[c].state = "live"
            /\ challenge[c].session = req[r].session
            /\ challenge[c].action = ActionOf(req[r].op)
            /\ SpendChallenge(c)
            /\ taken' = [taken EXCEPT ![c] = @ + 1]
            /\ \/ Answer(r) /\ UNCHANGED evidence
               \/ /\ GotoVerified(r)
                  /\ ChallengeFits(r)
                  /\ evidence' = [evidence EXCEPT ![c] = req[r].device]
  <1> DEFINE c == req[r].challenge
             d == req[r].device
  <1>1. d \in Devices /\ OwnerOf(d) = IdentityOf(r)
    BY DEF ConsumeChallenge, TypeInv, RequestShape, At
  <1>2. CASE SignatureVerifies(r)
    <2>1. req[r].signer \in Keys /\ req[r].signer # None
      BY <1>1, <1>2, StoreAssumption DEF SignatureVerifies, KeyOf, Devices
    <2>2. d = <<IdentityOf(r), req[r].signer>>
      BY <1>1, <1>2 DEF SignatureVerifies, KeyOf, OwnerOf, Devices
    <2> QED
      BY <1>2, <2>1, <2>2 DEF ConsumeChallenge, Consumable
  <1>3. CASE ~SignatureVerifies(r)
    BY <1>3 DEF ConsumeChallenge, Consumable
  <1> QED
    BY <1>2, <1>3

\* The rest of the steps leave spent challenges and the evidence alone.
LEMMA ChallengeFrame ==
  ASSUME [Next]_vars
  PROVE  \/ \E r \in Requests : IssueChallenge(r)
         \/ \E r \in Requests : ConsumeChallenge(r)
         \/ \E c \in Challenges : ChallengeExpires(c)
         \/ UNCHANGED <<challenge, taken, evidence>>
  <1>1. ASSUME NEW r \in Requests, Arrival(r)
        PROVE  UNCHANGED <<challenge, taken, evidence>>
    BY <1>1 DEF Arrival, RejectUnauthorized, ReceiveEnrollChallenge,
                ReceiveEnrollComplete, ReceiveForDevice, Receive, vars
  <1>2. ASSUME NEW r \in Requests, Call(r)
        PROVE  \/ IssueChallenge(r) \/ ConsumeChallenge(r)
               \/ UNCHANGED <<challenge, taken, evidence>>
    BY <1>2 DEF Call, LoadOwnedDevice, CheckOwner, WriteOwner, SelectBind,
                SelectSessions, CommitRevoke
  <1>3. ASSUME NEW r \in Requests, RowWrite(r) \/ Fail(r)
        PROVE  UNCHANGED <<challenge, taken, evidence>>
    BY <1>3 DEF RowWrite, UpsertDevice, MarkTrusted, MarkRevoked, ApplyBind,
                LockSession, Fail
  <1>4. ASSUME Environment
        PROVE  \/ \E c \in Challenges : ChallengeExpires(c)
               \/ UNCHANGED <<challenge, taken, evidence>>
    BY <1>4 DEF Environment, Login, Logout, SessionExpires
  <1> QED
    BY <1>1, <1>2, <1>3, <1>4 DEF Next, vars

\* Only issue_challenge and consume_device_challenge touch ChallengeInv.
LEMMA ChallengeInvStep ==
  ASSUME TypeInv, ChallengeInv, [Next]_vars
  PROVE  ChallengeInv'
  <1> USE DEF TypeInv, TypeOK, StoreTypeOK, ChallengeRow
  <1>1. ASSUME NEW r \in Requests, IssueChallenge(r)
        PROVE  ChallengeInv'
    BY <1>1 DEF IssueChallenge, CreateDeviceChallenge, ChallengeInv
  <1>2. ASSUME NEW r \in Requests, ConsumeChallenge(r)
        PROVE  ChallengeInv'
    <2>1. req[r].op = "bind_complete" \/ ActionOf(req[r].op) = "enroll"
      BY <1>2 DEF ConsumeChallenge, RequestShape, At, ActionOf
    <2>2. req[r].challenge \in Challenges
      BY <1>2 DEF ConsumeChallenge, RequestShape, At
    <2>3. CASE UNCHANGED <<challenge, taken, evidence>>
      BY <2>3 DEF ChallengeInv
    <2>4. CASE /\ challenge[req[r].challenge].state = "live"
               /\ SpendChallenge(req[r].challenge)
               /\ taken' = [taken EXCEPT ![req[r].challenge] = @ + 1]
               /\ UNCHANGED evidence
      BY <2>2, <2>4 DEF SpendChallenge, ChallengeInv
    <2>5. CASE /\ challenge[req[r].challenge].state = "live"
               /\ challenge[req[r].challenge].action = ActionOf(req[r].op)
               /\ SpendChallenge(req[r].challenge)
               /\ taken' = [taken EXCEPT ![req[r].challenge] = @ + 1]
               /\ ChallengeFits(r)
               /\ evidence' = [evidence EXCEPT ![req[r].challenge] = req[r].device]
      <3>1. challenge[req[r].challenge].action = "bind-session" =>
              challenge[req[r].challenge].device = req[r].device
        BY <2>1, <2>5 DEF ChallengeFits
      <3> QED
        BY <2>2, <2>5, <3>1 DEF SpendChallenge, ChallengeInv
    <2> QED
      BY <1>2, <2>3, <2>4, <2>5, ConsumeCases
  <1>3. ASSUME NEW c \in Challenges, ChallengeExpires(c)
        PROVE  ChallengeInv'
    BY <1>3 DEF ChallengeExpires, ExpireChallenge, ChallengeInv
  <1>4. CASE UNCHANGED <<challenge, taken, evidence>>
    BY <1>4 DEF ChallengeInv
  <1> QED
    BY <1>1, <1>2, <1>3, <1>4, ChallengeFrame

\* Evidence is never overwritten, nor is the challenge it was left for.
LEMMA EvidenceKept ==
  ASSUME TypeInv, ChallengeInv, [Next]_vars
  PROVE  \A c \in Challenges : evidence[c] # None =>
           /\ evidence'[c] = evidence[c]
           /\ challenge'[c].session = challenge[c].session
           /\ challenge'[c].action = challenge[c].action
  <1> USE DEF TypeInv, TypeOK, StoreTypeOK, ChallengeRow, ChallengeInv
  <1>1. ASSUME NEW r \in Requests, IssueChallenge(r), NEW c \in Challenges,
               evidence[c] # None
        PROVE  evidence'[c] = evidence[c] /\ challenge'[c] = challenge[c]
    BY <1>1 DEF IssueChallenge, CreateDeviceChallenge
  <1>2. ASSUME NEW r \in Requests, ConsumeChallenge(r), NEW c \in Challenges,
               evidence[c] # None
        PROVE  evidence'[c] = evidence[c] /\ challenge'[c] = challenge[c]
    <2>1. req[r].challenge \in Challenges
      BY <1>2 DEF ConsumeChallenge, RequestShape, At
    <2> QED
      BY <1>2, <2>1, ConsumeCases DEF SpendChallenge
  <1>3. ASSUME NEW b \in Challenges, ChallengeExpires(b), NEW c \in Challenges,
               evidence[c] # None
        PROVE  evidence'[c] = evidence[c] /\ challenge'[c] = challenge[c]
    BY <1>3 DEF ChallengeExpires, ExpireChallenge
  <1> QED
    BY <1>1, <1>2, <1>3, ChallengeFrame

\* A challenge is spent exactly when one request was handed it.
LEMMA ChallengeInvariant == Spec => [](TypeInv /\ ChallengeInv)
  <1>1. Init => ChallengeInv
    BY DEF Init, StoreInit, ChallengeInv
  <1>2. TypeInv /\ ChallengeInv /\ [Next]_vars => ChallengeInv'
    BY ChallengeInvStep
  <1> QED
    BY <1>1, <1>2, TypeInvariant, PTL DEF Spec

\* Whatever requests present a challenge, and however often, one gets it.
THEOREM SingleUse == Spec => []ChallengeIsSingleUse
  <1>1. ChallengeInv => ChallengeIsSingleUse
    BY DEF ChallengeInv, ChallengeIsSingleUse
  <1> QED
    BY <1>1, ChallengeInvariant, PTL

\* A bind challenge is never accepted with the key of another device.
THEOREM OwnDevice == Spec => []ChallengeProvesItsOwnDevice
  <1>1. ChallengeInv => ChallengeProvesItsOwnDevice
    BY DEF ChallengeInv, ChallengeProvesItsOwnDevice
  <1> QED
    BY <1>1, ChallengeInvariant, PTL
-----------------------------------------------------------------------------
(* Who writes which table. *)

\* Only the gateway, the clock, a bind and a revocation write authlink.session.
LEMMA SessionWriters ==
  ASSUME [Next]_vars
  PROVE  \/ session' = session
         \/ \E s \in Sessions : Login(s) \/ Logout(s) \/ SessionExpires(s)
         \/ \E r \in Requests : ApplyBind(r) \/ CommitRevoke(r)
  <1>1. ASSUME NEW r \in Requests, Arrival(r)
        PROVE  session' = session
    BY <1>1 DEF Arrival, RejectUnauthorized, ReceiveEnrollChallenge,
                ReceiveEnrollComplete, ReceiveForDevice, Receive, vars
  <1>2. ASSUME NEW r \in Requests, Call(r)
        PROVE  CommitRevoke(r) \/ session' = session
    BY <1>2 DEF Call, LoadOwnedDevice, IssueChallenge, ConsumeChallenge,
                CheckOwner, WriteOwner, SelectBind, SelectSessions
  <1>3. ASSUME NEW r \in Requests, RowWrite(r) \/ Fail(r)
        PROVE  ApplyBind(r) \/ session' = session
    BY <1>3 DEF RowWrite, UpsertDevice, MarkTrusted, MarkRevoked, LockSession, Fail
  <1>4. ASSUME Environment
        PROVE  \/ \E s \in Sessions : Login(s) \/ Logout(s) \/ SessionExpires(s)
               \/ session' = session
    BY <1>4 DEF Environment, ChallengeExpires
  <1> QED
    BY <1>1, <1>2, <1>3, <1>4 DEF Next, vars

\* Only the upsert, the trust mark and a revocation write trusted_device.
LEMMA DeviceWriters ==
  ASSUME [Next]_vars
  PROVE  \/ device' = device
         \/ \E r \in Requests : UpsertDevice(r) \/ MarkTrusted(r) \/ CommitRevoke(r)
  <1>1. ASSUME NEW r \in Requests, Arrival(r)
        PROVE  device' = device
    BY <1>1 DEF Arrival, RejectUnauthorized, ReceiveEnrollChallenge,
                ReceiveEnrollComplete, ReceiveForDevice, Receive, vars
  <1>2. ASSUME NEW r \in Requests, Call(r)
        PROVE  CommitRevoke(r) \/ device' = device
    BY <1>2 DEF Call, LoadOwnedDevice, IssueChallenge, ConsumeChallenge,
                CheckOwner, WriteOwner, SelectBind, SelectSessions
  <1>3. ASSUME NEW r \in Requests, RowWrite(r) \/ Fail(r)
        PROVE  UpsertDevice(r) \/ MarkTrusted(r) \/ device' = device
    BY <1>3 DEF RowWrite, MarkRevoked, ApplyBind, LockSession, Fail
  <1>4. ASSUME Environment
        PROVE  device' = device
    BY <1>4 DEF Environment, Login, Logout, SessionExpires, ChallengeExpires
  <1> QED
    BY <1>1, <1>2, <1>3, <1>4 DEF Next, vars

\* Relationship tuples are only ever added.
LEMMA TuplesGrow ==
  ASSUME [Next]_vars
  PROVE  tuples \subseteq tuples'
  <1>1. ASSUME NEW r \in Requests, Arrival(r)
        PROVE  tuples' = tuples
    BY <1>1 DEF Arrival, RejectUnauthorized, ReceiveEnrollChallenge,
                ReceiveEnrollComplete, ReceiveForDevice, Receive, vars
  <1>2. ASSUME NEW r \in Requests, Call(r)
        PROVE  tuples \subseteq tuples'
    BY <1>2 DEF Call, LoadOwnedDevice, IssueChallenge, ConsumeChallenge,
                CheckOwner, WriteOwner, SelectBind, SelectSessions, CommitRevoke
  <1>3. ASSUME NEW r \in Requests, RowWrite(r) \/ Fail(r)
        PROVE  tuples' = tuples
    BY <1>3 DEF RowWrite, UpsertDevice, MarkTrusted, MarkRevoked, ApplyBind,
                LockSession, Fail
  <1>4. ASSUME Environment
        PROVE  tuples' = tuples
    BY <1>4 DEF Environment, Login, Logout, SessionExpires, ChallengeExpires
  <1> QED
    BY <1>1, <1>2, <1>3, <1>4 DEF Next, vars

\* A step of one request leaves the others where they are.
LEMMA RequestsApart ==
  ASSUME TypeInv, NEW p \in Requests, NEW r \in Requests, p # r,
         Arrival(p) \/ Call(p) \/ RowWrite(p) \/ Fail(p)
  PROVE  req'[r] = req[r]
  <1> USE DEF TypeInv, TypeOK, Answer, Goto, GotoVerified
  <1>1. CASE Arrival(p)
    BY <1>1 DEF Arrival, RejectUnauthorized, ReceiveEnrollChallenge,
                ReceiveEnrollComplete, ReceiveForDevice, Receive, vars
  <1>2. CASE Call(p)
    <2>1. CASE ConsumeChallenge(p)
      BY <2>1 DEF ConsumeChallenge
    <2>2. CASE ~ConsumeChallenge(p)
      BY <1>2, <2>2
         DEF Call, LoadOwnedDevice, IssueChallenge, CheckOwner, WriteOwner,
             SelectBind, SelectSessions, CommitRevoke
    <2> QED
      BY <2>1, <2>2
  <1>3. CASE RowWrite(p) \/ Fail(p)
    BY <1>3 DEF RowWrite, UpsertDevice, MarkTrusted, MarkRevoked, ApplyBind,
                LockSession, Fail
  <1> QED
    BY <1>1, <1>2, <1>3

\* What a request may have become after a step: itself, or its next call.
LEMMA RequestSteps ==
  ASSUME TypeInv, [Next]_vars, NEW r \in Requests
  PROVE  \/ req'[r] = req[r]
         \/ Arrival(r) \/ Call(r) \/ RowWrite(r) \/ Fail(r)
  <1>1. ASSUME NEW p \in Requests, p # r,
               Arrival(p) \/ Call(p) \/ RowWrite(p) \/ Fail(p)
        PROVE  req'[r] = req[r]
    BY <1>1, RequestsApart
  <1>2. ASSUME Environment
        PROVE  req'[r] = req[r]
    BY <1>2 DEF Environment, Login, Logout, SessionExpires, ChallengeExpires
  <1> QED
    BY <1>1, <1>2 DEF Next, vars

\* A move to another call changes the call only.
LEMMA GotoFields ==
  ASSUME TypeInv, NEW r \in Requests, NEW pc, Goto(r, pc)
  PROVE  /\ req'[r].pc = pc
         /\ req'[r].session = req[r].session
         /\ req'[r].device = req[r].device
  BY DEF Goto, TypeInv, TypeOK, Request

\* An answered request is idle again.
LEMMA AnswerFields ==
  ASSUME TypeInv, NEW r \in Requests, Answer(r)
  PROVE  req'[r] = Idle
  BY DEF Answer, TypeInv, TypeOK

\* A verified completion goes on for the same session and device.
LEMMA VerifiedFields ==
  ASSUME TypeInv, NEW r \in Requests, GotoVerified(r)
  PROVE  /\ req'[r].pc =
              IF req[r].op = "enroll_complete" THEN "upsert" ELSE "bind"
         /\ req'[r].session = req[r].session
         /\ req'[r].device = req[r].device
  BY DEF GotoVerified, TypeInv, TypeOK, Request

\* A revocation locks one of the rows it has selected.
LocksOne(r) == \E s \in req[r].found : req'[r].found = req[r].found \ {s}

\* The moves a step of r may make, and what it has established by then.
Moves(r) ==
  \/ At(r, "load") /\ req'[r].pc \in {"issue", "consume"}
  \/ ConsumeChallenge(r) /\ GotoVerified(r)
  \/ At(r, "upsert") /\ req'[r].pc = "check_owner"
  \/ At(r, "check_owner") /\ req'[r].pc = "write_owner"
  \/ /\ req[r].pc \in {"check_owner", "write_owner"}
     /\ req'[r].pc = "trust"
     /\ <<IdentityOf(r), req[r].device>> \in tuples'
  \/ At(r, "trust") /\ req'[r].pc = "bind"
  \/ /\ At(r, "bind") /\ req'[r].pc = "bind_locked"
     /\ BindSnapshot(req[r].session, req[r].device)
  \/ At(r, "revoke") /\ req'[r].pc = "revoke_sessions"
  \/ At(r, "revoke_sessions") /\ req'[r].pc = "sweep"
  \/ At(r, "sweep") /\ req'[r].pc = "sweep" /\ LocksOne(r)

\* The control graph of the handlers.
LEMMA HandlerMoves ==
  ASSUME TypeInv, NEW r \in Requests, Call(r) \/ RowWrite(r) \/ Fail(r)
  PROVE  /\ ~At(r, "idle")
         /\ \/ req'[r] = Idle
            \/ /\ req'[r].session = req[r].session
               /\ req'[r].device = req[r].device
               /\ Moves(r)
  <1>1. CASE LoadOwnedDevice(r)
    BY <1>1, AnswerFields, GotoFields DEF LoadOwnedDevice, Moves, At
  <1>2. CASE IssueChallenge(r)
    BY <1>2, AnswerFields DEF IssueChallenge, At
  <1>3. CASE ConsumeChallenge(r)
    <2>1. At(r, "consume") /\ (GotoVerified(r) \/ Answer(r))
      BY <1>3 DEF ConsumeChallenge
    <2> QED
      BY <1>3, <2>1, AnswerFields, VerifiedFields DEF Moves, At
  <1>4. CASE CheckOwner(r)
    <2>1. CASE <<IdentityOf(r), req[r].device>> \in tuples
      BY <1>4, <2>1, GotoFields DEF CheckOwner, Moves, At
    <2>2. CASE <<IdentityOf(r), req[r].device>> \notin tuples
      BY <1>4, <2>2, GotoFields DEF CheckOwner, Moves, At
    <2> QED
      BY <2>1, <2>2
  <1>5. CASE WriteOwner(r)
    <2>1. <<IdentityOf(r), req[r].device>> \in tuples'
      BY <1>5 DEF WriteOwner
    <2> QED
      BY <1>5, <2>1, AnswerFields, GotoFields DEF WriteOwner, Moves, At
  <1>6. CASE SelectBind(r)
    BY <1>6, AnswerFields, GotoFields DEF SelectBind, Moves, At
  <1>7. CASE ApplyBind(r)
    BY <1>7, AnswerFields DEF ApplyBind, At
  <1>8. CASE CommitRevoke(r)
    BY <1>8, AnswerFields DEF CommitRevoke, At
  <1>9. CASE UpsertDevice(r)
    BY <1>9, AnswerFields, GotoFields DEF UpsertDevice, Moves, At
  <1>10. CASE MarkTrusted(r)
    BY <1>10, AnswerFields, GotoFields DEF MarkTrusted, Moves, At
  <1>11. CASE MarkRevoked(r)
    BY <1>11, AnswerFields, GotoFields DEF MarkRevoked, Moves, At
  <1>12. CASE Fail(r)
    BY <1>12, AnswerFields DEF Fail
  <1>13. CASE SelectSessions(r)
    BY <1>13 DEF SelectSessions, Moves, At, TypeInv, TypeOK, Request
  <1>14. CASE LockSession(r)
    BY <1>14 DEF LockSession, LocksOne, Moves, At, TypeInv, TypeOK, Request
  <1> QED
    BY <1>1, <1>2, <1>3, <1>4, <1>5, <1>6, <1>7, <1>8, <1>9, <1>10, <1>11,
       <1>12, <1>13, <1>14 DEF Call, RowWrite
-----------------------------------------------------------------------------
(* Action properties that need no more than types. *)

\* How far along its handler each call is.
Rank == [idle |-> 0, load |-> 1, issue |-> 2, consume |-> 2, upsert |-> 3,
         check_owner |-> 4, write_owner |-> 5, trust |-> 6, bind |-> 7,
         bind_locked |-> 8, revoke |-> 6, revoke_sessions |-> 7, sweep |-> 8]

\* What a call, a row write or a failure of r does to r.
MovesOn(r) ==
  \/ req'[r] = Idle
  \/ Rank[req'[r].pc] > Rank[req[r].pc]
  \/ req'[r].pc = req[r].pc /\ LocksOne(r)

\* No handler loops: each call ends its request, takes it to a later call, eight
\* at most, or leaves one row fewer of those it has to lock.  What fairness adds to this in
\* EveryRequestIsAnswered is that no call waits for ever.
THEOREM HandlersMoveOn ==
  Spec => [][\A r \in Requests :
               Call(r) \/ RowWrite(r) \/ Fail(r) => MovesOn(r)]_vars
  <1>1. ASSUME TypeInv, NEW r \in Requests, Call(r) \/ RowWrite(r) \/ Fail(r)
        PROVE  MovesOn(r)
    <2>1. CASE req'[r] = Idle
      BY <2>1 DEF MovesOn
    <2>2. CASE Moves(r)
      <3>1. CASE ConsumeChallenge(r) /\ GotoVerified(r)
        <4>1. At(r, "consume") /\ req'[r].pc \in {"upsert", "bind"}
          BY <1>1, <3>1, VerifiedFields DEF ConsumeChallenge
        <4> QED
          BY <4>1 DEF MovesOn, Rank, At
      <3>2. CASE ~(ConsumeChallenge(r) /\ GotoVerified(r))
        BY <2>2, <3>2 DEF Moves, MovesOn, Rank, At
      <3> QED
        BY <3>1, <3>2
    <2> QED
      BY <1>1, <2>1, <2>2, HandlerMoves
  <1>2. TypeInv /\ [Next]_vars =>
          [\A r \in Requests :
             Call(r) \/ RowWrite(r) \/ Fail(r) => MovesOn(r)]_vars
    BY <1>1
  <1> QED
    BY <1>2, TypeInvariant, PTL DEF Spec

\* A revoked device stays revoked whatever handlers are under way.
THEOREM RevocationFinal == Spec => RevocationIsFinal
  <1>1. TypeInv /\ [Next]_vars =>
          [\A d \in Devices : device[d] = "revoked" => device'[d] = "revoked"]_vars
    <2> SUFFICES ASSUME TypeInv, [Next]_vars, NEW d \in Devices,
                        device[d] = "revoked"
                 PROVE  device'[d] = "revoked"
      OBVIOUS
    <2>1. ASSUME NEW r \in Requests,
                 UpsertDevice(r) \/ MarkTrusted(r) \/ CommitRevoke(r)
          PROVE  device'[d] = "revoked"
      BY <2>1 DEF UpsertDevice, UpsertUnrevokedDevice, MarkTrusted, Markable,
                  MarkDeviceTrusted, CommitRevoke, RevokeTrustedDevice, TypeInv,
                  TypeOK, StoreTypeOK
    <2> QED
      BY <2>1, DeviceWriters
  <1> QED
    BY <1>1, TypeInvariant, PTL DEF Spec, RevocationIsFinal

\* A revoked session row is never written again.
THEOREM DeadSessions == Spec => DeadSessionsStayDead
  <1>1. TypeInv /\ [Next]_vars =>
          [\A s \in Sessions :
             session[s].state = "revoked" => session'[s] = session[s]]_vars
    <2> SUFFICES ASSUME TypeInv, [Next]_vars, NEW s \in Sessions,
                        session[s].state = "revoked"
                 PROVE  session'[s] = session[s]
      OBVIOUS
    <2> USE DEF TypeInv, TypeOK, StoreTypeOK
    <2>1. ASSUME NEW t \in Sessions, Login(t) \/ Logout(t) \/ SessionExpires(t)
          PROVE  session'[s] = session[s]
      BY <2>1 DEF Login, CreateSession, Logout, RevokeSession, SessionExpires,
                  ExpireSession
    <2>2. ASSUME NEW r \in Requests, ApplyBind(r)
          PROVE  session'[s] = session[s]
      BY <2>2 DEF ApplyBind, BindRecheck, BindSession
    <2>3. ASSUME NEW r \in Requests, CommitRevoke(r)
          PROVE  session'[s] = session[s]
      BY <2>3 DEF CommitRevoke, RevokeTrustedDevice, RevokeSessions, SessionRow
    <2> QED
      BY <2>1, <2>2, <2>3, SessionWriters
  <1> QED
    BY <1>1, TypeInvariant, PTL DEF Spec, DeadSessionsStayDead
-----------------------------------------------------------------------------
(* Assurance is proven, and trusted devices have their owner in OpenFGA.   *)

\* Some challenge of session s was spent with the key of d.
Proved(s, d) ==
  \E c \in Challenges : challenge[c].session = s /\ evidence[c] = d

\* Some enrolment challenge was spent with the key of d.
Enrolled(d) ==
  \E c \in Challenges : challenge[c].action = "enroll" /\ evidence[c] = d

\* What a handler has established when it is about to make a call.
HandlerInv ==
  \A r \in Requests :
    /\ ~At(r, "idle") => session[req[r].session].state # "none"
    /\ req[r].pc \in {"upsert", "check_owner", "write_owner", "trust"} =>
         Enrolled(req[r].device)
    /\ req[r].pc \in {"upsert", "check_owner", "write_owner", "trust", "bind",
                      "bind_locked"} => Proved(req[r].session, req[r].device)
    /\ At(r, "trust") => <<OwnerOf(req[r].device), req[r].device>> \in tuples

\* A session that is not yet created is bound to nothing.
FreshSessions ==
  \A s \in Sessions : session[s].state = "none" => session[s].device = None

\* The inductive invariant.
IInv ==
  /\ TypeInv
  /\ ChallengeInv
  /\ HandlerInv
  /\ FreshSessions
  /\ AssuranceIsProven
  /\ TrustedHasOwner

\* A proof of a device for a session is never lost.
LEMMA ProvedKept ==
  ASSUME IInv, [Next]_vars, NEW s \in Sessions, NEW d \in Devices, Proved(s, d)
  PROVE  Proved(s, d)'
  <1>1. d # None
    BY StoreAssumption
  <1> QED
    BY <1>1, EvidenceKept DEF Proved, IInv

\* A proof of enrolment is never lost.
LEMMA EnrolledKept ==
  ASSUME IInv, [Next]_vars, NEW d \in Devices, Enrolled(d)
  PROVE  Enrolled(d)'
  <1>1. d # None
    BY StoreAssumption
  <1> QED
    BY <1>1, EvidenceKept DEF Enrolled, IInv

\* How a session row can change: created, ended, expired, or bound by a request
\* that proved the device.
LEMMA SessionRowSteps ==
  ASSUME TypeInv, [Next]_vars, NEW s \in Sessions
  PROVE  /\ session[s].state # "none" => session'[s].state # "none"
         /\ session'[s].state = "none" => session[s].state = "none"
         /\ \/ session'[s].device = session[s].device
            \/ \E r \in Requests :
                 /\ At(r, "bind_locked")
                 /\ req[r].session = s
                 /\ session[s].state = "active"
                 /\ session'[s].device = req[r].device
  <1> USE DEF TypeInv, TypeOK, StoreTypeOK
  <1>1. ASSUME NEW t \in Sessions, Login(t) \/ Logout(t) \/ SessionExpires(t)
        PROVE  /\ session'[s].device = session[s].device
               /\ session'[s].state = "none" => session[s].state = "none"
               /\ session[s].state # "none" => session'[s].state # "none"
    BY <1>1 DEF Login, CreateSession, Logout, RevokeSession, SessionExpires,
                ExpireSession, SessionRow
  <1>2. ASSUME NEW r \in Requests, ApplyBind(r)
        PROVE  /\ session'[s].state = session[s].state
               /\ \/ session'[s].device = session[s].device
                  \/ /\ At(r, "bind_locked")
                     /\ req[r].session = s
                     /\ session[s].state = "active"
                     /\ session'[s].device = req[r].device
    <2>1. CASE session' = session
      BY <2>1
    <2>2. CASE /\ BindRecheck(req[r].session)
               /\ BindSession(req[r].session, req[r].device)
      BY <1>2, <2>2 DEF ApplyBind, BindRecheck, BindSession, SessionRow
    <2> QED
      BY <1>2, <2>1, <2>2 DEF ApplyBind
  <1>3. ASSUME NEW r \in Requests, CommitRevoke(r)
        PROVE  /\ session'[s].device = session[s].device
               /\ session'[s].state = "none" => session[s].state = "none"
               /\ session[s].state # "none" => session'[s].state # "none"
    BY <1>3 DEF CommitRevoke, RevokeTrustedDevice, RevokeSessions, SessionRow
  <1> QED
    BY <1>1, <1>2, <1>3, SessionWriters

\* A device becomes trusted only by a handler at "trust".
LEMMA TrustSteps ==
  ASSUME TypeInv, [Next]_vars, NEW d \in Devices, device'[d] = "trusted"
  PROVE  \/ device[d] = "trusted"
         \/ \E r \in Requests : At(r, "trust") /\ req[r].device = d
  <1> USE DEF TypeInv, TypeOK, StoreTypeOK
  <1>1. ASSUME NEW r \in Requests, UpsertDevice(r) \/ CommitRevoke(r)
        PROVE  device[d] = "trusted"
    BY <1>1 DEF UpsertDevice, UpsertUnrevokedDevice, CommitRevoke,
                RevokeTrustedDevice
  <1>2. ASSUME NEW r \in Requests, MarkTrusted(r)
        PROVE  device[d] = "trusted" \/ (At(r, "trust") /\ req[r].device = d)
    BY <1>2 DEF MarkTrusted, MarkDeviceTrusted
  <1> QED
    BY <1>1, <1>2, DeviceWriters

\* What a handler has established stays established while others run.
LEMMA HandlerInvStep ==
  ASSUME IInv, [Next]_vars
  PROVE  HandlerInv'
  <1> SUFFICES ASSUME NEW r \in Requests
               PROVE
    (/\ ~At(r, "idle") => session[req[r].session].state # "none"
     /\ req[r].pc \in {"upsert", "check_owner", "write_owner", "trust"} =>
          Enrolled(req[r].device)
     /\ req[r].pc \in {"upsert", "check_owner", "write_owner", "trust", "bind",
                       "bind_locked"} => Proved(req[r].session, req[r].device)
     /\ At(r, "trust") => <<OwnerOf(req[r].device), req[r].device>> \in tuples)'
    BY DEF HandlerInv
  <1> USE DEF IInv, TypeInv
  <1>1. CASE req'[r] = req[r]
    <2>1. ~At(r, "idle") => session'[req[r].session].state # "none"
      BY SessionRowSteps DEF HandlerInv, RequestShape
    <2>2. req[r].pc \in {"upsert", "check_owner", "write_owner", "trust"} =>
            Enrolled(req[r].device)'
      BY <1>1, EnrolledKept DEF HandlerInv, RequestShape
    <2>3. req[r].pc \in {"upsert", "check_owner", "write_owner", "trust", "bind",
                         "bind_locked"} =>
            Proved(req[r].session, req[r].device)'
      BY <1>1, ProvedKept DEF HandlerInv, RequestShape, At
    <2>4. At(r, "trust") => <<OwnerOf(req[r].device), req[r].device>> \in tuples'
      BY TuplesGrow DEF HandlerInv
    <2> QED
      BY <1>1, <2>1, <2>2, <2>3, <2>4 DEF At, OwnerOf, Proved, Enrolled
  <1> DEFINE Enrolling == {"upsert", "check_owner", "write_owner", "trust"}
             Binding   == Enrolling \cup {"bind", "bind_locked"}
  <1>2. CASE Arrival(r)
    <2>1. /\ session' = session
          /\ \/ req'[r] = req[r]
             \/ /\ req'[r].pc \in {"issue", "consume", "load", "revoke"}
                /\ LiveSession(req'[r].session)
      BY <1>2 DEF Arrival, RejectUnauthorized, ReceiveEnrollChallenge,
                  ReceiveEnrollComplete, ReceiveForDevice, Receive, vars, TypeOK
    <2> QED
      BY <1>1, <2>1 DEF LiveSession, At
  <1>3. ASSUME Call(r) \/ RowWrite(r) \/ Fail(r)
        PROVE  (~At(r, "idle") => session[req[r].session].state # "none")'
    <2>1. CASE req'[r] = Idle
      BY <2>1 DEF Idle, At
    <2>2. CASE req'[r].session = req[r].session
      <3>1. req[r].session \in Sessions /\ session[req[r].session].state # "none"
        BY <1>3, HandlerMoves DEF HandlerInv, RequestShape
      <3> QED
        BY <2>2, <3>1, SessionRowSteps
    <2> QED
      BY <1>3, <2>1, <2>2, HandlerMoves
  <1>4. ASSUME ConsumeChallenge(r), GotoVerified(r)
        PROVE  /\ Proved(req[r].session, req[r].device)'
               /\ req'[r].pc \in Enrolling => Enrolled(req[r].device)'
    <2> DEFINE c == req[r].challenge
    <2>1. /\ c \in Challenges
          /\ At(r, "consume")
          /\ req[r].op \in {"enroll_complete", "bind_complete"}
          /\ req'[r] # Idle
      BY <1>4, VerifiedFields DEF ConsumeChallenge, RequestShape, At, Idle
    <2>2. /\ challenge[c].session = req[r].session
          /\ challenge[c].action = ActionOf(req[r].op)
          /\ SpendChallenge(c)
          /\ evidence' = [evidence EXCEPT ![c] = req[r].device]
      BY <1>4, <2>1, ConsumeCases, AnswerFields
    <2>3. /\ challenge'[c].session = req[r].session
          /\ challenge'[c].action = ActionOf(req[r].op)
          /\ evidence'[c] = req[r].device
      BY <2>1, <2>2 DEF SpendChallenge, TypeOK, StoreTypeOK, ChallengeRow
    <2>4. req'[r].pc \in Enrolling => ActionOf(req[r].op) = "enroll"
      BY <1>4, VerifiedFields DEF ActionOf
    <2> QED
      BY <1>4, <2>1, <2>3, <2>4, VerifiedFields DEF Proved, Enrolled
  <1>5. ASSUME Call(r) \/ RowWrite(r) \/ Fail(r), req'[r].pc \in Enrolling
        PROVE  Enrolled(req[r].device)'
    <2>1. CASE ConsumeChallenge(r) /\ GotoVerified(r)
      BY <1>4, <1>5, <2>1
    <2>2. CASE ~(ConsumeChallenge(r) /\ GotoVerified(r))
      <3>1. req[r].pc \in Enrolling /\ req'[r].device = req[r].device
        <4>1. req'[r] # Idle
          BY <1>5 DEF Idle
        <4>2. Moves(r) /\ req'[r].device = req[r].device
          BY <1>5, <4>1, HandlerMoves
        <4> QED
          BY <1>5, <2>2, <4>2 DEF Moves, At
      <3>2. req[r].device \in Devices /\ Enrolled(req[r].device)
        BY <3>1 DEF HandlerInv, RequestShape
      <3> QED
        BY <3>1, <3>2, EnrolledKept DEF Enrolled
    <2> QED
      BY <2>1, <2>2
  <1>6. ASSUME Call(r) \/ RowWrite(r) \/ Fail(r), req'[r].pc \in Binding
        PROVE  Proved(req[r].session, req[r].device)'
    <2>1. CASE ConsumeChallenge(r) /\ GotoVerified(r)
      BY <1>4, <2>1
    <2>2. CASE ~(ConsumeChallenge(r) /\ GotoVerified(r))
      <3>1. /\ req[r].pc \in Binding
            /\ req'[r].device = req[r].device
            /\ req'[r].session = req[r].session
        <4>1. req'[r] # Idle
          BY <1>6 DEF Idle
        <4>2. /\ Moves(r)
              /\ req'[r].device = req[r].device
              /\ req'[r].session = req[r].session
          BY <1>6, <4>1, HandlerMoves
        <4> QED
          BY <1>6, <2>2, <4>2 DEF Moves, At
      <3>2. /\ req[r].device \in Devices
            /\ req[r].session \in Sessions
            /\ Proved(req[r].session, req[r].device)
        BY <3>1 DEF HandlerInv, RequestShape, At
      <3> QED
        BY <3>1, <3>2, ProvedKept DEF Proved
    <2> QED
      BY <2>1, <2>2
  <1>7. ASSUME Call(r) \/ RowWrite(r) \/ Fail(r), req'[r].pc = "trust"
        PROVE  <<OwnerOf(req'[r].device), req'[r].device>> \in tuples'
    <2>1. ~(ConsumeChallenge(r) /\ GotoVerified(r))
      BY <1>7, VerifiedFields
    <2>2. /\ req'[r].device = req[r].device
          /\ req[r].pc \in {"check_owner", "write_owner"}
          /\ <<IdentityOf(r), req[r].device>> \in tuples'
      BY <1>7, <2>1, HandlerMoves DEF Moves, Idle, At
    <2> QED
      BY <2>2 DEF RequestShape
  <1>8. CASE Call(r) \/ RowWrite(r) \/ Fail(r)
    <2>1. (req[r].pc \in Enrolling => Enrolled(req[r].device))'
      BY <1>5, <1>8
    <2>2. (req[r].pc \in Binding => Proved(req[r].session, req[r].device))'
      BY <1>6, <1>8
    <2>3. (At(r, "trust") => <<OwnerOf(req[r].device), req[r].device>> \in tuples)'
      BY <1>7, <1>8 DEF At, OwnerOf
    <2> QED
      BY <1>3, <1>8, <2>1, <2>2, <2>3
  <1> QED
    BY <1>1, <1>2, <1>8, RequestSteps

\* Bindings and trust stay proven, and trusted devices owned, by every step.
LEMMA AssuranceStep ==
  ASSUME IInv, [Next]_vars
  PROVE  AssuranceIsProven' /\ FreshSessions' /\ TrustedHasOwner'
  <1> USE DEF IInv, TypeInv
  <1>1. ASSUME NEW s \in Sessions, session'[s].device # None
        PROVE  /\ OwnerOf(session'[s].device) = SessionIdentity[s]
               /\ Proved(s, session[s].device)'
    <2>1. CASE session'[s].device = session[s].device
      <3>1. session[s].device \in Devices
        BY <1>1, <2>1 DEF TypeOK, StoreTypeOK, SessionRow
      <3>2. Proved(s, session[s].device)
        BY <1>1, <2>1 DEF AssuranceIsProven, Proved
      <3>3. PICK d \in Devices : d = session[s].device
        BY <3>1
      <3>4. Proved(s, d)'
        BY <3>2, <3>3, ProvedKept
      <3> QED
        BY <1>1, <2>1, <3>3, <3>4 DEF AssuranceIsProven, Proved
    <2>2. CASE \E r \in Requests :
                 /\ At(r, "bind_locked")
                 /\ req[r].session = s
                 /\ session'[s].device = req[r].device
      <3>1. PICK r \in Requests : /\ At(r, "bind_locked")
                                  /\ req[r].session = s
                                  /\ session'[s].device = req[r].device
        BY <2>2
      <3>2. /\ req[r].device \in Devices
            /\ OwnerOf(req[r].device) = SessionIdentity[s]
            /\ Proved(s, req[r].device)
        BY <3>1 DEF RequestShape, HandlerInv, At, IdentityOf
      <3>3. PICK d \in Devices : d = req[r].device
        BY <3>2
      <3>4. Proved(s, d)'
        BY <3>2, <3>3, ProvedKept
      <3> QED
        BY <3>1, <3>2, <3>3, <3>4 DEF Proved
    <2> QED
      BY <2>1, <2>2, SessionRowSteps
  <1>2. ASSUME NEW d \in Devices, device'[d] = "trusted"
        PROVE  Enrolled(d)' /\ <<OwnerOf(d), d>> \in tuples'
    <2>1. Enrolled(d) /\ <<OwnerOf(d), d>> \in tuples
      BY <1>2, TrustSteps DEF AssuranceIsProven, Enrolled, TrustedHasOwner, HandlerInv, At
    <2> QED
      BY <2>1, EnrolledKept, TuplesGrow
  <1>3. FreshSessions'
    BY SessionRowSteps DEF FreshSessions
  <1>4. AssuranceIsProven'
    BY <1>1, <1>2 DEF AssuranceIsProven, Proved, Enrolled, OwnerOf
  <1>5. TrustedHasOwner'
    BY <1>2 DEF TrustedHasOwner, OwnerOf
  <1> QED
    BY <1>3, <1>4, <1>5

\* IInv is inductive.
LEMMA InductiveInvariant == Spec => []IInv
  <1>1. Init => IInv
    <2> SUFFICES ASSUME Init
                 PROVE  IInv
      OBVIOUS
    <2>1. ChallengeInv /\ FreshSessions
      BY DEF Init, StoreInit, ChallengeInv, FreshSessions
    <2>2. HandlerInv
      BY DEF Init, Idle, HandlerInv, At
    <2>3. AssuranceIsProven /\ TrustedHasOwner
      BY DEF Init, StoreInit, AssuranceIsProven, TrustedHasOwner
    <2> QED
      BY <2>1, <2>2, <2>3, TypeInvInit DEF IInv
  <1>2. IInv /\ [Next]_vars => IInv'
    <2> SUFFICES ASSUME IInv, [Next]_vars
                 PROVE  IInv'
      OBVIOUS
    <2>1. TypeInv' /\ ChallengeInv'
      BY TypeInvStep, ChallengeInvStep DEF IInv
    <2> QED
      BY <2>1, HandlerInvStep, AssuranceStep DEF IInv
  <1> QED
    BY <1>1, <1>2, PTL DEF Spec

\* A session is bound, and a device trusted, only on the strength of a
\* signature of the device's key over a challenge of that session.
THEOREM Assurance == Spec => []AssuranceIsProven
  <1>1. IInv => AssuranceIsProven
    BY DEF IInv
  <1> QED
    BY <1>1, InductiveInvariant, PTL

\* No device is trusted before OpenFGA holds its owner.
THEOREM OwnerFirst == Spec => []TrustedHasOwner
  <1>1. IInv => TrustedHasOwner
    BY DEF IInv
  <1> QED
    BY <1>1, InductiveInvariant, PTL
-----------------------------------------------------------------------------
(* Revocation. *)

\* The row lock of a revocation: one transaction holds a row, and it is not
\* revoked yet.
LockInv ==
  \A r, p \in Requests :
    Revoking(r) =>
      /\ device[req[r].device] \in {"pending", "trusted"}
      /\ Revoking(p) /\ req[p].device = req[r].device => p = r

\* A request takes the lock of a row nobody holds, and keeps to that row.
LEMMA LockTaken ==
  ASSUME TypeInv, [Next]_vars, NEW r \in Requests, Revoking(r)'
  PROVE  /\ req'[r].device = req[r].device
         /\ \/ Revoking(r)
            \/ /\ MarkRevoked(r)
               /\ ~RowLocked(req[r].device)
               /\ device[req[r].device] \in {"pending", "trusted"}
  <1>1. CASE req'[r] = req[r]
    BY <1>1 DEF Revoking
  <1>2. CASE req'[r] # req[r]
    <2>1. ~Arrival(r)
      BY <1>2 DEF Arrival, RejectUnauthorized, ReceiveEnrollChallenge,
         ReceiveEnrollComplete, ReceiveForDevice, Receive, vars, TypeInv, TypeOK,
         Revoking
    <2>2. Call(r) \/ RowWrite(r) \/ Fail(r)
      BY <1>2, <2>1, RequestSteps
    <2>3. req'[r] # Idle
      BY DEF Idle, Revoking
    <2>4. req'[r].device = req[r].device /\ Moves(r)
      BY <2>2, <2>3, HandlerMoves
    <2>5. ~GotoVerified(r)
      BY VerifiedFields DEF Revoking
    <2>6. Revoking(r) \/ At(r, "revoke")
      BY <2>4, <2>5 DEF Moves, Revoking, At
    <2>7. CASE At(r, "revoke")
      <3>1. ~Fail(r)
        BY <2>3, AnswerFields DEF Fail
      <3>2. MarkRevoked(r)
        BY <2>2, <2>7, <3>1
           DEF Call, RowWrite, At, LoadOwnedDevice, IssueChallenge,
               ConsumeChallenge, CheckOwner, WriteOwner, SelectBind, ApplyBind,
               SelectSessions, LockSession, CommitRevoke, UpsertDevice, MarkTrusted
      <3> QED
        BY <2>3, <2>4, <3>2, AnswerFields DEF MarkRevoked, Revocable
    <2> QED
      BY <2>4, <2>6, <2>7
  <1> QED
    BY <1>1, <1>2

\* Who holds a row keeps every other writer of it waiting.
LEMMA LockInvStep ==
  ASSUME TypeInv, LockInv, [Next]_vars
  PROVE  LockInv'
  <1> SUFFICES ASSUME NEW r \in Requests, Revoking(r)'
               PROVE  /\ device'[req'[r].device] \in {"pending", "trusted"}
                      /\ \A p \in Requests :
                           Revoking(p)' /\ req'[p].device = req'[r].device => p = r
    BY DEF LockInv, Revoking
  <1>1. CASE Revoking(r)
    <2>1. req'[r].device = req[r].device /\ RowLocked(req[r].device)
      BY <1>1, LockTaken DEF RowLocked
    <2>2. device'[req[r].device] = device[req[r].device]
      <3>1. ASSUME NEW p \in Requests, UpsertDevice(p) \/ MarkTrusted(p)
            PROVE  device'[req[r].device] = device[req[r].device]
        <4>1. ~RowLocked(req[p].device)
          BY <3>1 DEF UpsertDevice, MarkTrusted
        <4>2. req[p].device # req[r].device
          BY <2>1, <4>1
        <4>3. device \in [Devices -> TrustStates]
          BY DEF TypeInv, TypeOK, StoreTypeOK
        <4>4. \A d \in Devices : d # req[p].device => device'[d] = device[d]
          BY <3>1, <4>3 DEF UpsertDevice, UpsertUnrevokedDevice, MarkTrusted,
                            MarkDeviceTrusted
        <4>5. req[r].device \in Devices
          BY <1>1 DEF TypeInv, RequestShape, Revoking
        <4> QED
          BY <4>2, <4>4, <4>5
      <3>2. ASSUME NEW p \in Requests, CommitRevoke(p)
            PROVE  device'[req[r].device] = device[req[r].device]
        <4>1. p # r
          BY <3>2, AnswerFields DEF CommitRevoke, Idle, Revoking
        <4>2. req[p].device # req[r].device
          BY <1>1, <3>2, <4>1 DEF CommitRevoke, LockInv, Revoking, At
        <4> QED
          BY <3>2, <4>2 DEF CommitRevoke, RevokeTrustedDevice, TypeInv, TypeOK,
                            StoreTypeOK
      <3> QED
        BY <3>1, <3>2, DeviceWriters
    <2>3. ASSUME NEW p \in Requests, Revoking(p)',
                 req'[p].device = req'[r].device
          PROVE  p = r
      <3>1. Revoking(p) /\ req'[p].device = req[p].device
        BY <2>1, <2>3, LockTaken
      <3> QED
        BY <1>1, <2>1, <2>3, <3>1 DEF LockInv
    <2> QED
      BY <1>1, <2>1, <2>2, <2>3 DEF LockInv
  <1>2. CASE ~Revoking(r)
    <2>1. /\ MarkRevoked(r)
          /\ req'[r].device = req[r].device
          /\ ~RowLocked(req[r].device)
          /\ device[req[r].device] \in {"pending", "trusted"}
      BY <1>2, LockTaken
    <2>2. device' = device
      BY <2>1 DEF MarkRevoked
    <2>3. ASSUME NEW p \in Requests, p # r
          PROVE  req'[p] = req[p]
      BY <2>1, <2>3, RequestsApart DEF RowWrite
    <2> QED
      BY <2>1, <2>2, <2>3 DEF RowLocked, Revoking
  <1> QED
    BY <1>1, <1>2

(***************************************************************************)
(* What a revocation knows while it ends sessions: every active session    *)
(* bound to its device is one it has selected, one it has locked or one    *)
(* bound since it looked; what it has locked stays bound and active, for   *)
(* it alone; and no look empties late for a device already revoked.        *)
(***************************************************************************)
SweepInv ==
  /\ \A r \in Requests : At(r, "sweep") =>
       /\ BoundSessions(req[r].device) \subseteq
            req[r].found \cup req[r].swept \cup late[req[r].device]
       /\ req[r].swept \subseteq BoundSessions(req[r].device)
  /\ \A r, p \in Requests : r # p => req[r].swept \cap req[p].swept = {}
  /\ \A d \in Devices : device[d] = "revoked" => BoundSessions(d) \subseteq late[d]

\* A session is bound and active after a step only if it was or the step bound
\* it.
LEMMA BoundSteps ==
  ASSUME IInv, [Next]_vars, NEW d \in Devices
  PROVE  BoundSessions(d)' \subseteq BoundSessions(d) \cup late'[d]
  <1> USE DEF IInv, TypeInv, TypeOK, StoreTypeOK
  <1> SUFFICES ASSUME NEW s \in Sessions, session'[s].device = d,
                      session'[s].state = "active",
                      SessionIdentity[s] = OwnerOf(d), s \notin late'[d]
               PROVE  s \in BoundSessions(d)
    BY DEF BoundSessions
  <1>1. ASSUME NEW t \in Sessions, Login(t) \/ Logout(t) \/ SessionExpires(t)
        PROVE  session[s].device = d /\ session[s].state = "active"
    BY <1>1, StoreAssumption DEF Login, CreateSession, Logout, RevokeSession,
       SessionExpires, ExpireSession, FreshSessions, SessionRow
  <1>2. ASSUME NEW r \in Requests, ApplyBind(r)
        PROVE  session[s].device = d /\ session[s].state = "active"
    <2>1. req[r].device \in Devices /\ req[r].session \in Sessions
      BY <1>2 DEF ApplyBind, RequestShape, At
    <2>2. CASE session' = session
      BY <2>2
    <2>3. CASE /\ BindSession(req[r].session, req[r].device)
               /\ late' = [late EXCEPT ![req[r].device] = @ \cup {req[r].session}]
      <3>1. req[r].session # s
        BY <2>1, <2>3 DEF BindSession, SessionRow
      <3> QED
        BY <2>3, <3>1 DEF BindSession
    <2> QED
      BY <1>2, <2>2, <2>3 DEF ApplyBind
  <1>3. ASSUME NEW r \in Requests, CommitRevoke(r)
        PROVE  session[s].device = d /\ session[s].state = "active"
    BY <1>3 DEF CommitRevoke, RevokeTrustedDevice, RevokeSessions, SessionRow
  <1>4. session[s].device = d /\ session[s].state = "active"
    BY <1>1, <1>2, <1>3, SessionWriters
  <1> QED
    BY <1>4 DEF BoundSessions

\* Only a revocation that looks again forgets a late bind, and it holds the row.
LEMMA LateSteps ==
  ASSUME TypeInv, LockInv, [Next]_vars, NEW d \in Devices
  PROVE  \/ late[d] \subseteq late'[d]
         \/ \E r \in Requests : /\ SelectSessions(r)
                                /\ req[r].device = d
                                /\ device[d] # "revoked"
  <1> USE DEF TypeInv, TypeOK
  <1>1. ASSUME NEW r \in Requests, Arrival(r)
        PROVE  late' = late
    BY <1>1 DEF Arrival, RejectUnauthorized, ReceiveEnrollChallenge,
                ReceiveEnrollComplete, ReceiveForDevice, Receive, vars
  <1>2. ASSUME NEW r \in Requests, Call(r)
        PROVE  late' = late \/ SelectSessions(r)
    BY <1>2 DEF Call, LoadOwnedDevice, IssueChallenge, ConsumeChallenge,
                CheckOwner, WriteOwner, SelectBind, CommitRevoke
  <1>3. ASSUME NEW r \in Requests, RowWrite(r) \/ Fail(r)
        PROVE  late[d] \subseteq late'[d]
    BY <1>3 DEF RowWrite, UpsertDevice, MarkTrusted, MarkRevoked, ApplyBind,
                LockSession, Fail
  <1>4. ASSUME Environment
        PROVE  late' = late
    BY <1>4 DEF Environment, Login, Logout, SessionExpires, ChallengeExpires
  <1>5. ASSUME NEW r \in Requests, SelectSessions(r)
        PROVE  \/ late[d] \subseteq late'[d]
               \/ req[r].device = d /\ device[d] # "revoked"
    BY <1>5 DEF SelectSessions, LockInv, Revoking, At
  <1> QED
    BY <1>1, <1>2, <1>3, <1>4, <1>5 DEF Next, vars

\* A session row that a revocation has locked is written by that one only.
LEMMA SweptHeld ==
  ASSUME IInv, SweepInv, [Next]_vars, NEW r \in Requests, At(r, "sweep"),
         ~CommitRevoke(r), NEW d \in Devices, req[r].device = d
  PROVE  req[r].swept \subseteq BoundSessions(d)'
  <1> USE DEF IInv, TypeInv, TypeOK, StoreTypeOK
  <1> SUFFICES ASSUME NEW s \in req[r].swept
               PROVE  s \in BoundSessions(d)'
    OBVIOUS
  <1>1. /\ s \in Sessions /\ SessionLocked(s)
        /\ SessionIdentity[s] = OwnerOf(d)
        /\ session[s].device = d
        /\ session[s].state = "active"
    BY DEF SweepInv, BoundSessions, SessionLocked
  <1>2. ASSUME NEW t \in Sessions, Login(t) \/ Logout(t) \/ SessionExpires(t)
        PROVE  /\ session'[s].device = session[s].device
               /\ session'[s].state = "active"
    BY <1>1, <1>2 DEF Login, CreateSession, Logout, RevokeSession,
       SessionExpires, ExpireSession, SessionRow
  <1>3. ASSUME NEW p \in Requests, ApplyBind(p)
        PROVE  session'[s] = session[s]
    BY <1>1, <1>3 DEF ApplyBind, BindSession
  <1>4. ASSUME NEW p \in Requests, CommitRevoke(p), p # r
        PROVE  session'[s] = session[s]
    <2>1. s \notin req[p].swept
      BY <1>4 DEF SweepInv
    <2> QED
      BY <1>1, <1>4, <2>1 DEF CommitRevoke, RevokeTrustedDevice, RevokeSessions
  <1>5. session'[s].device = session[s].device /\ session'[s].state = "active"
    BY <1>1, <1>2, <1>3, <1>4, SessionWriters
  <1> QED
    BY <1>1, <1>5 DEF BoundSessions

\* The rows a revocation has selected and locked once it has locked one more.
LEMMA LockFields ==
  ASSUME TypeInv, NEW r \in Requests, LockSession(r)
  PROVE  /\ req'[r].pc = "sweep" /\ req'[r].device = req[r].device
         /\ \A p \in Requests : p # r => req'[p] = req[p]
         /\ \E s \in req[r].found :
              /\ s \in Sessions
              /\ ~SessionLocked(s)
              /\ req'[r].found = req[r].found \ {s}
              /\ req'[r].swept =
                   req[r].swept \cup ({s} \cap BoundSessions(req[r].device))
  BY DEF LockSession, TypeInv, TypeOK, Request, At

\* How a request comes to be ending sessions, and which rows it then has.
LEMMA SweepFields ==
  ASSUME TypeInv, [Next]_vars, NEW r \in Requests, req'[r].pc = "sweep"
  PROVE  /\ req'[r].device = req[r].device
         /\ req[r].device \in Devices
         /\ \/ req'[r] = req[r]
            \/ /\ SelectSessions(r)
               /\ req'[r].found = BoundSessions(req[r].device)
               /\ req'[r].swept = {}
            \/ LockSession(r)
  <1> USE DEF TypeInv, TypeOK
  <1>1. CASE req'[r] = req[r]
    BY <1>1 DEF RequestShape, At
  <1>2. CASE Arrival(r)
    BY <1>1, <1>2 DEF Arrival, RejectUnauthorized, ReceiveEnrollChallenge,
       ReceiveEnrollComplete, ReceiveForDevice, Receive, vars
  <1>3. CASE Call(r) \/ RowWrite(r) \/ Fail(r)
    <2>1. req'[r] # Idle
      BY DEF Idle
    <2>2. Moves(r) /\ req'[r].device = req[r].device
      BY <1>3, <2>1, HandlerMoves
    <2>3. req[r].pc \in {"revoke_sessions", "sweep"}
      BY <2>2, VerifiedFields DEF Moves, At
    <2>4. SelectSessions(r) \/ LockSession(r)
      <3>1. ~Fail(r) /\ ~CommitRevoke(r)
        BY <2>1, AnswerFields DEF Fail, CommitRevoke
      <3> QED
        BY <1>3, <2>3, <3>1
           DEF Call, RowWrite, At, LoadOwnedDevice, IssueChallenge,
               ConsumeChallenge, CheckOwner, WriteOwner, SelectBind, ApplyBind,
               UpsertDevice, MarkTrusted, MarkRevoked
    <2>5. req[r].device \in Devices
      BY <2>3 DEF RequestShape
    <2>6. CASE SelectSessions(r)
      <3>1. req[r].swept = {}
        BY <2>6 DEF SelectSessions, RequestShape, At
      <3> QED
        BY <2>2, <2>5, <2>6, <3>1 DEF SelectSessions, Request
    <2> QED
      BY <2>2, <2>4, <2>5, <2>6
  <1> QED
    BY <1>1, <1>2, <1>3, RequestSteps

\* Requests that are not ending sessions have locked none.
LEMMA NoSweptElsewhere ==
  ASSUME TypeInv, [Next]_vars, NEW r \in Requests, req'[r].pc # "sweep"
  PROVE  req'[r].swept = {}
  <1>1. TypeInv'
    BY TypeInvStep
  <1> QED
    BY <1>1 DEF TypeInv, RequestShape, At

\* SweepInv is preserved.
LEMMA SweepInvStep ==
  ASSUME IInv, LockInv, SweepInv, [Next]_vars
  PROVE  SweepInv'
  <1> USE DEF IInv
  <1>1. ASSUME NEW r \in Requests, req'[r].pc = "sweep"
        PROVE  /\ BoundSessions(req[r].device)' \subseteq
                    req'[r].found \cup req'[r].swept \cup late'[req'[r].device]
               /\ req'[r].swept \subseteq BoundSessions(req[r].device)'
    <2>1. PICK d \in Devices : req[r].device = d /\ req'[r].device = d
      BY <1>1, SweepFields
    <2>2. BoundSessions(d)' = BoundSessions(req[r].device)'
      BY <2>1 DEF BoundSessions, OwnerOf
    <2>3. BoundSessions(d)' \subseteq BoundSessions(d) \cup late'[d]
      BY BoundSteps
    <2>4. ~CommitRevoke(r)
      BY <1>1, AnswerFields DEF CommitRevoke, Idle
    <2>5. CASE /\ SelectSessions(r)
               /\ req'[r].found = BoundSessions(d) /\ req'[r].swept = {}
      BY <2>1, <2>2, <2>3, <2>5
    <2>6. CASE At(r, "sweep")
      <3>1. late[d] \subseteq late'[d]
        <4>1. ASSUME NEW p \in Requests, SelectSessions(p), req[p].device = d
              PROVE  FALSE
          BY <2>1, <2>6, <4>1 DEF SelectSessions, LockInv, Revoking, At
        <4> QED
          BY <2>1, <4>1, LateSteps
      <3>2. BoundSessions(d) \subseteq req[r].found \cup req[r].swept \cup late[d]
        BY <2>1, <2>6 DEF SweepInv
      <3>3. req[r].swept \subseteq BoundSessions(d)'
        BY <2>1, <2>4, <2>6, SweptHeld
      <3>4. CASE req'[r] = req[r]
        BY <2>1, <2>2, <2>3, <3>1, <3>2, <3>3, <3>4
      <3>5. CASE LockSession(r)
        <4>1. PICK s \in req[r].found :
                /\ req'[r].found = req[r].found \ {s}
                /\ req'[r].swept = req[r].swept \cup ({s} \cap BoundSessions(d))
          BY <2>1, <3>5, LockFields
        <4>2. BoundSessions(d)' = BoundSessions(d)
          BY <3>5 DEF LockSession, BoundSessions
        <4> QED
          BY <2>1, <2>2, <2>3, <3>1, <3>2, <3>3, <4>1, <4>2
      <3> QED
        BY <1>1, <2>6, <3>4, <3>5, SweepFields DEF SelectSessions, At
    <2> QED
      BY <1>1, <2>1, <2>5, <2>6, SweepFields DEF LockSession, At
  <1>2. ASSUME NEW r \in Requests, NEW p \in Requests, r # p
        PROVE  req'[r].swept \cap req'[p].swept = {}
    <2>1. ASSUME NEW q \in Requests, NEW o \in Requests, q # o,
                 LockSession(q)
          PROVE  req'[q].swept \cap req'[o].swept = {}
      <3>1. req'[o] = req[o]
        BY <2>1, RequestsApart DEF RowWrite
      <3>2. req'[q].swept \cap req[o].swept = {}
        <4>1. req[q].swept \cap req[o].swept = {}
          BY <2>1 DEF SweepInv
        <4>2. \A s : ~SessionLocked(s) => s \notin req[o].swept
          BY DEF SessionLocked
        <4> QED
          BY <2>1, <4>1, <4>2, LockFields
      <3> QED
        BY <3>1, <3>2
    <2>2. ASSUME NEW q \in Requests, ~LockSession(q)
          PROVE  req'[q].swept = {} \/ req'[q].swept = req[q].swept
      BY <2>2, SweepFields, NoSweptElsewhere
    <2>3. req[r].swept \cap req[p].swept = {}
      BY <1>2 DEF SweepInv
    <2> QED
      BY <1>2, <2>1, <2>2, <2>3
  <1>3. ASSUME NEW d \in Devices, device'[d] = "revoked"
        PROVE  BoundSessions(d)' \subseteq late'[d]
    <2>1. BoundSessions(d)' \subseteq BoundSessions(d) \cup late'[d]
      BY BoundSteps
    <2>2. CASE device[d] = "revoked"
      <3>1. BoundSessions(d) \subseteq late[d]
        BY <2>2 DEF SweepInv
      <3>2. late[d] \subseteq late'[d]
        BY <2>2, LateSteps
      <3> QED
        BY <2>1, <3>1, <3>2
    <2>3. CASE device[d] # "revoked"
      <3>1. PICK r \in Requests : CommitRevoke(r)
        BY <1>3, <2>3, DeviceWriters DEF UpsertDevice, UpsertUnrevokedDevice,
           MarkTrusted, MarkDeviceTrusted, TypeInv, TypeOK, StoreTypeOK
      <3>2. req[r].device = d
        BY <1>3, <2>3, <3>1 DEF CommitRevoke, RevokeTrustedDevice, TypeInv, TypeOK,
                                StoreTypeOK
      <3>3. late' = late /\ At(r, "sweep") /\ req[r].found = {}
        BY <3>1 DEF CommitRevoke
      <3>4. BoundSessions(d) \subseteq req[r].swept \cup late[d]
        BY <3>2, <3>3 DEF SweepInv
      <3>5. \A s \in req[r].swept : s \notin BoundSessions(d)'
        BY <3>1 DEF CommitRevoke, RevokeTrustedDevice, RevokeSessions,
                    BoundSessions, TypeInv, TypeOK, StoreTypeOK, SessionRow
      <3> QED
        BY <2>1, <3>3, <3>4, <3>5
    <2> QED
      BY <2>2, <2>3
  <1>4. \A r \in Requests : At(r, "sweep")' =>
          /\ BoundSessions(req[r].device)' \subseteq
               req'[r].found \cup req'[r].swept \cup late'[req'[r].device]
          /\ req'[r].swept \subseteq BoundSessions(req[r].device)'
    BY <1>1 DEF At
  <1>5. \A d \in Devices : device'[d] = "revoked" => BoundSessions(d)' \subseteq late'[d]
    BY <1>3
  <1> QED
    BY <1>2, <1>4, <1>5 DEF SweepInv

\* The invariant that revocations rest on.
RevocationInv == IInv /\ LockInv /\ SweepInv

LEMMA RevocationInvariant == Spec => []RevocationInv
  <1>1. Init => LockInv /\ SweepInv
    BY DEF Init, StoreInit, Idle, LockInv, SweepInv, Revoking, At
  <1>2. IInv /\ LockInv /\ SweepInv /\ [Next]_vars => LockInv' /\ SweepInv'
    BY LockInvStep, SweepInvStep DEF IInv
  <1> QED
    BY <1>1, <1>2, InductiveInvariant, PTL DEF Spec, RevocationInv

\* An active session on a revoked device was bound to it after the revocation
\* had selected the sessions to end: no other escapes, whatever the waits.
THEOREM OnlyLateBinds == Spec => []OnlyLateBindsSurvive
  <1>1. RevocationInv => OnlyLateBindsSurvive
    <2> SUFFICES ASSUME RevocationInv, NEW s \in Sessions, NEW d \in Devices,
                        session[s].state = "active", session[s].device = d,
                        device[d] = "revoked"
                 PROVE  s \in late[d]
      BY DEF OnlyLateBindsSurvive
    <2>1. SessionIdentity[s] = OwnerOf(d)
      BY StoreAssumption DEF RevocationInv, IInv, AssuranceIsProven
    <2>2. s \in BoundSessions(d)
      BY <2>1 DEF BoundSessions
    <2> QED
      BY <2>2 DEF RevocationInv, SweepInv
  <1> QED
    BY <1>1, RevocationInvariant, PTL

\* The commit of a revocation writes no session that has moved to another
\* device meanwhile: what it holds locked is still bound to its own device.
THEOREM EndsItsOwn == Spec => RevocationEndsItsOwn
  <1>1. RevocationInv /\ [Next]_vars =>
          [\A d \in Devices, s \in Sessions :
             device[d] # "revoked" /\ device'[d] = "revoked" /\ session'[s] # session[s]
               => session[s].device = d]_vars
    <2> SUFFICES ASSUME RevocationInv, [Next]_vars, NEW d \in Devices,
                        NEW s \in Sessions, device[d] # "revoked",
                        device'[d] = "revoked", session'[s] # session[s]
                 PROVE  session[s].device = d
      OBVIOUS
    <2> USE DEF RevocationInv, IInv, TypeInv, TypeOK, StoreTypeOK
    <2>1. ASSUME NEW r \in Requests, UpsertDevice(r) \/ MarkTrusted(r)
          PROVE  FALSE
      BY <2>1 DEF UpsertDevice, UpsertUnrevokedDevice, MarkTrusted, Markable,
                  MarkDeviceTrusted
    <2>2. PICK r \in Requests : CommitRevoke(r)
      BY <2>1, DeviceWriters
    <2>3. /\ d = req[r].device
          /\ s \in req[r].swept
      BY <2>2 DEF CommitRevoke, RevokeTrustedDevice, RevokeSessions
    <2>4. s \in BoundSessions(d)
      BY <2>2, <2>3 DEF CommitRevoke, SweepInv
    <2> QED
      BY <2>4 DEF BoundSessions
  <1> QED
    BY <1>1, RevocationInvariant, PTL DEF Spec, RevocationEndsItsOwn

\* A bind that waits for its session row has read its device as trusted.
LEMMA BindAdmitted ==
  ASSUME TypeInv, [Next]_vars, NEW r \in Requests, req'[r].pc = "bind_locked"
  PROVE  /\ req'[r].session = req[r].session
         /\ req'[r].device = req[r].device
         /\ \/ req'[r] = req[r]
            \/ BindSnapshot(req[r].session, req[r].device) /\ device' = device
  <1>1. CASE Arrival(r)
    BY <1>1 DEF Arrival, RejectUnauthorized, ReceiveEnrollChallenge,
       ReceiveEnrollComplete, ReceiveForDevice, Receive, vars, TypeInv, TypeOK
  <1>2. CASE Call(r) \/ RowWrite(r) \/ Fail(r)
    <2>1. req'[r] # Idle
      BY DEF Idle
    <2>2. /\ Moves(r)
          /\ req'[r].session = req[r].session
          /\ req'[r].device = req[r].device
      BY <1>2, <2>1, HandlerMoves
    <2>3. At(r, "bind") /\ BindSnapshot(req[r].session, req[r].device)
      BY <2>2, VerifiedFields DEF Moves
    <2>4. ~Fail(r)
      BY <2>1, AnswerFields DEF Fail
    <2>5. SelectBind(r)
      BY <1>2, <2>3, <2>4
         DEF Call, RowWrite, At, LoadOwnedDevice, IssueChallenge, ConsumeChallenge,
             CheckOwner, WriteOwner, ApplyBind, SelectSessions, LockSession,
             CommitRevoke, UpsertDevice, MarkTrusted, MarkRevoked
    <2> QED
      BY <2>2, <2>3, <2>5 DEF SelectBind
  <1> QED
    BY <1>1, <1>2, RequestSteps

\* After the commit only the binds that had already read the device may still
\* bind a session to it.
THEOREM NoNewBinding == Spec => NoNewBindingAfterRevocation
  <1>1. IInv /\ [Next]_vars =>
          [\A s \in Sessions, d \in Devices :
             device[d] = "revoked" /\ ~MayOutlive(s, d) => ~MayOutlive(s, d)']_vars
    <2> SUFFICES ASSUME IInv, [Next]_vars, NEW s \in Sessions, NEW d \in Devices,
                        device[d] = "revoked", MayOutlive(s, d)'
                 PROVE  MayOutlive(s, d)
      OBVIOUS
    <2> USE DEF IInv
    <2>1. session'[s].state = "active"
      BY DEF MayOutlive
    <2>2. \/ session[s].state = "active"
          \/ session[s].state = "none" /\ session'[s].device = None
      <3>1. ASSUME NEW t \in Sessions, Login(t) \/ Logout(t) \/ SessionExpires(t)
            PROVE  \/ session[s].state = "active"
                   \/ session[s].state = "none" /\ session'[s].device = None
        BY <2>1, <3>1 DEF Login, CreateSession, Logout, RevokeSession,
             SessionExpires, ExpireSession, FreshSessions, TypeInv, TypeOK,
             StoreTypeOK, SessionRow
      <3>2. ASSUME NEW r \in Requests, ApplyBind(r)
            PROVE  session[s].state = "active"
        BY <2>1, <3>2 DEF ApplyBind, BindSession, TypeInv, TypeOK, StoreTypeOK,
                          SessionRow
      <3>3. ASSUME NEW r \in Requests, CommitRevoke(r)
            PROVE  session[s].state = "active"
        BY <2>1, <3>3 DEF CommitRevoke, RevokeTrustedDevice, RevokeSessions,
                          TypeInv, TypeOK, StoreTypeOK, SessionRow
      <3> QED
        BY <2>1, <3>1, <3>2, <3>3, SessionWriters
    <2>3. CASE session'[s].device = d
      <3>1. session[s].state = "active"
        BY <2>2, <2>3, StoreAssumption
      <3> QED
        BY <2>3, <3>1, SessionRowSteps DEF MayOutlive
    <2>4. ASSUME NEW r \in Requests, req'[r].pc = "bind_locked",
                 req'[r].session = s, req'[r].device = d
          PROVE  MayOutlive(s, d)
      <3>1. session[s].state # "none" /\ At(r, "bind_locked") /\ req'[r] = req[r]
        <4>1. req'[r] = req[r]
          BY <2>4, BindAdmitted DEF BindSnapshot
        <4> QED
          BY <2>4, <4>1 DEF At, HandlerInv
      <3>2. session[s].state = "active"
        BY <2>2, <3>1
      <3> QED
        BY <2>4, <3>1, <3>2 DEF MayOutlive
    <2> QED
      BY <2>3, <2>4 DEF MayOutlive, At
  <1> QED
    BY <1>1, InductiveInvariant, PTL DEF Spec, NoNewBindingAfterRevocation

\* Once a revoked device has neither an active session nor a bind that waits, it
\* never has one again: the property above holds of all the time that follows.
THEOREM RevokedStaysOut ==
  ASSUME NEW t \in Sessions, NEW e \in Devices
  PROVE  Spec => [](device[e] = "revoked" /\ ~MayOutlive(t, e)
                      => [](device[e] = "revoked" /\ ~MayOutlive(t, e)))
  <1> DEFINE Out == device[e] = "revoked" /\ ~MayOutlive(t, e)
             Final == \A d \in Devices :
                        device[d] = "revoked" => device'[d] = "revoked"
             NoNew == \A s \in Sessions, d \in Devices :
                        device[d] = "revoked" /\ ~MayOutlive(s, d)
                          => ~MayOutlive(s, d)'
  <1>1. Out /\ [Final]_vars /\ [NoNew]_vars => Out'
    BY DEF vars, MayOutlive, At
  <1>2. Spec => [][Final]_vars
    BY RevocationFinal, PTL DEF RevocationIsFinal
  <1>3. Spec => [][NoNew]_vars
    BY NoNewBinding, PTL DEF NoNewBindingAfterRevocation
  <1> HIDE DEF Out, Final, NoNew
  <1>4. Spec => [](Out => []Out)
    BY <1>1, <1>2, <1>3, PTL
  <1> QED
    BY <1>4 DEF Out

\* A bind only adds itself to the late ones; nothing else does.
LEMMA LateWriters ==
  ASSUME TypeInv, [Next]_vars, NEW d \in Devices
  PROVE  \/ late'[d] \subseteq late[d]
         \/ \E r \in Requests : At(r, "bind_locked") /\ req[r].device = d
  <1> USE DEF TypeInv, TypeOK
  <1>1. ASSUME NEW r \in Requests, Arrival(r)
        PROVE  late' = late
    BY <1>1 DEF Arrival, RejectUnauthorized, ReceiveEnrollChallenge,
                ReceiveEnrollComplete, ReceiveForDevice, Receive, vars
  <1>2. ASSUME NEW r \in Requests, Call(r)
        PROVE  late'[d] \subseteq late[d]
    BY <1>2 DEF Call, LoadOwnedDevice, IssueChallenge, ConsumeChallenge,
                CheckOwner, WriteOwner, SelectBind, SelectSessions, CommitRevoke
  <1>3. ASSUME NEW r \in Requests, RowWrite(r) \/ Fail(r)
        PROVE  \/ late'[d] \subseteq late[d]
               \/ At(r, "bind_locked") /\ req[r].device = d
    BY <1>3 DEF RowWrite, UpsertDevice, MarkTrusted, MarkRevoked, ApplyBind,
                LockSession, Fail
  <1>4. ASSUME Environment
        PROVE  late' = late
    BY <1>4 DEF Environment, Login, Logout, SessionExpires, ChallengeExpires
  <1> QED
    BY <1>1, <1>2, <1>3, <1>4 DEF Next, vars

\* What it would mean for the bind to lock the device it reads: from its read to
\* its write no revocation of the device holds the row.
BindExcludesRevocation ==
  \A r \in Requests : At(r, "bind_locked") => ~RowLocked(req[r].device)

\* No session is bound late to a device that is being revoked, or that is, and
\* no bind waits with a revoked device.
NoLateBind ==
  /\ \A r \in Requests : At(r, "sweep") => late[req[r].device] = {}
  /\ \A d \in Devices : device[d] = "revoked" =>
       /\ late[d] = {}
       /\ \A r \in Requests : ~(At(r, "bind_locked") /\ req[r].device = d)

LEMMA NoLateBindStep ==
  ASSUME RevocationInv, BindExcludesRevocation, NoLateBind, [Next]_vars
  PROVE  NoLateBind'
  <1> USE DEF RevocationInv, IInv
  <1>1. ASSUME NEW r \in Requests, req'[r].pc = "sweep"
        PROVE  late'[req'[r].device] = {}
    <2>1. req'[r].device = req[r].device /\ req[r].device \in Devices
      BY <1>1, SweepFields
    <2>2. CASE SelectSessions(r)
      BY <2>1, <2>2 DEF SelectSessions, TypeInv, TypeOK
    <2>3. CASE At(r, "sweep")
      <3>1. late[req[r].device] = {} /\ RowLocked(req[r].device)
        BY <2>3 DEF NoLateBind, RowLocked, Revoking, At
      <3>2. \A p \in Requests : ~(At(p, "bind_locked") /\ req[p].device = req[r].device)
        BY <3>1 DEF BindExcludesRevocation
      <3> QED
        BY <2>1, <3>1, <3>2, LateWriters
    <2> QED
      BY <1>1, <2>2, <2>3, SweepFields DEF LockSession, At
  <1>2. ASSUME NEW d \in Devices, device'[d] = "revoked"
        PROVE  /\ late'[d] = {}
               /\ \A r \in Requests :
                    ~(req'[r].pc = "bind_locked" /\ req'[r].device = d)
    <2>1. /\ late[d] = {}
          /\ \A r \in Requests : ~(At(r, "bind_locked") /\ req[r].device = d)
      <3>1. CASE device[d] = "revoked"
        BY <3>1 DEF NoLateBind
      <3>2. CASE device[d] # "revoked"
        <4>1. PICK r \in Requests : CommitRevoke(r)
          BY <1>2, <3>2, DeviceWriters DEF UpsertDevice, UpsertUnrevokedDevice,
             MarkTrusted, MarkDeviceTrusted, TypeInv, TypeOK, StoreTypeOK
        <4>2. req[r].device = d /\ At(r, "sweep")
          BY <1>2, <3>2, <4>1 DEF CommitRevoke, RevokeTrustedDevice, TypeInv,
                                  TypeOK, StoreTypeOK
        <4>3. RowLocked(d)
          BY <4>2 DEF RowLocked, Revoking, At
        <4> QED
          BY <4>2, <4>3 DEF NoLateBind, BindExcludesRevocation
      <3> QED
        BY <3>1, <3>2
    <2>2. late'[d] = {}
      BY <2>1, LateWriters
    <2>3. ASSUME NEW r \in Requests, req'[r].pc = "bind_locked", req'[r].device = d
          PROVE  FALSE
      <3>1. req'[r] # req[r]
        BY <2>1, <2>3 DEF At
      <3>2. BindSnapshot(req[r].session, d) /\ device' = device
        BY <2>3, <3>1, BindAdmitted
      <3> QED
        BY <1>2, <3>2 DEF BindSnapshot
    <2> QED
      BY <2>2, <2>3
  <1> QED
    BY <1>1, <1>2 DEF NoLateBind, At

\* The promise of README.md that the service does not keep, kept if the bind held
\* the row of the device against revocations from its read to its write, as with
\* `for share': then no session of a revoked device is active.
THEOREM RevocationCompleteUnderLock ==
  Spec /\ []BindExcludesRevocation => []RevokedDeviceHasNoActiveSession
  <1>1. Init => NoLateBind
    BY DEF Init, StoreInit, Idle, NoLateBind, At
  <1>2. RevocationInv /\ BindExcludesRevocation /\ NoLateBind /\ [Next]_vars
          => NoLateBind'
    BY NoLateBindStep
  <1>3. RevocationInv /\ OnlyLateBindsSurvive /\ NoLateBind
          => RevokedDeviceHasNoActiveSession
    BY DEF RevocationInv, IInv, OnlyLateBindsSurvive, NoLateBind,
           RevokedDeviceHasNoActiveSession, TypeInv, TypeOK, StoreTypeOK, SessionRow
  <1> QED
    BY <1>1, <1>2, <1>3, RevocationInvariant, OnlyLateBinds, PTL DEF Spec

\* A request writes no row of another user.
THEOREM Isolation == Spec => UsersAreIsolated
  <1>1. IInv /\ SweepInv /\ [Next]_vars =>
          [\A r \in Requests : ~At(r, "idle") /\ req'[r] # req[r] =>
             /\ \A d \in Devices :
                  OwnerOf(d) # IdentityOf(r) => device'[d] = device[d]
             /\ \A s \in Sessions :
                  SessionIdentity[s] # IdentityOf(r) =>
                    session'[s] = session[s]]_vars
    <2> SUFFICES ASSUME IInv, SweepInv, [Next]_vars, NEW r \in Requests, ~At(r, "idle"),
                        req'[r] # req[r]
                 PROVE  /\ \A d \in Devices :
                             OwnerOf(d) # IdentityOf(r) => device'[d] = device[d]
                        /\ \A s \in Sessions :
                             SessionIdentity[s] # IdentityOf(r) =>
                               session'[s] = session[s]
      OBVIOUS
    <2> USE DEF IInv, TypeInv, TypeOK, StoreTypeOK
    <2>1. Call(r) \/ RowWrite(r) \/ Fail(r)
      <3>1. Arrival(r) => req'[r] = req[r]
        BY DEF Arrival, RejectUnauthorized, ReceiveEnrollChallenge,
               ReceiveEnrollComplete, ReceiveForDevice, Receive, vars
      <3> QED
        BY <3>1, RequestSteps
    <2>2. CASE UpsertDevice(r) \/ MarkTrusted(r)
      <3>1. OwnerOf(req[r].device) = IdentityOf(r)
        BY <2>2 DEF UpsertDevice, MarkTrusted, RequestShape, At
      <3> QED
        BY <2>2, <3>1 DEF UpsertDevice, UpsertUnrevokedDevice, MarkTrusted,
                          MarkDeviceTrusted
    <2>3. CASE ApplyBind(r)
      BY <2>3 DEF ApplyBind, BindSession, IdentityOf
    <2>4. CASE CommitRevoke(r)
      <3>1. OwnerOf(req[r].device) = IdentityOf(r)
        BY <2>4 DEF CommitRevoke, RequestShape, At
      <3>2. \A s \in req[r].swept : SessionIdentity[s] = OwnerOf(req[r].device)
        BY <2>4 DEF CommitRevoke, SweepInv, BoundSessions
      <3> QED
        BY <2>4, <3>1, <3>2 DEF CommitRevoke, RevokeTrustedDevice, RevokeSessions
    <2> QED
      BY <2>1, <2>2, <2>3, <2>4
         DEF Call, RowWrite, LoadOwnedDevice, IssueChallenge, ConsumeChallenge,
             CheckOwner, WriteOwner, SelectBind, SelectSessions, LockSession,
             MarkRevoked, Fail
  <1> QED
    BY <1>1, RevocationInvariant, PTL DEF Spec, UsersAreIsolated, RevocationInv
-----------------------------------------------------------------------------
(* The service implements DeviceAssurance. *)

\* What a step of one request can do to the binds that are admitted.
LEMMA AdmittedSteps ==
  ASSUME TypeInv, NEW r \in Requests,
         \A p \in Requests : p # r => req'[p] = req[p]
  PROVE  LET pair == <<req[r].session, req[r].device>> IN
         /\ ~At(r, "bind_locked") /\ req'[r].pc # "bind_locked" =>
              Admitted' = Admitted
         /\ At(r, "bind_locked") /\ req'[r].pc # "bind_locked" =>
              Admitted' \in {Admitted, Admitted \ {pair}}
         /\ /\ ~At(r, "bind_locked") /\ req'[r].pc = "bind_locked"
            /\ req'[r].session = req[r].session /\ req[r].session \in Sessions
            /\ req'[r].device = req[r].device /\ req[r].device \in Devices
            => Admitted' = Admitted \cup {pair}
  <1> DEFINE Holds(q, p) == /\ q.pc = "bind_locked"
                            /\ q.session = p[1] /\ q.device = p[2]
  <1>1. \A p \in Sessions \X Devices :
          p \in Admitted <=> \E q \in Requests : Holds(req[q], p)
    BY DEF Admitted, At
  <1>2. \A p \in Sessions \X Devices :
          p \in Admitted' <=> \E q \in Requests : Holds(req'[q], p)
    BY DEF Admitted, At
  <1>3. Admitted \subseteq Sessions \X Devices /\ Admitted' \subseteq Sessions \X Devices
    BY DEF Admitted
  <1>4. \A p \in Sessions \X Devices : Holds(req[r], p) =>
          p = <<req[r].session, req[r].device>>
    OBVIOUS
  <1>5. \A p \in Sessions \X Devices :
          (p \in Admitted' /\ ~Holds(req'[r], p)) => p \in Admitted
    BY <1>1, <1>2
  <1>6. \A p \in Sessions \X Devices :
          (p \in Admitted /\ ~Holds(req[r], p)) => p \in Admitted'
    BY <1>1, <1>2
  <1>7. ASSUME ~At(r, "bind_locked"), req'[r].pc # "bind_locked"
        PROVE  Admitted' = Admitted
    BY <1>3, <1>5, <1>6, <1>7 DEF At
  <1>8. ASSUME At(r, "bind_locked"), req'[r].pc # "bind_locked"
        PROVE  Admitted' \in {Admitted, Admitted \ {<<req[r].session, req[r].device>>}}
    <2>1. Admitted' \subseteq Admitted
      BY <1>3, <1>5, <1>8
    <2>2. Admitted \ {<<req[r].session, req[r].device>>} \subseteq Admitted'
      BY <1>3, <1>4, <1>6
    <2> QED
      BY <2>1, <2>2
  <1>9. ASSUME ~At(r, "bind_locked"), req'[r].pc = "bind_locked",
               req'[r].session = req[r].session, req[r].session \in Sessions,
               req'[r].device = req[r].device, req[r].device \in Devices
        PROVE  Admitted' = Admitted \cup {<<req[r].session, req[r].device>>}
    <2>1. Admitted \subseteq Admitted'
      BY <1>3, <1>6, <1>9 DEF At
    <2>2. <<req[r].session, req[r].device>> \in Admitted'
      BY <1>2, <1>9
    <2>3. Admitted' \subseteq Admitted \cup {<<req[r].session, req[r].device>>}
      BY <1>3, <1>5, <1>9
    <2> QED
      BY <2>1, <2>2, <2>3
  <1> QED
    BY <1>7, <1>8, <1>9

\* The sessions being ended, device by device: a step of one request leaves those
\* of the devices of the others alone.
LEMMA DoomedApart ==
  ASSUME NEW r \in Requests, \A p \in Requests : p # r => req'[p] = req[p],
         NEW e \in Devices,
         ~(At(r, "sweep") /\ req[r].device = e),
         ~(req'[r].pc = "sweep" /\ req'[r].device = e)
  PROVE  /\ e \in Closing' <=> e \in Closing
         /\ \A s \in Sessions : <<s, e>> \in Doomed' <=> <<s, e>> \in Doomed
  <1>1. \A p \in Requests : At(p, "sweep") /\ req[p].device = e => req'[p] = req[p]
    OBVIOUS
  <1>2. \A p \in Requests :
          req'[p].pc = "sweep" /\ req'[p].device = e => req'[p] = req[p]
    OBVIOUS
  <1>3. e \in Closing' <=> e \in Closing
    BY <1>1, <1>2 DEF Closing, At
  <1>4. ASSUME NEW s \in Sessions
        PROVE  <<s, e>> \in Doomed' <=> <<s, e>> \in Doomed
    <2>1. <<s, e>> \in Doomed <=>
            \E p \in Requests : /\ req[p].pc = "sweep" /\ req[p].device = e
                                /\ s \in req[p].found \cup req[p].swept
      BY DEF Doomed, At
    <2>2. <<s, e>> \in Doomed' <=>
            \E p \in Requests : /\ req'[p].pc = "sweep" /\ req'[p].device = e
                                /\ s \in req'[p].found \cup req'[p].swept
      BY DEF Doomed, At
    <2> QED
      BY <1>1, <1>2, <2>1, <2>2 DEF At
  <1> QED
    BY <1>3, <1>4

\* Two sets of pairs that agree on each device are equal.
LEMMA SamePairs ==
  ASSUME NEW A, NEW B, A \subseteq Sessions \X Devices, B \subseteq Sessions \X Devices,
         \A s \in Sessions, e \in Devices : <<s, e>> \in A <=> <<s, e>> \in B
  PROVE  A = B
  OBVIOUS

\* A step outside the sweep leaves the sessions being ended alone.
LEMMA SweepKept ==
  ASSUME TypeInv, NEW r \in Requests,
         Arrival(r) \/ Call(r) \/ RowWrite(r) \/ Fail(r),
         ~At(r, "sweep"), req'[r].pc # "sweep"
  PROVE  Closing' = Closing /\ Doomed' = Doomed
  <1>1. \A p \in Requests : p # r => req'[p] = req[p]
    BY RequestsApart
  <1>2. \A e \in Devices :
          /\ e \in Closing' <=> e \in Closing
          /\ \A s \in Sessions : <<s, e>> \in Doomed' <=> <<s, e>> \in Doomed
    BY <1>1, DoomedApart
  <1>3. Doomed \subseteq Sessions \X Devices /\ Doomed' \subseteq Sessions \X Devices
    BY DEF Doomed
  <1>4. Doomed' = Doomed
    BY <1>2, <1>3, SamePairs
  <1> QED
    BY <1>2, <1>4 DEF Closing

\* The device of a revocation in the sweep, before and after a step of it.
LEMMA OneSweep ==
  ASSUME LockInv, NEW r \in Requests, Revoking(r)
  PROVE  LET d == req[r].device IN
         /\ d \in Devices /\ At(r, "sweep") => d \in Closing
         /\ ~At(r, "sweep") => d \notin Closing
         /\ \A s \in Sessions : d \in Devices =>
              (<<s, d>> \in Doomed <=>
                 At(r, "sweep") /\ s \in req[r].found \cup req[r].swept)
  <1> DEFINE d == req[r].device
  <1>1. \A p \in Requests : At(p, "sweep") /\ req[p].device = d => p = r
    BY DEF LockInv, Revoking, At
  <1>2. ASSUME NEW s \in Sessions, d \in Devices
        PROVE  <<s, d>> \in Doomed <=>
                 At(r, "sweep") /\ s \in req[r].found \cup req[r].swept
    <2>1. <<s, d>> \in Doomed <=>
            \E p \in Requests : /\ At(p, "sweep") /\ req[p].device = d
                                /\ s \in req[p].found \cup req[p].swept
      BY <1>2 DEF Doomed
    <2> QED
      BY <1>1, <2>1
  <1> QED
    BY <1>1, <1>2 DEF Closing

\* A step that changes nothing a user can see.
LEMMA Unseen ==
  ASSUME session' = session, device' = device,
         Signed' = Signed, Admitted' = Admitted,
         Closing' = Closing, Doomed' = Doomed
  PROVE  UNCHANGED Promise!vars
  BY DEF Promise!vars, SeenState, SeenTrust

\* Who signed for whom changes when a completion is verified, and only then.
LEMMA SignedKept ==
  ASSUME IInv, [Next]_vars, UNCHANGED evidence
  PROVE  Signed' = Signed
  <1> USE DEF IInv
  <1>1. \A c \in Challenges : evidence[c] # None =>
          challenge'[c].session = challenge[c].session
    BY EvidenceKept
  <1>2. \A d \in Devices : d # None
    BY StoreAssumption
  <1> QED
    BY <1>1, <1>2 DEF Signed

\* The session and the device of a request past its lookup.
LEMMA RequestParts ==
  ASSUME IInv, NEW r \in Requests,
         req[r].pc \in {"consume", "upsert", "check_owner", "write_owner", "trust",
                       "bind", "bind_locked", "revoke_sessions", "sweep"}
  PROVE  /\ req[r].session \in Sessions
         /\ req[r].device \in Devices
         /\ session[req[r].session].state # "none"
         /\ OwnerOf(req[r].device) = SessionIdentity[req[r].session]
  BY DEF IInv, TypeInv, RequestShape, HandlerInv, At, IdentityOf

\* A step of r past every bind leaves the admitted binds alone.
LEMMA AdmittedKept ==
  ASSUME TypeInv, NEW r \in Requests,
         Arrival(r) \/ Call(r) \/ RowWrite(r) \/ Fail(r),
         ~At(r, "bind_locked"), req'[r].pc # "bind_locked"
  PROVE  Admitted' = Admitted
  BY RequestsApart, AdmittedSteps

\* An arrival is seen by nobody.
LEMMA ArrivalUnseen ==
  ASSUME IInv, [Next]_vars, NEW r \in Requests, Arrival(r)
  PROVE  UNCHANGED Promise!vars
  <1>1. UNCHANGED <<session, device, evidence>>
    BY DEF Arrival, RejectUnauthorized, ReceiveEnrollChallenge,
           ReceiveEnrollComplete, ReceiveForDevice, Receive, vars
  <1>2. CASE req' = req
    <2>1. Admitted' = Admitted /\ Closing' = Closing /\ Doomed' = Doomed
      BY <1>2 DEF Admitted, Closing, Doomed, At
    <2> QED
      BY <1>1, <2>1, SignedKept, Unseen
  <1>3. CASE req' # req
    <2>1. At(r, "idle") /\ req'[r].pc \in {"issue", "consume", "load", "revoke"}
      BY <1>3 DEF Arrival, RejectUnauthorized, ReceiveEnrollChallenge,
             ReceiveEnrollComplete, ReceiveForDevice, Receive, vars, IInv, TypeInv,
             TypeOK
    <2>2. Admitted' = Admitted /\ Closing' = Closing /\ Doomed' = Doomed
      BY <2>1, AdmittedKept, SweepKept DEF IInv, At
    <2> QED
      BY <1>1, <2>2, SignedKept, Unseen
  <1> QED
    BY <1>2, <1>3

\* A verified completion is a signature of the device for the session.
LEMMA ConsumeSigns ==
  ASSUME IInv, [Next]_vars, NEW r \in Requests, ConsumeChallenge(r)
  PROVE  Promise!Next \/ UNCHANGED Promise!vars
  <1> DEFINE c == req[r].challenge  s == req[r].session  d == req[r].device
  <1>1. session' = session /\ device' = device /\ At(r, "consume")
    BY DEF ConsumeChallenge
  <1>2. /\ c \in Challenges /\ s \in Sessions /\ d \in Devices
        /\ session[s].state # "none" /\ OwnerOf(d) = SessionIdentity[s]
    BY <1>1, RequestParts DEF IInv, TypeInv, RequestShape, At
  <1>3. Answer(r) \/ GotoVerified(r)
    BY DEF ConsumeChallenge
  <1>4. req'[r].pc \notin {"bind_locked", "sweep"}
    BY <1>3, AnswerFields, VerifiedFields DEF Idle, IInv
  <1>5. Admitted' = Admitted /\ Closing' = Closing /\ Doomed' = Doomed
    BY <1>1, <1>4, AdmittedKept, SweepKept DEF IInv, At, Call
  <1>6. CASE UNCHANGED evidence
    BY <1>1, <1>5, <1>6, SignedKept, Unseen
  <1>7. CASE /\ challenge[c].session = s
             /\ challenge[c].state = "live"
             /\ SpendChallenge(c)
             /\ evidence' = [evidence EXCEPT ![c] = d]
    <2>1. \A k \in Challenges : challenge'[k].session = challenge[k].session
      BY <1>2, <1>7 DEF SpendChallenge, IInv, TypeInv, TypeOK, StoreTypeOK, ChallengeRow
    <2>2. \A k \in Challenges : evidence'[k] = IF k = c THEN d ELSE evidence[k]
      BY <1>7 DEF IInv, TypeInv, TypeOK
    <2>3. evidence[c] = None /\ \A e \in Devices : e # None
      BY <1>2, <1>7, StoreAssumption DEF IInv, ChallengeInv
    <2>4. \A p \in Sessions \X Devices :
            p \in Signed' <=> p \in Signed \/ p = <<s, d>>
      BY <1>2, <1>7, <2>1, <2>2, <2>3 DEF Signed
    <2>5. Signed' = Signed \cup {<<s, d>>}
      BY <1>2, <2>4 DEF Signed
    <2>6. <<s, d>> \in SameUser /\ SeenState(s) # "none"
      BY <1>2 DEF SameUser, SeenState
    <2>7. Promise!Sign(s, d)
      BY <1>1, <1>2, <1>5, <2>5, <2>6 DEF Promise!Sign, SeenState, SeenTrust
    <2> QED
      BY <1>2, <2>7 DEF Promise!Next
  <1> QED
    BY <1>6, <1>7, ConsumeCases DEF IInv

\* The trust mark of a device that signed.
LEMMA MarkTrusts ==
  ASSUME IInv, [Next]_vars, NEW r \in Requests, MarkTrusted(r)
  PROVE  Promise!Next \/ UNCHANGED Promise!vars
  <1> DEFINE s == req[r].session  d == req[r].device
  <1>1. At(r, "trust") /\ UNCHANGED <<session, evidence>>
    BY DEF MarkTrusted
  <1>2. s \in Sessions /\ d \in Devices /\ Proved(s, d)
    BY <1>1, RequestParts DEF IInv, HandlerInv, At
  <1>3. req'[r].pc \notin {"bind_locked", "sweep"}
    BY AnswerFields, GotoFields DEF MarkTrusted, Idle, IInv
  <1>4. /\ Admitted' = Admitted /\ Signed' = Signed
        /\ Closing' = Closing /\ Doomed' = Doomed
    BY <1>1, <1>3, AdmittedKept, SweepKept, SignedKept DEF IInv, At, RowWrite
  <1>5. device \in [Devices -> TrustStates]
    BY DEF IInv, TypeInv, TypeOK, StoreTypeOK
  <1>6. CASE device' = device
    BY <1>1, <1>4, <1>6, Unseen
  <1>7. CASE device[d] = "pending" /\ device' = [device EXCEPT ![d] = "trusted"]
    <2>1. <<s, d>> \in Signed
      BY <1>2 DEF Signed, Proved
    <2>2. Promise!Trust(d)
      BY <1>1, <1>2, <1>4, <1>5, <1>7, <2>1
         DEF Promise!Trust, SeenState, SeenTrust
    <2> QED
      BY <1>2, <2>2 DEF Promise!Next
  <1>8. CASE device[d] = "trusted" /\ device' = [device EXCEPT ![d] = "trusted"]
    BY <1>1, <1>2, <1>4, <1>5, <1>6, <1>8
  <1> QED
    BY <1>6, <1>7, <1>8 DEF MarkTrusted, Markable, MarkDeviceTrusted

\* A row that is inserted as pending is not trusted yet.
LEMMA UpsertUnseen ==
  ASSUME IInv, [Next]_vars, NEW r \in Requests, UpsertDevice(r)
  PROVE  UNCHANGED Promise!vars
  <1>1. At(r, "upsert") /\ UNCHANGED <<session, evidence>>
    BY DEF UpsertDevice
  <1>2. req'[r].pc \notin {"bind_locked", "sweep"}
    BY AnswerFields, GotoFields DEF UpsertDevice, Idle, IInv
  <1>3. /\ Admitted' = Admitted /\ Signed' = Signed
        /\ Closing' = Closing /\ Doomed' = Doomed
    BY <1>1, <1>2, AdmittedKept, SweepKept, SignedKept DEF IInv, At, RowWrite
  <1>4. device \in [Devices -> TrustStates]
    BY DEF IInv, TypeInv, TypeOK, StoreTypeOK
  <1>5. \A d \in Devices : SeenTrust(d)' = SeenTrust(d)
    BY <1>4 DEF UpsertDevice, UpsertUnrevokedDevice, SeenTrust
  <1> QED
    BY <1>1, <1>3, <1>5 DEF Promise!vars, SeenState

\* The snapshot of a bind admits it.
LEMMA SelectAdmits ==
  ASSUME IInv, [Next]_vars, NEW r \in Requests, SelectBind(r)
  PROVE  Promise!Next \/ UNCHANGED Promise!vars
  <1> DEFINE s == req[r].session  d == req[r].device
  <1>1. At(r, "bind") /\ UNCHANGED <<session, device, evidence>>
    BY DEF SelectBind
  <1>2. s \in Sessions /\ d \in Devices /\ Proved(s, d) /\ Signed' = Signed
    BY <1>1, RequestParts, SignedKept DEF IInv, HandlerInv, At
  <1>3. CASE BindSnapshot(s, d) /\ Goto(r, "bind_locked")
    <2>1. Admitted' = Admitted \cup {<<s, d>>}
      <3>1. \A p \in Requests : p # r => req'[p] = req[p]
        BY RequestsApart DEF IInv, Call
      <3> QED
        BY <1>1, <1>2, <1>3, <3>1, GotoFields, AdmittedSteps DEF IInv, At
    <2>2. /\ <<s, d>> \in Signed
          /\ Closing' = Closing /\ Doomed' = Doomed
      BY <1>1, <1>2, <1>3, GotoFields, SweepKept DEF Signed, Proved, IInv, At, Call
    <2>3. Promise!Admit(s, d)
      BY <1>1, <1>2, <1>3, <2>1, <2>2
         DEF Promise!Admit, BindSnapshot, LiveSession, SeenState, SeenTrust
    <2> QED
      BY <1>2, <2>3 DEF Promise!Next
  <1>4. CASE Answer(r)
    <2>1. Admitted' = Admitted /\ Closing' = Closing /\ Doomed' = Doomed
      BY <1>1, <1>4, AnswerFields, AdmittedKept, SweepKept DEF IInv, At, Idle, Call
    <2> QED
      BY <1>1, <1>2, <2>1, Unseen
  <1> QED
    BY <1>3, <1>4 DEF SelectBind

\* A pair that is bound or withdrawn is a step of the promise.
LEMMA PairSteps ==
  ASSUME NEW s \in Sessions, NEW d \in Devices,
         Promise!Bind(s, d) \/ Promise!Withdraw(s, d)
  PROVE  Promise!Next
  BY DEF Promise!Next

\* The write of a bind is one that was admitted.
LEMMA ApplyBinds ==
  ASSUME IInv, [Next]_vars, NEW r \in Requests, ApplyBind(r)
  PROVE  Promise!Next \/ UNCHANGED Promise!vars
  <1>1. At(r, "bind_locked") /\ UNCHANGED <<device, evidence>> /\ Answer(r)
    BY DEF ApplyBind
  <1>2. PICK s \in Sessions, d \in Devices :
          s = req[r].session /\ d = req[r].device /\ Signed' = Signed
    BY <1>1, RequestParts, SignedKept DEF At
  <1>3. Admitted' \in {Admitted, Admitted \ {<<s, d>>}}
    <2>1. \A p \in Requests : p # r => req'[p] = req[p]
      BY RequestsApart DEF IInv, RowWrite
    <2> QED
      BY <1>1, <1>2, <2>1, AnswerFields, AdmittedSteps DEF IInv, Idle
  <1>4. <<s, d>> \in Admitted
    BY <1>1, <1>2 DEF Admitted
  <1>5. /\ session \in [Sessions -> SessionRow]
        /\ Closing' = Closing /\ Doomed' = Doomed
    BY <1>1, AnswerFields, SweepKept
       DEF IInv, TypeInv, TypeOK, StoreTypeOK, Idle, At, RowWrite
  <1>6. CASE BindRecheck(s) /\ BindSession(s, d)
    <2>1. \A t \in Sessions :
            /\ session'[t].state = session[t].state
            /\ session'[t].device = IF t = s THEN d ELSE session[t].device
      BY <1>2, <1>5, <1>6 DEF BindSession, SessionRow
    <2>2. Promise!Bind(s, d)
      BY <1>1, <1>2, <1>3, <1>4, <1>5, <1>6, <2>1
         DEF Promise!Bind, BindRecheck, SeenState, SeenTrust
    <2> QED
      BY <1>2, <2>2, PairSteps
  <1>7. CASE session' = session /\ session[s].state # "active"
    <2>1. Admitted' = Admitted \ {<<s, d>>} => Promise!Withdraw(s, d)
      BY <1>1, <1>2, <1>5, <1>7 DEF Promise!Withdraw, SeenState, SeenTrust
    <2> QED
      BY <1>1, <1>2, <1>3, <1>5, <1>7, <2>1, PairSteps, Unseen
  <1> QED
    BY <1>2, <1>6, <1>7 DEF ApplyBind, BindRecheck

\* A revocation settles which sessions it ends: those the user sees bound.
LEMMA SelectBegins ==
  ASSUME IInv, LockInv, [Next]_vars, NEW r \in Requests, SelectSessions(r)
  PROVE  Promise!Next
  <1> DEFINE d == req[r].device
             F == BoundSessions(d)
  <1>1. At(r, "revoke_sessions") /\ UNCHANGED <<session, device, evidence>>
    BY DEF SelectSessions
  <1>2. /\ d \in Devices /\ Signed' = Signed
        /\ device[d] \in {"pending", "trusted"} /\ Revoking(r)
    BY <1>1, RequestParts, SignedKept DEF At, LockInv, Revoking
  <1>3. /\ req'[r].pc = "sweep" /\ req'[r].device = d
        /\ req'[r].found = F /\ req'[r].swept = {}
    BY <1>1 DEF SelectSessions, IInv, TypeInv, TypeOK, Request, RequestShape, At
  <1>4. \A p \in Requests : p # r => req'[p] = req[p]
    BY RequestsApart DEF IInv, Call
  <1>5. Admitted' = Admitted
    BY <1>1, <1>3, AdmittedKept DEF IInv, At, Call
  <1>6. LockInv' /\ Revoking(r)'
    BY <1>3, LockInvStep DEF IInv, Revoking
  <1>7. d \notin Closing /\ d \in Closing'
    BY <1>1, <1>2, <1>3, OneSweep DEF Closing, At
  <1>8. \A e \in Devices : e # d =>
          /\ e \in Closing' <=> e \in Closing
          /\ \A s \in Sessions : <<s, e>> \in Doomed' <=> <<s, e>> \in Doomed
    BY <1>1, <1>3, <1>4, DoomedApart DEF At
  <1>9. Closing' = Closing \cup {d}
    BY <1>2, <1>7, <1>8 DEF Closing
  <1>10. F = {s \in Sessions : session[s].device = d /\ SeenState(s) = "active"}
    BY <1>2, StoreAssumption
       DEF BoundSessions, SeenState, IInv, AssuranceIsProven, TypeInv, TypeOK,
           StoreTypeOK, SessionRow
  <1>11. \A s \in Sessions : <<s, d>> \notin Doomed
    BY <1>1, <1>2, OneSweep DEF At
  <1>12. \A s \in Sessions : <<s, d>> \in Doomed' <=> s \in F
    <2>1. ASSUME NEW p \in Requests, req'[p].pc = "sweep", req'[p].device = d
          PROVE  p = r
      BY <1>3, <1>6, <2>1 DEF LockInv, Revoking
    <2>2. \A s \in Sessions : <<s, d>> \in Doomed' <=>
            \E p \in Requests : /\ req'[p].pc = "sweep" /\ req'[p].device = d
                                /\ s \in req'[p].found \cup req'[p].swept
      BY <1>2 DEF Doomed, At
    <2> QED
      BY <1>3, <2>1, <2>2
  <1>13. Doomed' = Doomed \cup (F \X {d})
    <2>1. /\ Doomed' \subseteq Sessions \X Devices
          /\ Doomed \cup (F \X {d}) \subseteq Sessions \X Devices
      BY <1>2 DEF Doomed, BoundSessions
    <2>2. \A s \in Sessions, e \in Devices :
            <<s, e>> \in Doomed' <=> <<s, e>> \in Doomed \cup (F \X {d})
      BY <1>8, <1>11, <1>12
    <2> QED
      BY <2>1, <2>2, SamePairs
  <1>14. Promise!Begin(d)
    BY <1>1, <1>2, <1>5, <1>7, <1>9, <1>10, <1>13
       DEF Promise!Begin, SeenState, SeenTrust
  <1> QED
    BY <1>2, <1>14 DEF Promise!Next

\* A row that is locked stays among those to end, unless its clause fails by then.
LEMMA LockSpares ==
  ASSUME IInv, LockInv, SweepInv, [Next]_vars, NEW r \in Requests, LockSession(r)
  PROVE  Promise!Next \/ UNCHANGED Promise!vars
  <1> DEFINE d == req[r].device
  <1>1. At(r, "sweep") /\ UNCHANGED <<session, device, evidence>>
    BY DEF LockSession
  <1>2. d \in Devices /\ Signed' = Signed /\ Revoking(r)
    BY <1>1, RequestParts, SignedKept DEF At, Revoking
  <1>3. /\ req'[r].pc = "sweep" /\ req'[r].device = d
        /\ \A p \in Requests : p # r => req'[p] = req[p]
    BY LockFields DEF IInv
  <1>4. PICK s \in req[r].found :
          /\ s \in Sessions
          /\ req'[r].found = req[r].found \ {s}
          /\ req'[r].swept = req[r].swept \cup ({s} \cap BoundSessions(d))
    BY LockFields DEF IInv
  <1>5. Admitted' = Admitted
    BY <1>1, <1>3, AdmittedKept DEF IInv, At, RowWrite
  <1>6. LockInv' /\ Revoking(r)'
    BY <1>3, LockInvStep DEF IInv, Revoking
  <1>7. \A e \in Devices : e # d =>
          /\ e \in Closing' <=> e \in Closing
          /\ \A t \in Sessions : <<t, e>> \in Doomed' <=> <<t, e>> \in Doomed
    BY <1>1, <1>3, DoomedApart DEF At
  <1>8. Closing' = Closing
    BY <1>1, <1>2, <1>3, <1>7 DEF Closing, At
  <1>9. \A t \in Sessions : <<t, d>> \in Doomed <=> t \in req[r].found \cup req[r].swept
    BY <1>1, <1>2, OneSweep
  <1>10. \A t \in Sessions : <<t, d>> \in Doomed' <=> t \in req'[r].found \cup req'[r].swept
    <2>1. ASSUME NEW p \in Requests, req'[p].pc = "sweep", req'[p].device = d
          PROVE  p = r
      BY <1>3, <1>6, <2>1 DEF LockInv, Revoking
    <2>2. \A t \in Sessions : <<t, d>> \in Doomed' <=>
            \E p \in Requests : /\ req'[p].pc = "sweep" /\ req'[p].device = d
                                /\ t \in req'[p].found \cup req'[p].swept
      BY <1>2 DEF Doomed, At
    <2> QED
      BY <1>3, <1>4, <2>1, <2>2
  <1>11. Doomed \subseteq Sessions \X Devices /\ Doomed' \subseteq Sessions \X Devices
    BY DEF Doomed
  <1>12. CASE s \in BoundSessions(d) \/ s \in req[r].swept
    <2>1. \A t \in Sessions, e \in Devices : <<t, e>> \in Doomed' <=> <<t, e>> \in Doomed
      BY <1>4, <1>7, <1>9, <1>10, <1>12
    <2>2. Doomed' = Doomed
      BY <1>11, <2>1, SamePairs
    <2> QED
      BY <1>1, <1>2, <1>5, <1>8, <2>2, Unseen
  <1>13. CASE s \notin BoundSessions(d) /\ s \notin req[r].swept
    <2>1. \A t \in Sessions, e \in Devices :
            <<t, e>> \in Doomed' <=> <<t, e>> \in Doomed \ {<<s, d>>}
      BY <1>4, <1>7, <1>9, <1>10, <1>13
    <2>2. Doomed' = Doomed \ {<<s, d>>}
      BY <1>11, <2>1, SamePairs
    <2>3. session[s].device # d \/ SeenState(s) # "active"
      BY <1>2, <1>4, <1>13, StoreAssumption
         DEF BoundSessions, SeenState, IInv, AssuranceIsProven
    <2>4. Promise!Spare(s, d)
      BY <1>1, <1>2, <1>4, <1>5, <1>8, <2>2, <2>3
         DEF Promise!Spare, SeenState, SeenTrust
    <2> QED
      BY <1>2, <1>4, <2>4 DEF Promise!Next
  <1> QED
    BY <1>12, <1>13

\* What is left of the sessions being ended when a revocation is over.
LEMMA SweepEnds ==
  ASSUME IInv, LockInv, [Next]_vars, NEW r \in Requests, At(r, "sweep"), Answer(r)
  PROVE  LET d == req[r].device IN
         /\ Closing' = Closing \ {d}
         /\ Doomed' = Doomed \ (Sessions \X {d})
  <1> DEFINE d == req[r].device
  <1>1. d \in Devices /\ Revoking(r)
    BY RequestParts DEF At, Revoking
  <1>2. \A p \in Requests : p # r => req'[p] = req[p]
    BY DEF Answer, IInv, TypeInv, TypeOK
  <1>3. req'[r].pc # "sweep"
    BY AnswerFields DEF Idle, IInv
  <1>4. \A e \in Devices : e # d =>
          /\ e \in Closing' <=> e \in Closing
          /\ \A s \in Sessions : <<s, e>> \in Doomed' <=> <<s, e>> \in Doomed
    BY <1>2, <1>3, DoomedApart DEF At
  <1>5. \A p \in Requests : ~(req'[p].pc = "sweep" /\ req'[p].device = d)
    BY <1>1, <1>2, <1>3 DEF LockInv, Revoking
  <1>6. d \notin Closing' /\ \A s \in Sessions : <<s, d>> \notin Doomed'
    BY <1>5 DEF Closing, Doomed, At
  <1>7. Closing' = Closing \ {d}
    BY <1>1, <1>4, <1>6 DEF Closing
  <1>8. Doomed' = Doomed \ (Sessions \X {d})
    <2>1. /\ Doomed' \subseteq Sessions \X Devices
          /\ Doomed \ (Sessions \X {d}) \subseteq Sessions \X Devices
      BY DEF Doomed
    <2>2. \A s \in Sessions, e \in Devices :
            <<s, e>> \in Doomed' <=> <<s, e>> \in Doomed \ (Sessions \X {d})
      BY <1>4, <1>6
    <2> QED
      BY <2>1, <2>2, SamePairs
  <1> QED
    BY <1>7, <1>8

\* The commit of a revocation ends the sessions the user sees it ending.
LEMMA CommitRevokes ==
  ASSUME IInv, LockInv, SweepInv, [Next]_vars, NEW r \in Requests, CommitRevoke(r)
  PROVE  Promise!Next
  <1> DEFINE d == req[r].device
  <1>1. At(r, "sweep") /\ Answer(r) /\ UNCHANGED evidence /\ req[r].found = {}
    BY DEF CommitRevoke
  <1>2. /\ d \in Devices /\ Signed' = Signed /\ Revoking(r)
        /\ device[d] \in {"pending", "trusted"}
    BY <1>1, RequestParts, SignedKept DEF At, LockInv, Revoking
  <1>3. Admitted' = Admitted
    BY <1>1, AnswerFields, AdmittedKept DEF IInv, At, Idle, Call
  <1>4. device \in [Devices -> TrustStates] /\ session \in [Sessions -> SessionRow]
    BY DEF IInv, TypeInv, TypeOK, StoreTypeOK
  <1>5. /\ d \in Closing
        /\ \A t \in Sessions : <<t, d>> \in Doomed <=> t \in req[r].swept
    BY <1>1, <1>2, OneSweep
  <1>6. \A t \in Sessions : t \in req[r].swept =>
          session[t].device = d /\ session[t].state = "active"
    BY <1>1 DEF SweepInv, BoundSessions
  <1>7. \A t \in Sessions :
          /\ session'[t].device = session[t].device
          /\ session'[t].state =
               IF t \in req[r].swept THEN "revoked" ELSE session[t].state
    BY <1>4 DEF CommitRevoke, RevokeTrustedDevice, RevokeSessions, SessionRow
  <1>8. device' = [device EXCEPT ![d] = "revoked"]
    BY DEF CommitRevoke, RevokeTrustedDevice
  <1>9. Closing' = Closing \ {d} /\ Doomed' = Doomed \ (Sessions \X {d})
    BY <1>1, SweepEnds
  <1>10. Promise!Revoke(d)
    <2>1. [t \in Sessions |-> SeenState(t)]' =
            [t \in Sessions |->
               IF /\ <<t, d>> \in Doomed
                  /\ [u \in Sessions |-> session[u].device][t] = d
                  /\ [u \in Sessions |-> SeenState(u)][t] = "active"
               THEN "ended" ELSE [u \in Sessions |-> SeenState(u)][t]]
      BY <1>4, <1>5, <1>6, <1>7 DEF SeenState
    <2>2. [e \in Devices |-> SeenTrust(e)]' =
            [[e \in Devices |-> SeenTrust(e)] EXCEPT ![d] = "revoked"]
      BY <1>2, <1>4, <1>8 DEF SeenTrust
    <2>3. [t \in Sessions |-> session[t].device]' =
            [t \in Sessions |-> session[t].device]
      BY <1>7
    <2> QED
      BY <1>2, <1>3, <1>5, <1>9, <2>1, <2>2, <2>3 DEF Promise!Revoke
  <1> QED
    BY <1>2, <1>10 DEF Promise!Next

\* A request that fails withdraws the bind it was about to make, or abandons the
\* revocation it had begun, if any.
LEMMA FailWithdraws ==
  ASSUME IInv, LockInv, [Next]_vars, NEW r \in Requests, Fail(r)
  PROVE  Promise!Next \/ UNCHANGED Promise!vars
  <1> DEFINE s == req[r].session  d == req[r].device
  <1>1. UNCHANGED <<session, device, evidence>> /\ Answer(r)
    BY DEF Fail
  <1>2. Signed' = Signed
    BY <1>1, SignedKept
  <1>3. req'[r].pc \notin {"bind_locked", "sweep"}
    BY <1>1, AnswerFields DEF IInv, Idle
  <1>4. CASE At(r, "bind_locked")
    <2>1. \A p \in Requests : p # r => req'[p] = req[p]
      BY RequestsApart DEF IInv
    <2>2. Admitted' \in {Admitted, Admitted \ {<<s, d>>}}
      BY <1>3, <1>4, <2>1, AdmittedSteps DEF IInv
    <2>3. s \in Sessions /\ d \in Devices /\ Closing' = Closing /\ Doomed' = Doomed
      BY <1>3, <1>4, RequestParts, SweepKept DEF At, IInv
    <2>4. Admitted' = Admitted \ {<<s, d>>} => Promise!Withdraw(s, d)
      BY <1>1, <1>2, <2>3 DEF Promise!Withdraw, SeenState, SeenTrust
    <2> QED
      BY <1>1, <1>2, <2>2, <2>3, <2>4, PairSteps, Unseen
  <1>5. CASE At(r, "sweep")
    <2>1. d \in Devices /\ Admitted' = Admitted
      BY <1>3, <1>5, RequestParts, AdmittedKept DEF At, IInv
    <2>2. Closing' = Closing \ {d} /\ Doomed' = Doomed \ (Sessions \X {d})
      BY <1>1, <1>5, SweepEnds
    <2>3. Promise!Abandon(d)
      BY <1>1, <1>2, <2>1, <2>2 DEF Promise!Abandon, SeenState, SeenTrust
    <2> QED
      BY <2>1, <2>3 DEF Promise!Next
  <1>6. CASE ~At(r, "bind_locked") /\ ~At(r, "sweep")
    <2>1. Admitted' = Admitted /\ Closing' = Closing /\ Doomed' = Doomed
      BY <1>3, <1>6, AdmittedKept, SweepKept DEF IInv
    <2> QED
      BY <1>1, <1>2, <2>1, Unseen
  <1> QED
    BY <1>4, <1>5, <1>6

\* The calls that only read, or write what no user sees.
LEMMA OtherCallsUnseen ==
  ASSUME IInv, [Next]_vars, NEW r \in Requests,
         \/ LoadOwnedDevice(r) \/ IssueChallenge(r) \/ CheckOwner(r)
         \/ WriteOwner(r) \/ MarkRevoked(r)
  PROVE  UNCHANGED Promise!vars
  <1>1. /\ UNCHANGED <<session, device, evidence>>
        /\ ~At(r, "bind_locked") /\ ~At(r, "sweep")
    BY DEF LoadOwnedDevice, IssueChallenge, CheckOwner, WriteOwner, MarkRevoked, At
  <1>2. req'[r].pc \notin {"bind_locked", "sweep"}
    BY AnswerFields, GotoFields
       DEF LoadOwnedDevice, IssueChallenge, CheckOwner, WriteOwner, MarkRevoked,
           Idle, IInv
  <1>3. Admitted' = Admitted /\ Closing' = Closing /\ Doomed' = Doomed
    BY <1>1, <1>2, AdmittedKept, SweepKept DEF IInv, Call, RowWrite
  <1> QED
    BY <1>1, <1>3, SignedKept, Unseen

\* Logins and logouts are seen, the clock is not.
LEMMA EnvironmentSeen ==
  ASSUME IInv, [Next]_vars, Environment
  PROVE  Promise!Next \/ UNCHANGED Promise!vars
  <1>1. UNCHANGED <<device, evidence, req>>
    BY DEF Environment, Login, Logout, SessionExpires, ChallengeExpires
  <1>2. /\ Signed' = Signed /\ Admitted' = Admitted
        /\ Closing' = Closing /\ Doomed' = Doomed
    BY <1>1, SignedKept DEF Admitted, Closing, Doomed, At
  <1>3. session \in [Sessions -> SessionRow]
    BY DEF IInv, TypeInv, TypeOK, StoreTypeOK
  <1>4. ASSUME NEW s \in Sessions, Login(s)
        PROVE  Promise!Next
    <2>1. session[s].state = "none"
      BY <1>4 DEF Login, CreateSession
    <2>2. \A t \in Sessions :
            /\ session'[t].device = session[t].device
            /\ session'[t].state = IF t = s THEN "active" ELSE session[t].state
      BY <1>3, <1>4 DEF Login, CreateSession, SessionRow
    <2>3. Promise!Open(s)
      BY <1>1, <1>2, <2>1, <2>2 DEF Promise!Open, SeenState, SeenTrust
    <2> QED
      BY <2>3 DEF Promise!Next
  <1>5. ASSUME NEW s \in Sessions, Logout(s)
        PROVE  Promise!Next
    <2>1. session[s].state = "active"
      BY <1>5 DEF Logout, RevokeSession
    <2>2. \A t \in Sessions :
            /\ session'[t].device = session[t].device
            /\ session'[t].state = IF t = s THEN "revoked" ELSE session[t].state
      BY <1>3, <1>5 DEF Logout, RevokeSession, SessionRow
    <2>3. Promise!Close(s)
      BY <1>1, <1>2, <2>1, <2>2 DEF Promise!Close, SeenState, SeenTrust
    <2> QED
      BY <2>3 DEF Promise!Next
  <1>6. ASSUME NEW s \in Sessions, SessionExpires(s)
        PROVE  UNCHANGED Promise!vars
    <2>1. \A t \in Sessions :
            /\ session'[t].device = session[t].device
            /\ session'[t].state = session[t].state
      BY <1>3, <1>6 DEF SessionExpires, ExpireSession, SessionRow
    <2> QED
      BY <1>1, <1>2, <2>1 DEF Promise!vars, SeenState, SeenTrust
  <1>7. ASSUME NEW c \in Challenges, ChallengeExpires(c)
        PROVE  UNCHANGED Promise!vars
    BY <1>1, <1>2, <1>7, Unseen DEF ChallengeExpires
  <1> QED
    BY <1>4, <1>5, <1>6, <1>7 DEF Environment

LEMMA PromiseStep ==
  RevocationInv /\ [Next]_vars => [Promise!Next]_(Promise!vars)
  <1> SUFFICES ASSUME RevocationInv, [Next]_vars
               PROVE  Promise!Next \/ UNCHANGED Promise!vars
    OBVIOUS
  <1> USE DEF RevocationInv
  <1>1. CASE UNCHANGED vars
    <2>1. Admitted' = Admitted /\ Closing' = Closing /\ Doomed' = Doomed
      BY <1>1 DEF Admitted, Closing, Doomed, At, vars
    <2> QED
      BY <1>1, <2>1, SignedKept, Unseen DEF vars
  <1>2. ASSUME NEW r \in Requests, Arrival(r)
        PROVE  UNCHANGED Promise!vars
    BY <1>2, ArrivalUnseen
  <1>3. ASSUME NEW r \in Requests, Call(r) \/ RowWrite(r) \/ Fail(r)
        PROVE  Promise!Next \/ UNCHANGED Promise!vars
    BY <1>3, ConsumeSigns, MarkTrusts, UpsertUnseen, SelectAdmits, ApplyBinds,
       SelectBegins, LockSpares, CommitRevokes, FailWithdraws, OtherCallsUnseen
       DEF Call, RowWrite
  <1> QED
    BY <1>1, <1>2, <1>3, EnvironmentSeen DEF Next

\* Whatever overlaps and fails, the service does what DeviceAssurance does.
THEOREM Implements == Spec => ImplementsDeviceAssurance
  <1>1. Init => Promise!Init
    <2> SUFFICES ASSUME Init
                 PROVE  Promise!Init
      OBVIOUS
    <2>1. Signed = {} /\ Admitted = {} /\ Closing = {} /\ Doomed = {}
      BY StoreAssumption DEF Init, Idle, Signed, Admitted, Closing, Doomed, At
    <2> QED
      BY <2>1 DEF Init, StoreInit, Promise!Init, SeenState, SeenTrust
  <1> QED
    BY <1>1, RevocationInvariant, PromiseStep, PTL
       DEF Spec, ImplementsDeviceAssurance, Promise!Spec
=============================================================================
