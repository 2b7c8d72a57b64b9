--------------------------- MODULE DeviceService ---------------------------
(***************************************************************************)
(* The device service (services/device): concurrent requests that enrol a  *)
(* key, bind a session to an enrolled device and revoke a device, on the   *)
(* tables of AuthlinkStore and the relationship tuples of OpenFGA, while   *)
(* the gateway creates and revokes sessions and the clock expires rows.    *)
(*                                                                         *)
(* A request is a slot that is idle between two requests.  Its pc is the   *)
(* next database or OpenFGA call of its handler; handler code between two  *)
(* calls touches nothing shared and belongs to the step of the call before *)
(* it.  Fail drops a request at any call: a failed call, a handler future  *)
(* cancelled because the client went away, a service that stops.           *)
(***************************************************************************)
EXTENDS AuthlinkStore

CONSTANT Requests

VARIABLES
  req,       \* the requests in progress
  tuples,    \* OpenFGA: <<user, device>> pairs of the relation `owner'
  taken,     \* history: how many requests were handed each challenge
  evidence,  \* history: the identity and key whose signature spent it
  late       \* history: the sessions bound to each device since a revocation
             \* of it last looked for the sessions to end

vars == <<session, device, challenge, req, tuples, taken, evidence, late>>

Ops == {"enroll_challenge", "enroll_complete", "bind_challenge",
        "bind_complete", "revoke_device"}

PCs == {"idle", "load", "issue", "consume", "upsert",
        "check_owner", "write_owner", "trust", "bind", "bind_locked",
        "revoke", "revoke_sessions", "sweep"}

Request ==
  [pc : PCs, op : Ops \cup {None}, session : Sessions \cup {None},
   device : Devices \cup {None}, challenge : Challenges \cup {None},
   signer : Keys \cup {None},
   found : SUBSET Sessions,   \* rows a revocation has selected and not locked
   swept : SUBSET Sessions]   \* rows it has locked and written

Idle == [pc |-> "idle", op |-> None, session |-> None, device |-> None,
         challenge |-> None, signer |-> None, found |-> {}, swept |-> {}]

Init ==
  /\ StoreInit
  /\ req = [r \in Requests |-> Idle]
  /\ tuples = {}
  /\ taken = [c \in Challenges |-> 0]
  /\ evidence = [c \in Challenges |-> None]
  /\ late = [d \in Devices |-> {}]

\* The type of every variable of the service and of the tables it shares.
TypeOK ==
  /\ StoreTypeOK
  /\ req \in [Requests -> Request]
  /\ tuples \subseteq Identities \X Devices
  /\ taken \in [Challenges -> Nat]
  /\ evidence \in [Challenges -> Devices \cup {None}]
  /\ late \in [Devices -> SUBSET Sessions]
-----------------------------------------------------------------------------
At(r, pc)   == req[r].pc = pc
Goto(r, pc) == req' = [req EXCEPT ![r].pc = pc]
Answer(r)   == req' = [req EXCEPT ![r] = Idle]

IdentityOf(r) == SessionIdentity[req[r].session]

\* The action string each operation creates or consumes challenges with.
ActionOf(op) ==
  IF op \in {"enroll_challenge", "enroll_complete"}
  THEN "enroll" ELSE "bind-session"

\* A revoke transaction holds the row of the device from its first UPDATE to
\* its end, and the rows of the sessions from the lock of each.
Revoking(r)  == req[r].pc \in {"revoke_sessions", "sweep"}
RowLocked(d) == \E r \in Requests : Revoking(r) /\ req[r].device = d

SessionLocked(s) == \E r \in Requests : s \in req[r].swept

(***************************************************************************)
(* A request arrives and authorize_identity loads the session of its       *)
(* cookie.  The relation the user then needs on its own identity is        *)
(* written by the gateway before it creates the first session and nothing  *)
(* deletes it, so the lookup decides.  No handler looks the session up     *)
(* again: what follows runs for a session that may be revoked meanwhile.   *)
(*                                                                         *)
(* pc is the handler's first call after authorize_identity.                *)
(*                                                                         *)
(* A completion names a challenge and carries a signature made with some   *)
(* key over the message of that challenge (None: it verifies under none).  *)
(***************************************************************************)
Receive(r, op, pc, s, d, c, k) ==
  /\ At(r, "idle")
  /\ LiveSession(s)
  /\ req' = [req EXCEPT ![r] =
       [pc |-> pc, op |-> op, session |-> s, device |-> d,
        challenge |-> c, signer |-> k, found |-> {}, swept |-> {}]]
  /\ UNCHANGED <<session, device, challenge, tuples, taken, evidence, late>>

\* A request whose session is unknown, ended or expired is answered 401.
RejectUnauthorized(r) ==
  /\ At(r, "idle")
  /\ \E s \in Sessions : ~LiveSession(s)
  /\ UNCHANGED vars

ReceiveEnrollChallenge(r) ==
  \E s \in Sessions : Receive(r, "enroll_challenge", "issue", s, None, None, None)

\* Defect variant: a key is one device whoever enrols it, as if the upsert's
\* conflict target were device_public_id alone.
ReceiveEnrollCompleteSharedKey(r) ==
  \E s \in Sessions, d \in Devices, c \in Challenges :
    /\ challenge[c].state # "none"
    /\ Receive(r, "enroll_complete", "consume", s, d, c, KeyOf(d))

ReceiveEnrollComplete(r) ==
  \E s \in Sessions, k \in Keys, c \in Challenges, signer \in Keys \cup {None} :
    /\ challenge[c].state # "none"
    /\ Receive(r, "enroll_complete", "consume", s, <<SessionIdentity[s], k>>, c,
               signer)

\* The path names a device: the client learnt its id when the row was made.
ReceiveForDevice(r) ==
  \E s \in Sessions, d \in Devices :
    /\ device[d] # "absent"
    /\ \/ Receive(r, "bind_challenge", "load", s, d, None, None)
       \/ Receive(r, "revoke_device", "revoke", s, d, None, None)
       \/ \E c \in Challenges, signer \in Keys \cup {None} :
            /\ challenge[c].state # "none"
            /\ Receive(r, "bind_complete", "load", s, d, c, signer)
-----------------------------------------------------------------------------
\* load_owned_device: can_read on the device, then the owner-scoped lookup.
MayRead(r) ==
  /\ <<IdentityOf(r), req[r].device>> \in tuples
  /\ LoadTrustedDevice(req[r].device, IdentityOf(r))

LoadOwnedDevice(r) ==
  /\ At(r, "load")
  /\ IF MayRead(r)
     THEN Goto(r, IF req[r].op = "bind_challenge" THEN "issue" ELSE "consume")
     ELSE Answer(r)
  /\ UNCHANGED <<session, device, challenge, tuples, taken, evidence, late>>

\* issue_challenge.  Challenge ids are bounded: when all are handed out the
\* insert behaves as a failed one.
IssueChallenge(r) ==
  /\ At(r, "issue")
  /\ Answer(r)
  /\ \/ \E c \in Challenges :
          CreateDeviceChallenge(c, req[r].session, ActionOf(req[r].op),
                                req[r].device)
     \/ /\ \A c \in Challenges : challenge[c].state # "none"
        /\ UNCHANGED challenge
  /\ UNCHANGED <<session, device, tuples, taken, evidence, late>>
-----------------------------------------------------------------------------
\* Defect variant: bind_complete does not compare challenge.device_id.
FitsAnyDevice(r) == TRUE

\* bind_complete accepts a challenge only for the device of its path.
ChallengeFits(r) ==
  req[r].op = "bind_complete" =>
    challenge[req[r].challenge].device = req[r].device

\* Defect variant: any signature is accepted.
AcceptsAnySignature(r) == TRUE

\* verify_b64_signature over the message rebuilt from the consumed row, with
\* the submitted key (enroll_complete) or the stored one (bind_complete).
SignatureVerifies(r) == req[r].signer = KeyOf(req[r].device)

\* The challenge and the signature are not used again.
GotoVerified(r) ==
  req' = [req EXCEPT
    ![r].pc = IF req[r].op = "enroll_complete" THEN "upsert" ELSE "bind",
    ![r].challenge = None, ![r].signer = None]

(***************************************************************************)
(* consume_device_challenge and the checks that follow it.  A challenge    *)
(* the UPDATE returns is spent whatever the checks then say.               *)
(***************************************************************************)
ConsumeChallenge(r) ==
  LET c == req[r].challenge IN
  /\ At(r, "consume")
  /\ IF Consumable(c, req[r].session, ActionOf(req[r].op))
     THEN /\ SpendChallenge(c)
          /\ taken' = [taken EXCEPT ![c] = @ + 1]
          /\ IF ChallengeFits(r) /\ SignatureVerifies(r)
             THEN /\ GotoVerified(r)
                  /\ evidence' = [evidence EXCEPT ![c] =
                       IF req[r].signer = None THEN None
                       ELSE <<IdentityOf(r), req[r].signer>>]
             ELSE Answer(r) /\ UNCHANGED evidence
     ELSE Answer(r) /\ UNCHANGED <<challenge, taken, evidence>>
  /\ UNCHANGED <<session, device, tuples, late>>

UpsertDevice(r) ==
  LET d == req[r].device IN
  /\ At(r, "upsert")
  /\ ~RowLocked(d)
  /\ \/ UpsertUnrevokedDevice(d) /\ Goto(r, "check_owner")
     \/ device[d] = "revoked" /\ Answer(r) /\ UNCHANGED device
  /\ UNCHANGED <<session, challenge, tuples, taken, evidence, late>>

\* Defect variant: mark_device_trusted runs before ensure_device_owner ends.
TrustWithoutTuple(r) ==
  /\ At(r, "check_owner")
  /\ Goto(r, "trust")
  /\ UNCHANGED <<session, device, challenge, tuples, taken, evidence, late>>

\* ensure_tuple, first call: check.
CheckOwner(r) ==
  /\ At(r, "check_owner")
  /\ Goto(r, IF <<IdentityOf(r), req[r].device>> \in tuples
             THEN "trust" ELSE "write_owner")
  /\ UNCHANGED <<session, device, challenge, tuples, taken, evidence, late>>

\* ensure_tuple, second call: write.  OpenFGA refuses a tuple that exists.
WriteOwner(r) ==
  LET t == <<IdentityOf(r), req[r].device>> IN
  /\ At(r, "write_owner")
  /\ IF t \in tuples THEN Answer(r) ELSE Goto(r, "trust")
  /\ tuples' = tuples \cup {t}
  /\ UNCHANGED <<session, device, challenge, taken, evidence, late>>

MarkTrusted(r) ==
  LET d == req[r].device IN
  /\ At(r, "trust")
  /\ ~RowLocked(d)
  /\ \/ Markable(d) /\ MarkDeviceTrusted(d) /\ Goto(r, "bind")
     \/ ~Markable(d) /\ Answer(r) /\ UNCHANGED device
  /\ UNCHANGED <<session, challenge, tuples, taken, evidence, late>>
-----------------------------------------------------------------------------
\* bind_session, the snapshot of the UPDATE.
SelectBind(r) ==
  /\ At(r, "bind")
  /\ IF BindSnapshot(req[r].session, req[r].device)
     THEN Goto(r, "bind_locked") ELSE Answer(r)
  /\ UNCHANGED <<session, device, challenge, tuples, taken, evidence, late>>

\* bind_session, the session row locked, rechecked and written.
ApplyBind(r) ==
  LET s == req[r].session  d == req[r].device IN
  /\ At(r, "bind_locked")
  /\ ~SessionLocked(s)
  /\ \/ /\ BindRecheck(s)
        /\ BindSession(s, d)
        /\ late' = [late EXCEPT ![d] = @ \cup {s}]
     \/ ~BindRecheck(s) /\ UNCHANGED <<session, late>>
  /\ Answer(r)
  /\ UNCHANGED <<device, challenge, tuples, taken, evidence>>
-----------------------------------------------------------------------------
\* Defect variant: an UPDATE that finds nothing to revoke is tried again.
RetryRevocation(r) ==
  LET d == req[r].device IN
  /\ At(r, "revoke")
  /\ \/ /\ <<IdentityOf(r), d>> \notin tuples
        /\ Answer(r)
     \/ /\ <<IdentityOf(r), d>> \in tuples
        /\ ~RowLocked(d)
        /\ IF Revocable(d, IdentityOf(r))
           THEN Goto(r, "revoke_sessions") ELSE UNCHANGED req
  /\ UNCHANGED <<session, device, challenge, tuples, taken, evidence, late>>

\* revoke_device: can_revoke, then the first UPDATE of the transaction.  The
\* row it writes stays locked and uncommitted.
MarkRevoked(r) ==
  LET d == req[r].device IN
  /\ At(r, "revoke")
  /\ \/ /\ <<IdentityOf(r), d>> \notin tuples
        /\ Answer(r)
     \/ /\ <<IdentityOf(r), d>> \in tuples
        /\ ~RowLocked(d)
        /\ IF Revocable(d, IdentityOf(r))
           THEN Goto(r, "revoke_sessions") ELSE Answer(r)
  /\ UNCHANGED <<session, device, challenge, tuples, taken, evidence, late>>

\* The second UPDATE, its snapshot.  The device is still trusted to everyone
\* else, so what is bound from here on is not among the rows selected.
SelectSessions(r) ==
  LET d == req[r].device IN
  /\ At(r, "revoke_sessions")
  /\ req' = [req EXCEPT ![r].pc = "sweep", ![r].found = BoundSessions(d)]
  /\ late' = [late EXCEPT ![d] = {}]
  /\ UNCHANGED <<session, device, challenge, tuples, taken, evidence>>

\* Defect variant: the clause is not rechecked on a row that was waited for.
LockSelected(r) ==
  /\ At(r, "sweep")
  /\ \E s \in req[r].found :
       /\ ~SessionLocked(s)
       /\ req' = [req EXCEPT ![r].found = @ \ {s}, ![r].swept = @ \cup {s}]
  /\ UNCHANGED <<session, device, challenge, tuples, taken, evidence, late>>

\* The second UPDATE, one of those rows locked, rechecked and written.
LockSession(r) ==
  /\ At(r, "sweep")
  /\ \E s \in req[r].found :
       /\ ~SessionLocked(s)
       /\ req' = [req EXCEPT
            ![r].found = @ \ {s},
            ![r].swept = @ \cup ({s} \cap BoundSessions(req[r].device))]
  /\ UNCHANGED <<session, device, challenge, tuples, taken, evidence, late>>

\* The commit.
CommitRevoke(r) ==
  /\ At(r, "sweep")
  /\ req[r].found = {}
  /\ RevokeTrustedDevice(req[r].device, req[r].swept)
  /\ Answer(r)
  /\ UNCHANGED <<challenge, tuples, taken, evidence, late>>

\* A request ends before its next call: whatever was committed stays, an
\* open transaction rolls back.
Fail(r) ==
  /\ ~At(r, "idle")
  /\ Answer(r)
  /\ UNCHANGED <<session, device, challenge, tuples, taken, evidence, late>>
-----------------------------------------------------------------------------
(* The gateway and the clock. *)

Login(s) ==
  /\ CreateSession(s)
  /\ UNCHANGED <<device, challenge, req, tuples, taken, evidence, late>>

Logout(s) ==
  /\ ~SessionLocked(s)
  /\ RevokeSession(s)
  /\ UNCHANGED <<device, challenge, req, tuples, taken, evidence, late>>

SessionExpires(s) ==
  /\ ExpireSession(s)
  /\ UNCHANGED <<device, challenge, req, tuples, taken, evidence, late>>

ChallengeExpires(c) ==
  /\ ExpireChallenge(c)
  /\ UNCHANGED <<session, device, req, tuples, taken, evidence, late>>

Arrival(r) ==
  \/ RejectUnauthorized(r) \/ ReceiveEnrollChallenge(r)
  \/ ReceiveEnrollComplete(r) \/ ReceiveForDevice(r)

\* The calls of a handler that never wait for another request...
Call(r) ==
  \/ LoadOwnedDevice(r) \/ IssueChallenge(r)
  \/ ConsumeChallenge(r) \/ CheckOwner(r) \/ WriteOwner(r)
  \/ SelectBind(r) \/ SelectSessions(r) \/ CommitRevoke(r)

\* ...and those that queue for the row of a device or of a session.
RowWrite(r) ==
  \/ UpsertDevice(r) \/ MarkTrusted(r) \/ MarkRevoked(r)
  \/ ApplyBind(r) \/ LockSession(r)

Environment ==
  \/ \E s \in Sessions : Login(s) \/ Logout(s) \/ SessionExpires(s)
  \/ \E c \in Challenges : ChallengeExpires(c)

Next ==
  \/ \E r \in Requests : Arrival(r) \/ Call(r) \/ RowWrite(r) \/ Fail(r)
  \/ Environment

Spec == Init /\ [][Next]_vars

(***************************************************************************)
(* Tokio polls every handler whose call has an answer, and PostgreSQL      *)
(* grants a row lock to its waiters in turn: a handler's calls are weakly  *)
(* fair, the ones that queue for a row strongly fair.  Arrivals, failures, *)
(* the gateway and the clock owe nothing.                                  *)
(***************************************************************************)
Fairness ==
  \A r \in Requests : WF_vars(Call(r)) /\ SF_vars(RowWrite(r))

FairSpec == Spec /\ Fairness
-----------------------------------------------------------------------------
(* What the service promises. *)

\* A challenge is handed to at most one request, whatever the requests that
\* present it concurrently or again later (consume_device_challenge).
ChallengeIsSingleUse == \A c \in Challenges : taken[c] <= 1

(***************************************************************************)
(* Assurance rests on a signature: a session bound to a device belongs to  *)
(* the owner of the device, and the key of the device signed a challenge   *)
(* issued to that very session; a trusted device was enrolled by its own   *)
(* key (enroll_complete, bind_complete).                                   *)
(***************************************************************************)
AssuranceIsProven ==
  /\ \A s \in Sessions : session[s].device # None =>
       /\ OwnerOf(session[s].device) = SessionIdentity[s]
       /\ \E c \in Challenges : /\ challenge[c].session = s
                               /\ evidence[c] = session[s].device
  /\ \A d \in Devices : device[d] = "trusted" =>
       \E c \in Challenges : /\ challenge[c].action = "enroll"
                             /\ evidence[c] = d

\* A challenge bind_challenge issued for one device is never accepted with the
\* key of another (the device id is not part of the signed message).
ChallengeProvesItsOwnDevice ==
  \A c \in Challenges :
    challenge[c].action = "bind-session" =>
      evidence[c] \in {None, challenge[c].device}

\* A device is never trusted before OpenFGA holds its owner, whatever fails or
\* overlaps in between (enroll_complete: ensure_device_owner comes first).
TrustedHasOwner ==
  \A d \in Devices : device[d] = "trusted" => <<OwnerOf(d), d>> \in tuples

\* No enrolment under way when a device is revoked, and none after it, makes
\* it anything but revoked (upsert_unrevoked_device, mark_device_trusted).
RevocationIsFinal ==
  [][\A d \in Devices : device[d] = "revoked" => device'[d] = "revoked"]_vars

\* A revoked session is never written again: no bind that was under way
\* revives it or raises its assurance (bind_session_to_trusted_device).
DeadSessionsStayDead ==
  [][\A s \in Sessions :
       session[s].state = "revoked" => session'[s] = session[s]]_vars

(***************************************************************************)
(* A revocation ends every session that was bound to its device when its   *)
(* second UPDATE looked, whatever then happens to those sessions while it  *)
(* waits for their rows: a session still active on a revoked device was    *)
(* bound to it after that look (revoke_trusted_device).                    *)
(***************************************************************************)
OnlyLateBindsSurvive ==
  \A s \in Sessions, d \in Devices :
    session[s].state = "active" /\ session[s].device = d /\ device[d] = "revoked"
      => s \in late[d]

\* The commit of a revocation writes no session but those bound to its device
\* at that moment: one that has moved to another device while the second UPDATE
\* waited for its row stays as it is (revoke_trusted_device).
RevocationEndsItsOwn ==
  [][\A d \in Devices, s \in Sessions :
       device[d] # "revoked" /\ device'[d] = "revoked" /\ session'[s] # session[s]
         => session[s].device = d]_vars

\* s is, or may yet become, an active session bound to the revoked d: its bind
\* has passed the snapshot and waits for the session row.
MayOutlive(s, d) ==
  /\ device[d] = "revoked"
  /\ session[s].state = "active"
  /\ \/ session[s].device = d
     \/ \E r \in Requests : /\ At(r, "bind_locked")
                             /\ req[r].session = s
                             /\ req[r].device = d

\* After the commit of a revocation the set of sessions that may be bound to
\* the device only shrinks: no request that reads the device after it succeeds.
NoNewBindingAfterRevocation ==
  [][\A s \in Sessions, d \in Devices :
       device[d] = "revoked" /\ ~MayOutlive(s, d) => ~MayOutlive(s, d)']_vars

\* A request touches no device and no session of a user other than its own
\* (the owner-scoped statements of the store, unique per identity and key).
UsersAreIsolated ==
  [][\A r \in Requests : ~At(r, "idle") /\ req'[r] # req[r] =>
       /\ \A d \in Devices :
            OwnerOf(d) # IdentityOf(r) => device'[d] = device[d]
       /\ \A s \in Sessions :
            SessionIdentity[s] # IdentityOf(r) => session'[s] = session[s]]_vars

\* What README.md and docs/spec-v3/TRUSTED_DEVICE_SECURITY_MODEL.md promise:
\* revoking a device revokes every active session bound to it.  The code does
\* not keep it: see OnlyLateBindsSurvive and NoNewBindingAfterRevocation for
\* what it does keep.
RevokedDeviceHasNoActiveSession ==
  \A s \in Sessions : session[s].state = "active" /\ session[s].device # None =>
    device[session[s].device] # "revoked"

\* What a user can see of the service: the sessions and devices of the tables,
\* who signed for whom, and the binds that have read their device.
SeenState(s) == IF session[s].state = "revoked" THEN "ended" ELSE session[s].state

SeenTrust(d) == IF device[d] \in {"absent", "pending"} THEN "no" ELSE device[d]

Signed == {p \in Sessions \X Devices :
             \E c \in Challenges : challenge[c].session = p[1] /\ evidence[c] = p[2]}

Admitted == {p \in Sessions \X Devices :
               \E r \in Requests : At(r, "bind_locked")
                                   /\ req[r].session = p[1] /\ req[r].device = p[2]}

SameUser == {p \in Sessions \X Devices : OwnerOf(p[2]) = SessionIdentity[p[1]]}

\* The devices a revocation is ending the sessions of, and those sessions.
Closing == {d \in Devices : \E r \in Requests : At(r, "sweep") /\ req[r].device = d}

Doomed == {p \in Sessions \X Devices :
             \E r \in Requests : /\ At(r, "sweep") /\ req[r].device = p[2]
                               /\ p[1] \in req[r].found \cup req[r].swept}

Promise == INSTANCE DeviceAssurance WITH
  Own <- SameUser,
  state <- [s \in Sessions |-> SeenState(s)],
  bound <- [s \in Sessions |-> session[s].device],
  trust <- [d \in Devices |-> SeenTrust(d)],
  signed <- Signed,
  admitted <- Admitted,
  closing <- Closing,
  doomed <- Doomed

\* Challenges, tuples, locks and failures aside, the service does what
\* DeviceAssurance does: a session is bound only on a signature made for it, to
\* a device that was trusted when its bind was admitted; a revocation ends what
\* was bound when it looked, and admits no bind from its commit on (all
\* handlers).
ImplementsDeviceAssurance == Promise!Spec

\* Every request is answered, also the ones that queue for a device row behind
\* revocations and the ones that find it revoked when their turn comes.
EveryRequestIsAnswered ==
  \A r \in Requests : ~At(r, "idle") ~> At(r, "idle")
=============================================================================
