--------------------------- MODULE AuthlinkStore ---------------------------
(***************************************************************************)
(* The session, trusted_device and device_challenge tables of PostgreSQL   *)
(* and the statements of crates/authlink-store that read and write them.   *)
(* Every statement is split in the way PostgreSQL's READ COMMITTED         *)
(* isolation splits it: the WHERE clause is a predicate on the committed   *)
(* rows, the write is an operator that primes its table.                   *)
(*                                                                         *)
(* A trusted_device row is named by the pair of its identity and its key   *)
(* fingerprint: unique(identity_id, device_public_id) makes the pair a     *)
(* name, and no statement deletes the row.  Instants are abstracted to     *)
(* "before or after expires_at".  There is one tenant, as in the code.     *)
(***************************************************************************)
EXTENDS Naturals

CONSTANTS
  Identities,       \* rows of authlink.identity
  Keys,             \* P-256 keys, each named by its fingerprint
  Sessions,         \* session ids the gateway may hand out
  Challenges,       \* challenge ids the device service may hand out
  SessionIdentity,  \* the identity each session id is created for
  None              \* SQL null

Devices == Identities \X Keys
OwnerOf(d) == d[1]
KeyOf(d)   == d[2]

ASSUME StoreAssumption ==
  /\ SessionIdentity \in [Sessions -> Identities]
  /\ None \notin Devices \cup Sessions \cup Challenges \cup Keys

VARIABLES
  session,    \* authlink.session
  device,     \* authlink.trusted_device: trust_state, revoked_at
  challenge   \* authlink.device_challenge

ChallengeActions == {"enroll", "bind-session"}

SessionRow ==
  [state : {"none", "active", "revoked"}, expires : {"ahead", "past"},
   device : Devices \cup {None}]

ChallengeRow ==
  [state : {"none", "live", "used", "expired"}, session : Sessions \cup {None},
   action : ChallengeActions \cup {None}, device : Devices \cup {None}]

TrustStates == {"absent", "pending", "trusted", "revoked"}

StoreTypeOK ==
  /\ session \in [Sessions -> SessionRow]
  /\ device \in [Devices -> TrustStates]
  /\ challenge \in [Challenges -> ChallengeRow]

StoreInit ==
  /\ session = [s \in Sessions |->
                  [state |-> "none", expires |-> "ahead", device |-> None]]
  /\ device = [d \in Devices |-> "absent"]
  /\ challenge = [c \in Challenges |->
                    [state |-> "none", session |-> None, action |-> None,
                     device |-> None]]
-----------------------------------------------------------------------------
(* authlink.session *)

\* load_active_session: the WHERE clause of every session lookup.
LiveSession(s) == session[s].state = "active" /\ session[s].expires = "ahead"

CreateSession(s) ==
  /\ session[s].state = "none"
  /\ session' = [session EXCEPT ![s].state = "active"]

\* revoke_session: `where id = $1 and state = 'active'`.
RevokeSession(s) ==
  /\ session[s].state = "active"
  /\ session' = [session EXCEPT ![s].state = "revoked"]

\* The clock passes expires_at.
ExpireSession(s) ==
  /\ session[s].state = "active"
  /\ session[s].expires = "ahead"
  /\ session' = [session EXCEPT ![s].expires = "past"]

\* Defect variant: trust_state and revoked_at are missing from the join.
BindSnapshotAnyTrust(s, d) ==
  LiveSession(s) /\ OwnerOf(d) = SessionIdentity[s] /\ device[d] # "absent"

(***************************************************************************)
(* bind_session_to_trusted_device is one UPDATE session FROM               *)
(* trusted_device.  Its WHERE clause is evaluated on the snapshot the      *)
(* statement starts with; trusted_device is only read, its row is not      *)
(* locked.  When the session row is then locked, PostgreSQL re-evaluates   *)
(* the clause on the newest version of the session row alone, with now()   *)
(* and the device row still those of the snapshot.                         *)
(***************************************************************************)
BindSnapshot(s, d) ==
  /\ LiveSession(s)
  /\ OwnerOf(d) = SessionIdentity[s]
  /\ device[d] = "trusted"

\* Defect variant: the clause on the session row is not part of the UPDATE.
BindRecheckDropped(s) == session[s].state # "none"

BindRecheck(s) == session[s].state = "active"

BindSession(s, d) == session' = [session EXCEPT ![s].device = d]
-----------------------------------------------------------------------------
(* authlink.device_challenge *)

CreateDeviceChallenge(c, s, a, d) ==
  /\ challenge[c].state = "none"
  /\ challenge' = [challenge EXCEPT
       ![c] = [state |-> "live", session |-> s, action |-> a, device |-> d]]

ExpireChallenge(c) ==
  /\ challenge[c].state = "live"
  /\ challenge' = [challenge EXCEPT ![c].state = "expired"]

\* Defect variant: `used_at is null` is missing from the WHERE clause.
ConsumableEvenIfUsed(c, s, a) ==
  /\ challenge[c].state \in {"live", "used"}
  /\ challenge[c].session = s
  /\ challenge[c].action = a

(***************************************************************************)
(* consume_device_challenge.  The row is locked and the clause rechecked   *)
(* on its newest version, so clause and write are one step.  The clause    *)
(* names the session and not the state the session is in.                  *)
(***************************************************************************)
Consumable(c, s, a) ==
  /\ challenge[c].state = "live"
  /\ challenge[c].session = s
  /\ challenge[c].action = a

\* Defect variant: a state the rest of the table's statements do not know.
SpendAsConsumed(c) == challenge' = [challenge EXCEPT ![c].state = "consumed"]

SpendChallenge(c) == challenge' = [challenge EXCEPT ![c].state = "used"]
-----------------------------------------------------------------------------
(* authlink.trusted_device *)

\* upsert_unrevoked_device returns the row unless it is revoked; a row that
\* exists keeps its trust_state.
UpsertUnrevokedDevice(d) ==
  /\ device[d] # "revoked"
  /\ device' = [device EXCEPT ![d] = IF @ = "absent" THEN "pending" ELSE @]

\* The WHERE clause of load_trusted_device.
LoadTrustedDevice(d, i) == OwnerOf(d) = i /\ device[d] = "trusted"

\* Defect variant: `revoked_at is null` is missing from the UPDATE.
MarkableEvenIfRevoked(d) == device[d] # "absent"

\* The WHERE clause of mark_device_trusted.
Markable(d) == device[d] \in {"pending", "trusted"}

MarkDeviceTrusted(d) == device' = [device EXCEPT ![d] = "trusted"]

\* The WHERE clause of the first UPDATE of revoke_trusted_device.
Revocable(d, i) == OwnerOf(d) = i /\ device[d] \in {"pending", "trusted"}

\* Defect variant: the second UPDATE is missing.
KeepBoundSessions(rows) == session' = session

(***************************************************************************)
(* The WHERE clause of the second UPDATE of revoke_trusted_device.  Its    *)
(* snapshot selects the rows; each is then locked, its clause re-evaluated *)
(* on the newest version of the row, and written.  The row stays locked to *)
(* the end of the transaction.                                             *)
(***************************************************************************)
BoundSessions(d) ==
  {s \in Sessions : /\ SessionIdentity[s] = OwnerOf(d)
                    /\ session[s].device = d
                    /\ session[s].state = "active"}

RevokeSessions(rows) ==
  session' = [s \in Sessions |->
                IF s \in rows THEN [session[s] EXCEPT !.state = "revoked"]
                ELSE session[s]]

\* What both UPDATEs of revoke_trusted_device wrote, seen from the commit on.
RevokeTrustedDevice(d, rows) ==
  /\ device' = [device EXCEPT ![d] = "revoked"]
  /\ RevokeSessions(rows)
=============================================================================
