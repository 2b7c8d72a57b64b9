------------------------------ MODULE OidcLogin -----------------------------
(***************************************************************************)
(* The login of the gateway: oidc_start, oidc_callback, logout and         *)
(* bootstrap_self_policy, against the identity provider, PostgreSQL and    *)
(* OpenFGA.  Login transactions are process memory; identities, sessions   *)
(* and tuples are not.  userinfo changes nothing and is merged with the    *)
(* call after it; callbacks without code or state have no effect.          *)
(***************************************************************************)
EXTENDS Naturals

CONSTANTS
  Logins,     \* login transactions: a state and its PKCE verifier
  Codes,      \* authorization codes of the provider
  Subjects,   \* users of the provider
  Sessions,   \* session ids (UUIDv4, never reused)
  Requests,   \* concurrent requests
  None

ASSUME OidcLoginAssumption ==
  None \notin Logins \cup Codes \cup Subjects
                \cup [login : Logins, subject : Subjects, used : BOOLEAN]
                \cup [login : Logins, subject : Subjects, state : {"active", "ended"}]

VARIABLES
  tx,         \* login_transactions: where each transaction is
  code,       \* the provider: None, or what a code was issued for
  identity,   \* subjects with a row in authlink.identity
  owner,      \* subjects that own their identity in OpenFGA
  session,    \* authlink.session, with the login that opened it
  req         \* the requests in progress

vars == <<tx, code, identity, owner, session, req>>

TxStates == {"unused", "open", "expired", "gone"}

Code == [login : Logins, subject : Subjects, used : BOOLEAN]

Session == [login : Logins, subject : Subjects, state : {"active", "ended"}]

Request ==
  [pc : {"idle", "exchange", "identity", "check_owner", "write_owner", "session"},
   login : Logins \cup {None}, code : Codes \cup {None},
   subject : Subjects \cup {None}]

Idle == [pc |-> "idle", login |-> None, code |-> None, subject |-> None]

\* The type of the transactions, the codes, the tables and the requests.
TypeOK ==
  /\ tx \in [Logins -> TxStates]
  /\ code \in [Codes -> Code \cup {None}]
  /\ identity \subseteq Subjects /\ owner \subseteq Subjects
  /\ session \in [Sessions -> Session \cup {None}]
  /\ req \in [Requests -> Request]

Init ==
  /\ tx = [l \in Logins |-> "unused"]
  /\ code = [c \in Codes |-> None]
  /\ identity = {} /\ owner = {}
  /\ session = [id \in Sessions |-> None]
  /\ req = [r \in Requests |-> Idle]
-----------------------------------------------------------------------------
\* retain: transactions past their ten minutes are dropped.
Retained == [l \in Logins |-> IF tx[l] = "expired" THEN "gone" ELSE tx[l]]

OidcStart(l) ==
  /\ tx[l] = "unused"
  /\ tx' = [Retained EXCEPT ![l] = "open"]
  /\ UNCHANGED <<code, identity, owner, session, req>>

\* The provider, for someone who followed the authorization URL.
Authorize(c, l, s) ==
  /\ tx[l] # "unused" /\ code[c] = None
  /\ code' = [code EXCEPT ![c] = [login |-> l, subject |-> s, used |-> FALSE]]
  /\ UNCHANGED <<tx, identity, owner, session, req>>

TransactionExpires(l) ==
  /\ tx[l] = "open"
  /\ tx' = [tx EXCEPT ![l] = "expired"]
  /\ UNCHANGED <<code, identity, owner, session, req>>

\* Defect variant: the transaction is looked up and left in the map.
FindTransaction(l) == Retained

\* The transaction is taken out of the map before any call.
TakeTransaction(l) ==
  [Retained EXCEPT ![l] = IF @ = "open" THEN "gone" ELSE @]

\* oidc_callback with a code and a state a browser has seen.
ReceiveCallback(r) ==
  /\ req[r].pc = "idle"
  /\ \E c \in Codes, l \in Logins :
       /\ code[c] # None /\ tx[l] # "unused"
       /\ tx' = TakeTransaction(l)
       /\ req' = IF tx[l] = "open"
                   THEN [req EXCEPT ![r] = [Idle EXCEPT !.pc = "exchange",
                                                        !.login = l, !.code = c]]
                   ELSE req
  /\ UNCHANGED <<code, identity, owner, session>>

\* Defect variant: the provider is not sent the verifier.
RedeemableByAnyone(c, l) == code[c] # None /\ ~code[c].used

\* A code is redeemed once, with the verifier of its own challenge.
Redeemable(c, l) == code[c] # None /\ ~code[c].used /\ code[c].login = l

Answer(r) == req' = [req EXCEPT ![r] = Idle]

ExchangeCode(r) ==
  LET c == req[r].code IN
  /\ req[r].pc = "exchange"
  /\ \/ /\ Redeemable(c, req[r].login)
        /\ code' = [code EXCEPT ![c].used = TRUE]
        /\ req' = [req EXCEPT ![r].pc = "identity", ![r].subject = code[c].subject]
     \/ /\ ~Redeemable(c, req[r].login)
        /\ Answer(r)
        /\ UNCHANGED code
  /\ UNCHANGED <<tx, identity, owner, session>>

\* Defect variant: the relation is left to bootstrap_self_policy.
UpsertWithoutOwner(r) ==
  /\ req[r].pc = "identity"
  /\ identity' = identity \cup {req[r].subject}
  /\ req' = [req EXCEPT ![r].pc = "session"]
  /\ UNCHANGED <<tx, code, owner, session>>

\* upsert_oidc_identity: unique by subject.
UpsertIdentity(r) ==
  /\ req[r].pc = "identity"
  /\ identity' = identity \cup {req[r].subject}
  /\ req' = [req EXCEPT ![r].pc = "check_owner"]
  /\ UNCHANGED <<tx, code, owner, session>>

\* Defect variant: every provisioning is followed by a session.
AlwaysSession(r) == req' = [req EXCEPT ![r].pc = "session"]

\* A callback goes on to its session, a bootstrap is answered.
AfterOwner(r) ==
  IF req[r].login = None THEN Answer(r) ELSE req' = [req EXCEPT ![r].pc = "session"]

\* ensure_tuple: a check, then a write, which is refused for a duplicate.
CheckOwner(r) ==
  /\ req[r].pc = "check_owner"
  /\ \/ req[r].subject \in owner /\ AfterOwner(r)
     \/ req[r].subject \notin owner /\ req' = [req EXCEPT ![r].pc = "write_owner"]
  /\ UNCHANGED <<tx, code, identity, owner, session>>

WriteOwner(r) ==
  /\ req[r].pc = "write_owner"
  /\ \/ req[r].subject \in owner /\ Answer(r)
     \/ req[r].subject \notin owner /\ AfterOwner(r)
  /\ owner' = owner \cup {req[r].subject}
  /\ UNCHANGED <<tx, code, identity, session>>

\* create_session and the redirect with its cookie.
CreateSession(r) ==
  /\ req[r].pc = "session"
  /\ \E id \in Sessions :
       /\ session[id] = None
       /\ session' = [session EXCEPT ![id] =
            [login |-> req[r].login, subject |-> req[r].subject, state |-> "active"]]
  /\ Answer(r)
  /\ UNCHANGED <<tx, code, identity, owner>>

\* A failed call, redirected with its reason, or a cancelled handler.
Fail(r) ==
  /\ req[r].pc # "idle"
  /\ Answer(r)
  /\ UNCHANGED <<tx, code, identity, owner, session>>
-----------------------------------------------------------------------------
Active(id) == session[id] # None /\ session[id].state = "active"

ReceiveBootstrap(r) ==
  /\ req[r].pc = "idle"
  /\ \E id \in Sessions :
       /\ Active(id)
       /\ req' = [req EXCEPT ![r] = [Idle EXCEPT !.pc = "check_owner",
                                                 !.subject = session[id].subject]]
  /\ UNCHANGED <<tx, code, identity, owner, session>>

\* logout when its write succeeds, the expiry, or a revocation elsewhere.
EndSession(id) ==
  /\ Active(id)
  /\ session' = [session EXCEPT ![id].state = "ended"]
  /\ UNCHANGED <<tx, code, identity, owner, req>>

\* The gateway starts again: transactions and requests are lost.
Restart ==
  /\ tx' = [l \in Logins |-> IF tx[l] = "unused" THEN "unused" ELSE "gone"]
  /\ req' = [r \in Requests |-> Idle]
  /\ UNCHANGED <<code, identity, owner, session>>

Next ==
  \/ \E l \in Logins : OidcStart(l) \/ TransactionExpires(l)
  \/ \E c \in Codes, l \in Logins, s \in Subjects : Authorize(c, l, s)
  \/ \E r \in Requests :
       \/ ReceiveCallback(r) \/ ExchangeCode(r) \/ UpsertIdentity(r)
       \/ CheckOwner(r) \/ WriteOwner(r) \/ CreateSession(r)
       \/ ReceiveBootstrap(r) \/ Fail(r)
  \/ \E id \in Sessions : EndSession(id)
  \/ Restart

Spec == Init /\ [][Next]_vars
-----------------------------------------------------------------------------
\* Every session, through all failures between identity, tuple and session,
\* has its identity row and the tuple every service authorises it by.
SessionIsProvisioned ==
  \A id \in Sessions :
    session[id] # None =>
      session[id].subject \in identity /\ session[id].subject \in owner

\* The bootstrap of a user with a session never has a tuple to write.
BootstrapFindsOwner ==
  \A r \in Requests :
    req[r].pc = "write_owner" => req[r].login # None

Promise == INSTANCE SignIn WITH
  authorised <- {<<code[c].login, code[c].subject>> : c \in {d \in Codes : code[d] # None}}

\* Whatever is repeated, mixed up between two tabs, lost or half done: a login
\* opens one session at most, for a subject who authorised that login.
ImplementsSignIn == Promise!Spec
=============================================================================
