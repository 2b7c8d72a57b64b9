--------------------------- MODULE OidcLoginProofs --------------------------
(***************************************************************************)
(* Theorems about OidcLogin.                                               *)
(***************************************************************************)
EXTENDS OidcLogin, TLAPS

\* What the provider has authorised.
Authorised ==
  {<<code[c].login, code[c].subject>> : c \in {d \in Codes : code[d] # None}}

\* What a callback or a bootstrap has established by each call.
RequestOK(q) ==
  /\ q.pc \in {"exchange", "identity", "session"} => q.login # None
  /\ q.pc # "idle" /\ q.login # None => tx[q.login] = "gone"
  /\ q.pc = "exchange" => q.code # None
  /\ q.pc \notin {"idle", "exchange"} => q.subject # None
  /\ q.pc \notin {"idle", "exchange"} /\ q.login # None
       => <<q.login, q.subject>> \in Authorised
  /\ q.pc \in {"check_owner", "write_owner", "session"} => q.subject \in identity
  /\ q.pc = "session" => q.subject \in owner
  /\ q.pc = "check_owner" /\ q.login = None => q.subject \in owner
  /\ q.pc = "write_owner" => q.login # None
  /\ q.pc = "idle" => q = Idle

RequestInv == \A r \in Requests : RequestOK(req[r])

\* A login is with one request or has opened one session.
LoginInv ==
  /\ \A r, s \in Requests :
       req[r].login # None /\ req[r].login = req[s].login => r = s
  /\ \A r \in Requests, id \in Sessions :
       session[id] # None => req[r].login # session[id].login
  /\ \A id \in Sessions : session[id] # None => tx[session[id].login] = "gone"

\* The inductive invariant.
IInv == TypeOK /\ RequestInv /\ LoginInv /\ SessionIsProvisioned
-----------------------------------------------------------------------------
LEMMA NoneApart ==
  /\ None \notin Logins /\ None \notin Codes /\ None \notin Subjects
  /\ None \notin Code /\ None \notin Session
  BY OidcLoginAssumption DEF Code, Session

LEMMA IdleOK == Idle \in Request /\ RequestOK(Idle)
  BY DEF Idle, Request, RequestOK

\* A session was opened by a login.
LEMMA SessionLogin ==
  ASSUME TypeOK, NEW id \in Sessions, session[id] # None
  PROVE  /\ session[id] \in Session /\ session[id].login \in Logins
         /\ session[id].login # None
  <1>1. session[id] \in Session
    BY DEF TypeOK
  <1> QED
    BY <1>1, NoneApart DEF Session

LEMMA InitIInv == Init => IInv
  <1> SUFFICES ASSUME Init PROVE IInv
    OBVIOUS
  <1>1. TypeOK
    BY IdleOK DEF Init, TypeOK, TxStates
  <1>2. RequestInv
    BY IdleOK DEF Init, RequestInv
  <1>3. LoginInv /\ SessionIsProvisioned
    BY DEF Init, LoginInv, SessionIsProvisioned, Idle
  <1> QED
    BY <1>1, <1>2, <1>3 DEF IInv

\* A request that goes on with the login it has, or with none, while the rest
\* stays or grows.
LEMMA RequestStep ==
  ASSUME IInv, NEW r \in Requests, NEW q \in Request, RequestOK(q)',
         req' = [req EXCEPT ![r] = q], q.login \in {req[r].login, None},
         UNCHANGED <<tx, session>>, identity \subseteq identity', owner \subseteq owner',
         identity' \subseteq Subjects, owner' \subseteq Subjects,
         code' \in [Codes -> Code \cup {None}], Authorised \subseteq Authorised'
  PROVE  IInv'
  <1>1. /\ req' \in [Requests -> Request]
        /\ \A s \in Requests : req'[s] = IF s = r THEN q ELSE req[s]
    BY DEF IInv, TypeOK
  <1>2. TypeOK'
    BY <1>1 DEF IInv, TypeOK
  <1>3. RequestInv'
    <2> SUFFICES ASSUME NEW s \in Requests PROVE RequestOK(req[s])'
      BY DEF RequestInv
    <2>1. CASE s = r
      BY <1>1, <2>1 DEF RequestOK
    <2>2. CASE s # r
      <3>1. req'[s] = req[s] /\ RequestOK(req[s])
        BY <1>1, <2>2 DEF IInv, RequestInv
      <3> QED
        BY <3>1 DEF RequestOK, Idle
    <2> QED
      BY <2>1, <2>2
  <1>4. LoginInv'
    <2>1. \A s \in Requests : req'[s].login \in {req[s].login, None}
      BY <1>1
    <2>2. \A s, t \in Requests :
            req'[s].login # None /\ req'[s].login = req'[t].login => s = t
      BY <2>1 DEF IInv, LoginInv
    <2>3. \A s \in Requests, id \in Sessions :
            session[id] # None => req'[s].login # session[id].login
      BY <2>1, SessionLogin DEF IInv, LoginInv
    <2> QED
      BY <2>2, <2>3 DEF IInv, LoginInv
  <1>5. SessionIsProvisioned'
    BY DEF IInv, SessionIsProvisioned
  <1> QED
    BY <1>2, <1>3, <1>4, <1>5 DEF IInv

\* A request that is answered.
LEMMA AnswerStep ==
  ASSUME IInv, NEW r \in Requests, Answer(r),
         UNCHANGED <<tx, code, identity, session>>, owner \subseteq owner',
         owner' \subseteq Subjects
  PROVE  IInv'
  <1>1. RequestOK(Idle)' /\ Idle.login = None
    BY DEF RequestOK, Idle
  <1>2. Authorised' = Authorised
    BY DEF Authorised
  <1>3. req' = [req EXCEPT ![r] = Idle]
    BY DEF Answer
  <1> QED
    BY <1>1, <1>2, <1>3, IdleOK, RequestStep DEF IInv, TypeOK

-----------------------------------------------------------------------------
LEMMA ReceiveCallbackStep ==
  ASSUME IInv, NEW r \in Requests, ReceiveCallback(r)
  PROVE  IInv'
  <1>1. PICK c \in Codes, l \in Logins :
          /\ code[c] # None /\ tx[l] # "unused"
          /\ tx' = TakeTransaction(l)
          /\ req' = IF tx[l] = "open"
                      THEN [req EXCEPT ![r] = [Idle EXCEPT !.pc = "exchange",
                                                           !.login = l, !.code = c]]
                      ELSE req
    BY DEF ReceiveCallback
  <1>2. req[r].pc = "idle" /\ UNCHANGED <<code, identity, owner, session>>
    BY DEF ReceiveCallback
  <1>3. /\ tx' \in [Logins -> TxStates]
        /\ \A k \in Logins : tx[k] = "gone" => tx'[k] = "gone"
        /\ tx[l] = "open" => tx'[l] = "gone"
    BY <1>1 DEF TakeTransaction, Retained, IInv, TypeOK, TxStates
  <1>4. Authorised' = Authorised
    BY <1>2 DEF Authorised
  <1> DEFINE q == [Idle EXCEPT !.pc = "exchange", !.login = l, !.code = c]
  <1>5. CASE tx[l] # "open"
    <2>1. req' = req
      BY <1>1, <1>5
    <2>2. RequestInv'
      <3> SUFFICES ASSUME NEW s \in Requests PROVE RequestOK(req[s])'
        BY DEF RequestInv
      <3>1. RequestOK(req[s]) /\ req[s] \in Request
        BY DEF IInv, RequestInv, TypeOK
      <3>2. req[s].login # None => req[s].login \in Logins
        BY <3>1 DEF Request
      <3> QED
        BY <1>2, <1>3, <1>4, <2>1, <3>1, <3>2 DEF RequestOK
    <2>3. LoginInv'
      BY <1>2, <1>3, <2>1, SessionLogin DEF IInv, LoginInv
    <2> QED
      BY <1>2, <1>3, <2>1, <2>2, <2>3 DEF IInv, TypeOK, SessionIsProvisioned
  <1>6. CASE tx[l] = "open"
    <2>1. q \in Request
      BY DEF Request, Idle
    <2>2. req' = [req EXCEPT ![r] = q]
      BY <1>1, <1>6
    <2>3. q.pc = "exchange" /\ q.login = l /\ q.code = c
      BY DEF Idle
    <2> HIDE DEF q
    <2>5. \A s \in Requests : req'[s] = IF s = r THEN q ELSE req[s]
      BY <2>2 DEF IInv, TypeOK
    <2>6. \A s \in Requests : req[s].pc # "idle" /\ req[s].login = l => FALSE
      <3>1. l # None
        BY NoneApart
      <3> QED
        BY <1>6, <3>1 DEF IInv, RequestInv, RequestOK
    <2>7. \A s \in Requests : req[s].login # l
      <3>1. \A s \in Requests : req[s].pc = "idle" => req[s] = Idle
        BY DEF IInv, RequestInv, RequestOK
      <3>2. Idle.login = None
        BY DEF Idle
      <3> QED
        BY <2>6, <3>1, <3>2, NoneApart
    <2>8. \A id \in Sessions : session[id] # None => session[id].login # l
      BY <1>6 DEF IInv, LoginInv
    <2>9. TypeOK'
      <3>1. req' \in [Requests -> Request]
        BY <2>1, <2>2 DEF IInv, TypeOK
      <3> QED
        BY <1>2, <1>3, <3>1 DEF IInv, TypeOK
    <2>10. RequestInv'
      <3> SUFFICES ASSUME NEW s \in Requests PROVE RequestOK(req[s])'
        BY DEF RequestInv
      <3>1. CASE s = r
        <4>1. req'[s] = q
          BY <2>5, <3>1
        <4>2. l # None /\ c # None
          BY NoneApart
        <4> QED
          BY <1>3, <1>6, <2>3, <4>1, <4>2 DEF RequestOK
      <3>2. CASE s # r
        <4>1. req'[s] = req[s] /\ RequestOK(req[s]) /\ req[s] \in Request
          BY <2>5, <3>2 DEF IInv, RequestInv, TypeOK
        <4>2. req[s].login # None => req[s].login \in Logins
          BY <4>1 DEF Request
        <4> QED
          BY <1>2, <1>3, <1>4, <4>1, <4>2 DEF RequestOK
      <3> QED
        BY <3>1, <3>2
    <2>11. LoginInv'
      <3>1. \A s \in Requests : req'[s].login = IF s = r THEN l ELSE req[s].login
        BY <2>3, <2>5
      <3>2. \A s, t \in Requests :
              req'[s].login # None /\ req'[s].login = req'[t].login => s = t
        BY <2>7, <3>1 DEF IInv, LoginInv
      <3>3. \A s \in Requests, id \in Sessions :
              session[id] # None => req'[s].login # session[id].login
        BY <2>8, <3>1 DEF IInv, LoginInv
      <3>4. \A id \in Sessions : session[id] # None => tx'[session[id].login] = "gone"
        BY <1>3, SessionLogin DEF IInv, LoginInv
      <3> QED
        BY <1>2, <3>2, <3>3, <3>4 DEF LoginInv
    <2> QED
      BY <1>2, <2>9, <2>10, <2>11 DEF IInv, SessionIsProvisioned
  <1> QED
    BY <1>5, <1>6

LEMMA ExchangeCodeStep ==
  ASSUME IInv, NEW r \in Requests, ExchangeCode(r)
  PROVE  IInv'
  <1> DEFINE c == req[r].code  l == req[r].login
  <1>1. req[r].pc = "exchange" /\ UNCHANGED <<tx, identity, owner, session>>
    BY DEF ExchangeCode
  <1>2. CASE ~Redeemable(c, l)
    <2>1. Answer(r) /\ UNCHANGED code
      BY <1>2 DEF ExchangeCode
    <2> QED
      BY <1>1, <2>1, AnswerStep DEF IInv, TypeOK
  <1>3. CASE Redeemable(c, l)
    <2>1. /\ code' = [code EXCEPT ![c].used = TRUE]
          /\ req' = [req EXCEPT ![r].pc = "identity", ![r].subject = code[c].subject]
      BY <1>3 DEF ExchangeCode
    <2>2. req[r] \in Request /\ RequestOK(req[r])
      BY DEF IInv, TypeOK, RequestInv
    <2>3. c \in Codes /\ l \in Logins /\ l # None /\ tx[l] = "gone"
      BY <1>1, <2>2, NoneApart DEF RequestOK, Request
    <2>4. code[c] \in Code /\ code[c] # None /\ code[c].login = l
      BY <1>3, <2>3 DEF Redeemable, IInv, TypeOK
    <2>5. code[c].subject \in Subjects /\ code[c].subject # None
      BY <2>4, NoneApart DEF Code
    <2> DEFINE d == [code[c] EXCEPT !.used = TRUE]
    <2>6. PICK q \in Request :
            q = [req[r] EXCEPT !.pc = "identity", !.subject = code[c].subject]
      BY <2>2, <2>5 DEF Request
    <2>7. d \in Code /\ d # None /\ d.login = code[c].login /\ d.subject = code[c].subject
      BY <2>4, NoneApart DEF Code
    <2>8. q.pc = "identity" /\ q.login = l /\ q.subject = code[c].subject
      BY <2>2, <2>6 DEF Request
    <2>9. code' = [code EXCEPT ![c] = d] /\ req' = [req EXCEPT ![r] = q]
      BY <2>1, <2>2, <2>3, <2>4, <2>6 DEF IInv, TypeOK
    <2> HIDE DEF d
    <2>10. /\ code' \in [Codes -> Code \cup {None}]
          /\ \A k \in Codes : code'[k] = IF k = c THEN d ELSE code[k]
      BY <2>3, <2>7, <2>9 DEF IInv, TypeOK
    <2>11. Authorised \subseteq Authorised'
      BY <2>3, <2>4, <2>7, <2>10 DEF Authorised
    <2>12. <<l, code[c].subject>> \in Authorised'
      BY <2>3, <2>4, <2>11 DEF Authorised
    <2>13. RequestOK(q)'
      <3>1. q.login # None /\ q.subject # None /\ tx'[q.login] = "gone"
              /\ <<q.login, q.subject>> \in Authorised'
        BY <1>1, <2>3, <2>5, <2>8, <2>12
      <3> QED
        BY <2>8, <3>1 DEF RequestOK
    <2> QED
      BY <1>1, <2>8, <2>9, <2>10, <2>11, <2>13, RequestStep DEF IInv, TypeOK
  <1> QED
    BY <1>2, <1>3

\* A request that only moves to its next call.
LEMMA MoveStep ==
  ASSUME IInv, NEW r \in Requests,
         NEW pc \in {"check_owner", "write_owner", "session"},
         req[r].pc \in {"identity", "check_owner", "write_owner"},
         req' = [req EXCEPT ![r].pc = pc],
         UNCHANGED <<tx, code, session>>,
         identity \subseteq identity', owner \subseteq owner',
         identity' \subseteq Subjects, owner' \subseteq Subjects,
         req[r].subject \in identity',
         pc = "session" => req[r].subject \in owner',
         req[r].login # None
  PROVE  IInv'
  <1>1. req[r] \in Request /\ RequestOK(req[r])
    BY DEF IInv, TypeOK, RequestInv
  <1>2. PICK q \in Request : q = [req[r] EXCEPT !.pc = pc]
    BY <1>1 DEF Request
  <1>3. q.pc = pc /\ q.login = req[r].login /\ q.subject = req[r].subject
    BY <1>1, <1>2 DEF Request
  <1>4. req' = [req EXCEPT ![r] = q]
    BY <1>2 DEF IInv, TypeOK
  <1>5. Authorised' = Authorised
    BY DEF Authorised
  <1>6. RequestOK(q)'
    BY <1>1, <1>3, <1>5 DEF RequestOK
  <1> QED
    BY <1>3, <1>4, <1>5, <1>6, RequestStep DEF IInv, TypeOK

LEMMA UpsertIdentityStep ==
  ASSUME IInv, NEW r \in Requests, UpsertIdentity(r)
  PROVE  IInv'
  <1>1. req[r] \in Request /\ RequestOK(req[r])
    BY DEF IInv, TypeOK, RequestInv
  <1>2. req[r].subject \in Subjects /\ req[r].login # None
    BY <1>1 DEF UpsertIdentity, Request, RequestOK
  <1> QED
    BY <1>2, MoveStep DEF UpsertIdentity, IInv, TypeOK

LEMMA CheckOwnerStep ==
  ASSUME IInv, NEW r \in Requests, CheckOwner(r)
  PROVE  IInv'
  <1>1. req[r] \in Request /\ RequestOK(req[r])
    BY DEF IInv, TypeOK, RequestInv
  <1>2. /\ req[r].pc = "check_owner" /\ req[r].subject \in identity
        /\ req[r].login = None => req[r].subject \in owner
        /\ UNCHANGED <<tx, code, identity, owner, session>>
    BY <1>1 DEF CheckOwner, RequestOK
  <1>3. CASE req[r].login = None
    <2>1. Answer(r)
      BY <1>2, <1>3 DEF CheckOwner, AfterOwner
    <2> QED
      BY <1>2, <2>1, AnswerStep DEF IInv, TypeOK
  <1>4. CASE req[r].login # None
    <2>1. \/ req[r].subject \in owner /\ req' = [req EXCEPT ![r].pc = "session"]
          \/ req' = [req EXCEPT ![r].pc = "write_owner"]
      BY <1>4 DEF CheckOwner, AfterOwner
    <2>2. CASE req[r].subject \in owner /\ req' = [req EXCEPT ![r].pc = "session"]
      BY <1>2, <1>4, <2>2, MoveStep DEF IInv, TypeOK
    <2>3. CASE req' = [req EXCEPT ![r].pc = "write_owner"]
      BY <1>2, <1>4, <2>3, MoveStep DEF IInv, TypeOK
    <2> QED
      BY <2>1, <2>2, <2>3
  <1> QED
    BY <1>3, <1>4

LEMMA WriteOwnerStep ==
  ASSUME IInv, NEW r \in Requests, WriteOwner(r)
  PROVE  IInv'
  <1>1. req[r] \in Request /\ RequestOK(req[r])
    BY DEF IInv, TypeOK, RequestInv
  <1>2. /\ req[r].pc = "write_owner" /\ req[r].subject \in identity
        /\ req[r].login # None /\ req[r].subject \in Subjects
        /\ UNCHANGED <<tx, code, identity, session>>
        /\ owner' = owner \cup {req[r].subject}
    BY <1>1 DEF WriteOwner, RequestOK, Request
  <1>3. owner \subseteq owner' /\ owner' \subseteq Subjects
    BY <1>2 DEF IInv, TypeOK
  <1>4. CASE Answer(r)
    BY <1>2, <1>3, <1>4, AnswerStep
  <1>5. CASE req' = [req EXCEPT ![r].pc = "session"]
    BY <1>2, <1>3, <1>5, MoveStep DEF IInv, TypeOK
  <1> QED
    BY <1>2, <1>4, <1>5 DEF WriteOwner, AfterOwner

LEMMA CreateSessionStep ==
  ASSUME IInv, NEW r \in Requests, CreateSession(r)
  PROVE  IInv'
  <1> DEFINE l == req[r].login  u == req[r].subject
             row == [login |-> l, subject |-> u, state |-> "active"]
  <1>1. req[r] \in Request /\ RequestOK(req[r])
    BY DEF IInv, TypeOK, RequestInv
  <1>2. /\ req[r].pc = "session" /\ u \in identity /\ u \in owner
        /\ l \in Logins /\ l # None /\ u \in Subjects /\ tx[l] = "gone"
        /\ UNCHANGED <<tx, code, identity, owner>>
    BY <1>1 DEF CreateSession, RequestOK, Request
  <1>3. PICK id \in Sessions : /\ session[id] = None
                               /\ session' = [session EXCEPT ![id] = row]
    BY DEF CreateSession
  <1>4. row \in Session /\ row # None /\ row.login = l /\ row.subject = u
    BY <1>2, NoneApart DEF Session
  <1> HIDE DEF row
  <1>5. \A i \in Sessions : session'[i] = IF i = id THEN row ELSE session[i]
    BY <1>3 DEF IInv, TypeOK
  <1>6. /\ req' = [req EXCEPT ![r] = Idle]
        /\ \A s \in Requests : req'[s] = IF s = r THEN Idle ELSE req[s]
    BY DEF CreateSession, Answer, IInv, TypeOK
  <1>7. TypeOK'
    <2>1. session' \in [Sessions -> Session \cup {None}]
      BY <1>3, <1>4 DEF IInv, TypeOK
    <2>2. req' \in [Requests -> Request]
      BY <1>6, IdleOK DEF IInv, TypeOK
    <2> QED
      BY <1>2, <2>1, <2>2 DEF IInv, TypeOK
  <1>8. RequestInv'
    <2>1. Authorised' = Authorised
      BY <1>2 DEF Authorised
    <2>2. ASSUME NEW s \in Requests PROVE RequestOK(req[s])'
      <3>1. RequestOK(req'[s])
        BY <1>6, IdleOK DEF IInv, RequestInv
      <3> QED
        BY <1>2, <2>1, <3>1 DEF RequestOK, Idle
    <2> QED
      BY <2>2 DEF RequestInv
  <1>9. LoginInv'
    <2>1. Idle.login = None
      BY DEF Idle
    <2>2. \A s, t \in Requests :
            req'[s].login # None /\ req'[s].login = req'[t].login => s = t
      BY <1>6, <2>1 DEF IInv, LoginInv
    <2>3. \A s \in Requests : req'[s].login # l
      BY <1>2, <1>6, <2>1 DEF IInv, LoginInv
    <2>4. \A s \in Requests, i \in Sessions :
            session'[i] # None => req'[s].login # session'[i].login
      <3> SUFFICES ASSUME NEW s \in Requests, NEW i \in Sessions, session'[i] # None
                   PROVE  req'[s].login # session'[i].login
        OBVIOUS
      <3>1. CASE i = id
        BY <1>4, <1>5, <2>3, <3>1
      <3>2. CASE i # id
        <4>1. session'[i] = session[i] /\ session[i].login # None
          BY <1>5, <3>2, SessionLogin DEF IInv
        <4> QED
          BY <1>6, <2>1, <4>1 DEF IInv, LoginInv
      <3> QED
        BY <3>1, <3>2
    <2>5. \A i \in Sessions : session'[i] # None => tx'[session'[i].login] = "gone"
      BY <1>2, <1>4, <1>5 DEF IInv, LoginInv
    <2> QED
      BY <2>2, <2>4, <2>5 DEF LoginInv
  <1>10. SessionIsProvisioned'
    BY <1>2, <1>4, <1>5 DEF IInv, SessionIsProvisioned
  <1> QED
    BY <1>7, <1>8, <1>9, <1>10 DEF IInv

LEMMA ReceiveBootstrapStep ==
  ASSUME IInv, NEW r \in Requests, ReceiveBootstrap(r)
  PROVE  IInv'
  <1>1. PICK id \in Sessions :
          /\ Active(id)
          /\ req' = [req EXCEPT ![r] = [Idle EXCEPT !.pc = "check_owner",
                                                    !.subject = session[id].subject]]
    BY DEF ReceiveBootstrap
  <1>2. UNCHANGED <<tx, code, identity, owner, session>>
    BY DEF ReceiveBootstrap
  <1> DEFINE u == session[id].subject
  <1>3. session[id] # None /\ u \in Subjects /\ u # None /\ u \in identity /\ u \in owner
    <2>1. session[id] \in Session
      BY <1>1 DEF Active, IInv, TypeOK
    <2> QED
      BY <1>1, <2>1, NoneApart DEF Active, Session, IInv, SessionIsProvisioned
  <1>4. PICK q \in Request : q = [Idle EXCEPT !.pc = "check_owner", !.subject = u]
    BY <1>3 DEF Idle, Request
  <1>5. q.pc = "check_owner" /\ q.login = None /\ q.subject = u
    BY <1>4 DEF Idle
  <1>6. Authorised' = Authorised
    BY <1>2 DEF Authorised
  <1>7. RequestOK(q)'
    BY <1>2, <1>3, <1>5 DEF RequestOK
  <1>8. req' = [req EXCEPT ![r] = q]
    BY <1>1, <1>4
  <1> QED
    BY <1>2, <1>5, <1>6, <1>7, <1>8, RequestStep DEF IInv, TypeOK

\* Everything but the transactions and the sessions stays, and what they say of
\* a login that is over does too.
LEMMA OutsideStep ==
  ASSUME IInv, UNCHANGED <<identity, owner, req>>,
         code' \in [Codes -> Code \cup {None}], Authorised \subseteq Authorised',
         tx' \in [Logins -> TxStates],
         \A l \in Logins : tx[l] = "gone" => tx'[l] = "gone",
         session' \in [Sessions -> Session \cup {None}],
         \A id \in Sessions :
           session'[id] # None =>
             /\ session[id] # None
             /\ session'[id].login = session[id].login
             /\ session'[id].subject = session[id].subject
  PROVE  IInv'
  <1>1. TypeOK'
    BY DEF IInv, TypeOK
  <1>2. RequestInv'
    <2> SUFFICES ASSUME NEW r \in Requests PROVE RequestOK(req[r])'
      BY DEF RequestInv
    <2>1. RequestOK(req[r]) /\ req[r] \in Request
      BY DEF IInv, RequestInv, TypeOK
    <2>2. req[r].login # None => req[r].login \in Logins
      BY <2>1 DEF Request
    <2> QED
      BY <2>1, <2>2 DEF RequestOK
  <1>3. LoginInv'
    BY SessionLogin DEF IInv, LoginInv
  <1>4. SessionIsProvisioned'
    BY DEF IInv, SessionIsProvisioned
  <1> QED
    BY <1>1, <1>2, <1>3, <1>4 DEF IInv

LEMMA TransactionStep ==
  ASSUME IInv, NEW l \in Logins, OidcStart(l) \/ TransactionExpires(l)
  PROVE  IInv'
  <1>1. /\ tx' \in [Logins -> TxStates]
        /\ \A k \in Logins : tx[k] = "gone" => tx'[k] = "gone"
    BY DEF OidcStart, TransactionExpires, Retained, IInv, TypeOK, TxStates
  <1>2. UNCHANGED <<code, identity, owner, session, req>>
    BY DEF OidcStart, TransactionExpires
  <1>3. Authorised' = Authorised
    BY <1>2 DEF Authorised
  <1> QED
    BY <1>1, <1>2, <1>3, OutsideStep DEF IInv, TypeOK

LEMMA AuthorizeStep ==
  ASSUME IInv, NEW c \in Codes, NEW l \in Logins, NEW s \in Subjects, Authorize(c, l, s)
  PROVE  IInv'
  <1> DEFINE d == [login |-> l, subject |-> s, used |-> FALSE]
  <1>1. /\ code[c] = None /\ code' = [code EXCEPT ![c] = d]
        /\ UNCHANGED <<tx, identity, owner, session, req>>
    BY DEF Authorize
  <1>2. d \in Code
    BY DEF Code
  <1> HIDE DEF d
  <1>3. /\ code' \in [Codes -> Code \cup {None}]
        /\ \A k \in Codes : code[k] # None => code'[k] = code[k]
    BY <1>1, <1>2 DEF IInv, TypeOK
  <1>4. Authorised \subseteq Authorised'
    BY <1>3 DEF Authorised
  <1> QED
    BY <1>1, <1>3, <1>4, OutsideStep DEF IInv, TypeOK

LEMMA EndSessionStep ==
  ASSUME IInv, NEW id \in Sessions, EndSession(id)
  PROVE  IInv'
  <1> DEFINE row == [session[id] EXCEPT !.state = "ended"]
  <1>1. /\ session[id] # None /\ session' = [session EXCEPT ![id] = row]
        /\ UNCHANGED <<tx, code, identity, owner, req>>
    BY DEF EndSession, Active, IInv, TypeOK
  <1>2. session[id] \in Session
    BY <1>1, SessionLogin DEF IInv
  <1>3. /\ row \in Session /\ row.login = session[id].login
        /\ row.subject = session[id].subject
    BY <1>2 DEF Session
  <1> HIDE DEF row
  <1>4. /\ session' \in [Sessions -> Session \cup {None}]
        /\ \A i \in Sessions : session'[i] = IF i = id THEN row ELSE session[i]
    BY <1>1, <1>3 DEF IInv, TypeOK
  <1>5. Authorised' = Authorised
    BY <1>1 DEF Authorised
  <1> QED
    BY <1>1, <1>3, <1>4, <1>5, OutsideStep DEF IInv, TypeOK

LEMMA RestartStep == ASSUME IInv, Restart PROVE IInv'
  <1>1. /\ tx' \in [Logins -> TxStates]
        /\ \A l \in Logins : tx[l] = "gone" => tx'[l] = "gone"
    BY DEF Restart, IInv, TypeOK, TxStates
  <1>2. UNCHANGED <<code, identity, owner, session>>
    BY DEF Restart
  <1>3. req' \in [Requests -> Request] /\ \A r \in Requests : req'[r] = Idle
    BY IdleOK DEF Restart
  <1>4. RequestInv'
    BY <1>3 DEF RequestInv, RequestOK, Idle
  <1>5. LoginInv'
    BY <1>1, <1>2, <1>3, SessionLogin, NoneApart DEF IInv, LoginInv, Idle
  <1> QED
    BY <1>1, <1>2, <1>3, <1>4, <1>5 DEF IInv, TypeOK, SessionIsProvisioned

LEMMA IInvStep == IInv /\ [Next]_vars => IInv'
  <1> SUFFICES ASSUME IInv, [Next]_vars PROVE IInv'
    OBVIOUS
  <1>1. CASE \E l \in Logins : OidcStart(l) \/ TransactionExpires(l)
    BY <1>1, TransactionStep
  <1>2. CASE \E c \in Codes, l \in Logins, s \in Subjects : Authorize(c, l, s)
    BY <1>2, AuthorizeStep
  <1>3. ASSUME NEW r \in Requests,
               \/ ReceiveCallback(r) \/ ExchangeCode(r) \/ UpsertIdentity(r)
               \/ CheckOwner(r) \/ WriteOwner(r) \/ CreateSession(r)
               \/ ReceiveBootstrap(r)
        PROVE  IInv'
    BY <1>3, ReceiveCallbackStep, ExchangeCodeStep, UpsertIdentityStep, CheckOwnerStep,
       WriteOwnerStep, CreateSessionStep, ReceiveBootstrapStep
  <1>4. ASSUME NEW r \in Requests, Fail(r) PROVE IInv'
    BY <1>4, AnswerStep DEF Fail, IInv, TypeOK
  <1>5. CASE \E id \in Sessions : EndSession(id)
    BY <1>5, EndSessionStep
  <1>6. CASE Restart
    BY <1>6, RestartStep
  <1>7. CASE UNCHANGED vars
    <2>1. UNCHANGED <<tx, code, identity, owner, session, req>>
      BY <1>7 DEF vars
    <2>2. Authorised' = Authorised
      BY <2>1 DEF Authorised
    <2> QED
      BY <2>1, <2>2, OutsideStep DEF IInv, TypeOK
  <1> QED
    BY <1>1, <1>2, <1>3, <1>4, <1>5, <1>6, <1>7 DEF Next

LEMMA InductiveInvariant == Spec => []IInv
  BY InitIInv, IInvStep, PTL DEF Spec
-----------------------------------------------------------------------------
\* Transactions, codes, tables and requests keep their types.
THEOREM TypeCorrect == Spec => []TypeOK
  <1>1. IInv => TypeOK
    BY DEF IInv
  <1> QED
    BY <1>1, InductiveInvariant, PTL

\* No session without its identity and the tuple that says who owns it.
THEOREM Provisioned == Spec => []SessionIsProvisioned
  <1>1. IInv => SessionIsProvisioned
    BY DEF IInv
  <1> QED
    BY <1>1, InductiveInvariant, PTL

\* The bootstrap of a user with a session never has a tuple to write.
THEOREM BootstrapIdle == Spec => []BootstrapFindsOwner
  <1>1. IInv => BootstrapFindsOwner
    BY DEF IInv, RequestInv, RequestOK, BootstrapFindsOwner
  <1> QED
    BY <1>1, InductiveInvariant, PTL
-----------------------------------------------------------------------------
\* The steps the abstract login does not see.
LEMMA Unseen ==
  ASSUME Authorised' = Authorised, UNCHANGED session
  PROVE  UNCHANGED Promise!vars
  BY DEF Authorised, Promise!vars

LEMMA AuthorizeAuthorises ==
  ASSUME IInv, NEW c \in Codes, NEW l \in Logins, NEW s \in Subjects, Authorize(c, l, s)
  PROVE  Promise!Authorise(l, s)
  <1> DEFINE d == [login |-> l, subject |-> s, used |-> FALSE]
  <1>1. code[c] = None /\ code' = [code EXCEPT ![c] = d] /\ UNCHANGED session
    BY DEF Authorize
  <1>2. d # None /\ d.login = l /\ d.subject = s
    <2>1. d \in Code
      BY DEF Code
    <2> QED
      BY <2>1, NoneApart
  <1> HIDE DEF d
  <1>3. \A k \in Codes : code'[k] = IF k = c THEN d ELSE code[k]
    BY <1>1 DEF IInv, TypeOK
  <1>4. Authorised' = Authorised \cup {<<l, s>>}
    BY <1>1, <1>2, <1>3 DEF Authorised
  <1> QED
    BY <1>1, <1>4 DEF Authorised, Promise!Authorise

\* Redeeming a code takes nothing back.
LEMMA ExchangeCodeUnseen ==
  ASSUME IInv, NEW r \in Requests, ExchangeCode(r)
  PROVE  UNCHANGED Promise!vars
  <1> DEFINE c == req[r].code
             d == [code[c] EXCEPT !.used = TRUE]
  <1>1. UNCHANGED session
    BY DEF ExchangeCode
  <1>2. CASE UNCHANGED code
    BY <1>1, <1>2, Unseen DEF Authorised
  <1>3. CASE Redeemable(c, req[r].login) /\ code' = [code EXCEPT ![c].used = TRUE]
    <2>1. c \in Codes
      BY NoneApart DEF ExchangeCode, IInv, TypeOK, RequestInv, RequestOK, Request
    <2>2. code[c] \in Code /\ code[c] # None
      BY <1>3, <2>1 DEF Redeemable, IInv, TypeOK
    <2>3. d \in Code /\ d # None /\ d.login = code[c].login /\ d.subject = code[c].subject
      BY <2>2, NoneApart DEF Code
    <2>4. code' = [code EXCEPT ![c] = d]
      BY <1>3, <2>1 DEF IInv, TypeOK
    <2> HIDE DEF d
    <2>5. \A k \in Codes : code'[k] = IF k = c THEN d ELSE code[k]
      BY <2>4 DEF IInv, TypeOK
    <2>6. \A k \in Codes :
            /\ code'[k] # None <=> code[k] # None
            /\ code[k] # None => /\ code'[k].login = code[k].login
                                 /\ code'[k].subject = code[k].subject
      BY <2>2, <2>3, <2>5
    <2>7. Authorised' = Authorised
      BY <2>6 DEF Authorised
    <2> QED
      BY <1>1, <2>7, Unseen
  <1> QED
    BY <1>2, <1>3 DEF ExchangeCode

LEMMA CreateSessionOpens ==
  ASSUME IInv, NEW r \in Requests, CreateSession(r)
  PROVE  \E id \in Sessions, l \in Logins, s \in Subjects : Promise!Open(id, l, s)
  <1> DEFINE l == req[r].login  u == req[r].subject
  <1>1. req[r] \in Request /\ RequestOK(req[r]) /\ req[r].pc = "session"
    BY DEF CreateSession, IInv, TypeOK, RequestInv
  <1>2. l \in Logins /\ u \in Subjects /\ <<l, u>> \in Authorised
    BY <1>1 DEF RequestOK, Request
  <1>3. PICK id \in Sessions :
          /\ session[id] = None
          /\ session' = [session EXCEPT ![id] =
               [login |-> l, subject |-> u, state |-> "active"]]
    BY DEF CreateSession
  <1>4. Authorised' = Authorised
    BY DEF CreateSession, Authorised
  <1>5. \A other \in Sessions : session[other] # None => session[other].login # l
    BY DEF IInv, LoginInv
  <1>6. Promise!Open(id, l, u)
    BY <1>2, <1>3, <1>4, <1>5 DEF Promise!Open, Authorised
  <1> QED
    BY <1>2, <1>6

LEMMA SignInStep == IInv /\ [Next]_vars => [Promise!Next]_(Promise!vars)
  <1> SUFFICES ASSUME IInv, [Next]_vars
               PROVE  Promise!Next \/ UNCHANGED Promise!vars
    OBVIOUS
  <1>1. CASE \E c \in Codes, l \in Logins, s \in Subjects : Authorize(c, l, s)
    BY <1>1, AuthorizeAuthorises DEF Promise!Next
  <1>2. ASSUME NEW r \in Requests, CreateSession(r) PROVE Promise!Next
    BY <1>2, CreateSessionOpens DEF Promise!Next
  <1>3. ASSUME NEW id \in Sessions, EndSession(id) PROVE Promise!Next
    <2>1. UNCHANGED code
      BY <1>3 DEF EndSession
    <2>2. Promise!End(id)
      BY <1>3, <2>1 DEF EndSession, Active, Promise!End
    <2> QED
      BY <2>2 DEF Promise!Next
  <1>4. ASSUME NEW r \in Requests, ExchangeCode(r) PROVE UNCHANGED Promise!vars
    BY <1>4, ExchangeCodeUnseen
  <1>5. CASE UNCHANGED <<code, session>>
    BY <1>5, Unseen DEF Authorised
  <1>6. \/ \E c \in Codes, l \in Logins, s \in Subjects : Authorize(c, l, s)
        \/ \E r \in Requests : CreateSession(r) \/ ExchangeCode(r)
        \/ \E id \in Sessions : EndSession(id)
        \/ UNCHANGED <<code, session>>
    BY DEF Next, vars, OidcStart, TransactionExpires, ReceiveCallback, UpsertIdentity,
           CheckOwner, WriteOwner, ReceiveBootstrap, Fail, Restart
  <1> QED
    BY <1>1, <1>2, <1>3, <1>4, <1>5, <1>6

\* Whatever is repeated, mixed up, lost or half done, the login does what the
\* abstract one does.
THEOREM Implements == Spec => ImplementsSignIn
  <1>1. Init => Promise!Init
    BY DEF Init, Promise!Init
  <1> QED
    BY <1>1, InductiveInvariant, SignInStep, PTL DEF Spec, ImplementsSignIn, Promise!Spec
-----------------------------------------------------------------------------
(* What the abstract login promises carries over to the program. *)

\* A session is for a subject who authorised its login, and is the only one of
\* that login.
SessionsOK ==
  /\ \A id \in Sessions : session[id] # None =>
       <<session[id].login, session[id].subject>> \in Authorised
  /\ \A id, other \in Sessions :
       session[id] # None /\ session[other] # None
         /\ session[id].login = session[other].login => id = other

\* A step opens a session or ends one; whom it is for is never rewritten, and
\* what has ended is not opened again.
SessionsLive ==
  \A id \in Sessions : session[id] # None =>
    session'[id] \in {session[id], [session[id] EXCEPT !.state = "ended"]}

LEMMA EndKeepsLogin ==
  ASSUME NEW s \in Session
  PROVE  LET e == [s EXCEPT !.state = "ended"] IN
         e \in Session /\ e # None /\ e.login = s.login /\ e.subject = s.subject
  BY NoneApart DEF Session

LEMMA PromiseStep ==
  ASSUME TypeOK, [Promise!Next]_(Promise!vars)
  PROVE  SessionsLive /\ (SessionsOK => SessionsOK')
  <1>1. CASE UNCHANGED Promise!vars
    BY <1>1 DEF Promise!vars, SessionsLive, SessionsOK, Authorised
  <1>2. ASSUME NEW l \in Logins, NEW s \in Subjects, Promise!Authorise(l, s)
        PROVE  SessionsLive /\ (SessionsOK => SessionsOK')
    <2>1. session' = session /\ Authorised \subseteq Authorised'
      BY <1>2 DEF Promise!Authorise, Authorised
    <2> QED
      BY <2>1 DEF SessionsLive, SessionsOK
  <1>3. ASSUME NEW id \in Sessions, NEW l \in Logins, NEW s \in Subjects,
               Promise!Open(id, l, s)
        PROVE  SessionsLive /\ (SessionsOK => SessionsOK')
    <2> DEFINE new == [login |-> l, subject |-> s, state |-> "active"]
    <2>1. /\ session[id] = None /\ <<l, s>> \in Authorised
          /\ Authorised' = Authorised
          /\ \A other \in Sessions :
               session[other] # None => session[other].login # l
          /\ session' = [session EXCEPT ![id] = new]
      BY <1>3 DEF Promise!Open, Authorised
    <2>2. new.login = l /\ new.subject = s
      OBVIOUS
    <2> HIDE DEF new
    <2>3. \A other \in Sessions :
            session'[other] = IF other = id THEN new ELSE session[other]
      BY <2>1 DEF TypeOK
    <2> QED
      BY <2>1, <2>2, <2>3 DEF SessionsLive, SessionsOK
  <1>4. ASSUME NEW id \in Sessions, Promise!End(id)
        PROVE  SessionsLive /\ (SessionsOK => SessionsOK')
    <2> DEFINE e == [session[id] EXCEPT !.state = "ended"]
    <2>1. /\ session[id] \in Session /\ session[id] # None
          /\ Authorised' = Authorised
          /\ session' = [session EXCEPT ![id] = e]
      BY <1>4 DEF Promise!End, Authorised, TypeOK
    <2>2. /\ e.login = session[id].login /\ e.subject = session[id].subject
          /\ e # None
      BY <2>1, EndKeepsLogin
    <2>3. \A other \in Sessions :
            session'[other] = IF other = id THEN e ELSE session[other]
      BY <2>1 DEF TypeOK
    <2>4. SessionsLive
      BY <2>3 DEF SessionsLive
    <2> HIDE DEF e
    <2>5. SessionsOK => SessionsOK'
      BY <2>1, <2>2, <2>3 DEF SessionsOK
    <2> QED
      BY <2>4, <2>5
  <1> QED
    BY <1>1, <1>2, <1>3, <1>4 DEF Promise!Next

\* A login opens one session at most, for a subject who authorised it, through
\* repeated and mixed up callbacks, failures and restarts.
THEOREM OneSessionPerLogin == Spec => []SessionsOK
  <1>1. Init => SessionsOK
    BY DEF Init, SessionsOK
  <1>2. IInv /\ SessionsOK /\ [Next]_vars => SessionsOK'
    BY SignInStep, PromiseStep DEF IInv
  <1> QED
    BY <1>1, <1>2, InitIInv, IInvStep, PTL DEF Spec

\* A session is never given to another user or login and never comes back
\* once it has ended.
THEOREM SessionsOnlyEnd ==
  Spec => [][\A id \in Sessions : session[id] # None =>
               session'[id] \in {session[id],
                                  [session[id] EXCEPT !.state = "ended"]}]_vars
  <1>1. IInv /\ [Next]_vars =>
          [\A id \in Sessions : session[id] # None =>
             session'[id] \in {session[id],
                                [session[id] EXCEPT !.state = "ended"]}]_vars
    BY SignInStep, PromiseStep DEF IInv, SessionsLive
  <1> QED
    BY <1>1, InductiveInvariant, PTL DEF Spec
=============================================================================
