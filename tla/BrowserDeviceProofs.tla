------------------------- MODULE BrowserDeviceProofs -------------------------
(***************************************************************************)
(* Proofs about BrowserDevice: for every set of flows, keys, sessions and  *)
(* users, what the browser may lose, and what it may delete, is bounded by *)
(* the mishaps that are named.                                             *)
(***************************************************************************)
EXTENDS BrowserDevice, TLAPS

-----------------------------------------------------------------------------
(* The inductive invariant. *)

Rebinding == {"bind_challenge", "bind_complete", "binding", "clear"}
Fresh     == {"enroll_complete", "trust"}
Held      == {"enroll_bind", "write", "compensate"}
Enrolling == {"enroll_challenge"} \cup Fresh \cup Held
Signed    == {"bind_complete", "binding"} \cup Fresh \cup Held

Enrolled(k) == device[k].state \in {"trusted", "revoked"}

\* What a flow holds, at each point of its code.
FlowShape(f) ==
  /\ At(f, "idle") => ~flow[f].clicked
  /\ flow[f].pc \in Enrolling \cup {"existing"} => flow[f].clicked
  /\ flow[f].pc \in Rebinding \cup Held =>
       flow[f].key \in Keys /\ Enrolled(flow[f].key)
  /\ flow[f].pc \in Fresh =>
       flow[f].key \in Keys /\ device[flow[f].key].state = "absent"
  /\ flow[f].pc \in Held =>
       device[flow[f].key].owner = user[flow[f].session]
  /\ flow[f].pc \in Signed =>
       flow[f].session \in Sessions /\ user[flow[f].session] # None

\* Two enrolments never hold one key.
KeysDiffer ==
  \A f, g \in Flows :
    /\ flow[f].pc \in Fresh /\ flow[g].pc \in Fresh
    /\ flow[f].key = flow[g].key
    => f = g

\* The session of the cookie was created for a user.
CookieShape == cookie # None => user[cookie] # None

Shape == (\A f \in Flows : FlowShape(f)) /\ KeysDiffer /\ CookieShape

Calm == mishaps \cap {"overlap", "expired", "session"} = {}

\* An enrolment is alone.
Alone == \A f, g \in Flows : flow[f].clicked /\ UnderWay(g) => f = g

\* The session of a challenge is still the one of the cookie, and active; the
\* record is the key a flow re-binds; what is about to be cleared is dead.
CalmFlow(f) ==
  /\ flow[f].pc \in Signed => flow[f].session = cookie /\ Authorized
  /\ flow[f].pc \in Rebinding => record \in {None, flow[f].key}
  /\ At(f, "clear") => device[flow[f].key].state = "revoked"

CalmInv == Alone /\ \A f \in Flows : CalmFlow(f)

\* Who clicked owns the stored key; what an enrolment is to replace is dead,
\* or the enrolment will be refused.
QuietFlow(f) ==
  /\ flow[f].clicked =>
       \/ cookie = None \/ record = None
       \/ device[record].owner = user[cookie]
  /\ flow[f].pc \in Enrolling =>
       record = None \/ device[record].state # "trusted" \/ ~Authorized

Kept == \A k \in Keys : device[k].state = "trusted" => k = record \/ InHand(k)

QuietInv == Kept /\ \A f \in Flows : QuietFlow(f)

IInv ==
  /\ TypeOK /\ Shape
  /\ Calm => CalmInv
  /\ mishaps = {} => QuietInv
-----------------------------------------------------------------------------
LEMMA NoneIsNoKey ==
  None \notin Keys /\ None \notin Sessions /\ None \notin Users
  BY BrowserAssumption

LEMMA InitInv == Init => IInv
<1> SUFFICES ASSUME Init PROVE IInv
  OBVIOUS
<1>1. TypeOK
  BY DEF Init, TypeOK, SessionRow, DeviceRow, Flow, PCs, Idle, Mishaps
<1>2. Shape
  BY DEF Init, Shape, CookieShape, FlowShape, KeysDiffer, Idle, At, Enrolling,
         Rebinding,
         Held, Fresh, Signed
<1>3. CalmInv
  BY DEF Init, CalmInv, Alone, CalmFlow, Idle, At, UnderWay, Rebinding, Signed,
         Held, Fresh
<1>4. QuietInv
  BY DEF Init, QuietInv, QuietFlow, Kept, Idle, Enrolling, Held, Fresh
<1> QED
  BY <1>1, <1>2, <1>3, <1>4 DEF IInv

\* Mishaps are never forgotten.
LEMMA MishapsGrow ==
  ASSUME mishaps \subseteq mishaps'
  PROVE  (Calm' => Calm) /\ (mishaps' = {} => mishaps = {})
  BY DEF Calm

\* A step of one flow that leaves the rest alone, but for what sessions are
\* bound to, keeps the invariant if it keeps it for that flow.
LEMMA FlowOnly ==
  ASSUME IInv, NEW f \in Flows, NEW r \in Flow,
         flow' = [flow EXCEPT ![f] = r],
         UNCHANGED <<record, cookie, user, device>>,
         session' \in [Sessions -> SessionRow],
         \A s \in Sessions : session'[s].state = session[s].state,
         mishaps \subseteq mishaps', mishaps' \subseteq Mishaps,
         FlowShape(f)', KeysDiffer',
         Calm' => Alone' /\ CalmFlow(f)',
         mishaps' = {} => Kept' /\ QuietFlow(f)'
  PROVE  IInv'
<1>1. TypeOK /\ Shape /\ (Calm => CalmInv) /\ (mishaps = {} => QuietInv)
  BY DEF IInv
<1>2. TypeOK'
  BY <1>1 DEF TypeOK
<1>3. flow'[f] = r /\ \A g \in Flows : g # f => flow'[g] = flow[g]
  BY <1>1 DEF TypeOK
<1>4. Authorized' <=> Authorized
  BY <1>1 DEF TypeOK, Authorized
<1>5. ASSUME NEW g \in Flows, g # f
      PROVE  /\ FlowShape(g)'
             /\ CalmFlow(g) => CalmFlow(g)'
             /\ QuietFlow(g) => QuietFlow(g)'
  <2>1. flow'[g] = flow[g]
    BY <1>3, <1>5
  <2>2. FlowShape(g)
    BY <1>1 DEF Shape
  <2>3. FlowShape(g)'
    BY <2>1, <2>2 DEF FlowShape, At, Enrolled
  <2>4. CalmFlow(g) => CalmFlow(g)'
    BY <1>4, <2>1 DEF CalmFlow, At
  <2>5. QuietFlow(g) => QuietFlow(g)'
    BY <1>4, <2>1 DEF QuietFlow
  <2> QED
    BY <2>3, <2>4, <2>5
<1>6. Shape'
  BY <1>1, <1>5 DEF Shape, CookieShape
<1>7. Calm' => CalmInv'
  BY <1>1, <1>5, MishapsGrow DEF CalmInv
<1>8. mishaps' = {} => QuietInv'
  BY <1>1, <1>5, MishapsGrow DEF QuietInv
<1> QED
  BY <1>2, <1>6, <1>7, <1>8 DEF IInv

\* A flow under way goes on or ends.
LEMMA FlowMoves ==
  ASSUME IInv, NEW f \in Flows, NEW r \in Flow, UnderWay(f),
         flow' = [flow EXCEPT ![f] = r],
         UNCHANGED <<record, cookie, user, device>>,
         session' \in [Sessions -> SessionRow],
         \A s \in Sessions : session'[s].state = session[s].state,
         mishaps \subseteq mishaps', mishaps' \subseteq Mishaps,
         r.clicked => flow[f].clicked,
         r.pc \in Fresh => flow[f].pc \in Fresh /\ r.key = flow[f].key,
         FlowShape(f)',
         Calm' => CalmFlow(f)',
         mishaps' = {} =>
           /\ QuietFlow(f)'
           /\ flow[f].pc \in Held =>
                \/ r.pc \in Held /\ r.key = flow[f].key
                \/ device[flow[f].key].state # "trusted"
  PROVE  IInv'
<1>1. TypeOK /\ Shape /\ (Calm => CalmInv) /\ (mishaps = {} => QuietInv)
  BY DEF IInv
<1>2. flow'[f] = r /\ \A g \in Flows : g # f => flow'[g] = flow[g]
  BY <1>1 DEF TypeOK
<1>3. KeysDiffer'
  BY <1>1, <1>2 DEF Shape, KeysDiffer
<1>4. Calm' => Alone'
  BY <1>1, <1>2, MishapsGrow DEF CalmInv, Alone, UnderWay, At
<1>5. mishaps' = {} => Kept'
  <2> SUFFICES ASSUME mishaps' = {}, NEW k \in Keys,
                      device[k].state = "trusted", k # record
               PROVE  InHand(k)'
    BY DEF Kept
  <2>1. PICK g \in Flows : flow[g].pc \in Held /\ flow[g].key = k
    BY <1>1, MishapsGrow DEF QuietInv, Kept, InHand, Held
  <2>2. flow'[g].pc \in Held /\ flow'[g].key = k
    BY <1>2, <2>1
  <2> QED
    BY <2>2 DEF InHand, Held
<1> QED
  BY <1>3, <1>4, <1>5, FlowOnly
-----------------------------------------------------------------------------
(* The three ways a step changes its flow. *)

LEMMA GotoIs ==
  ASSUME TypeOK, NEW f \in Flows, NEW pc \in PCs, Goto(f, pc)
  PROVE  \E r \in Flow : /\ flow' = [flow EXCEPT ![f] = r]
                         /\ flow'[f] = r
                         /\ r.pc = pc
                         /\ r.clicked = flow[f].clicked
                         /\ r.key = flow[f].key
                         /\ r.session = flow[f].session
<1> DEFINE r == [flow[f] EXCEPT !.pc = pc]
<1>1. flow \in [Flows -> Flow]
  BY DEF TypeOK
<1>2. flow' = [flow EXCEPT ![f] = r]
  BY <1>1 DEF Goto
<1>3. r \in Flow /\ r.pc = pc /\ r.clicked = flow[f].clicked
        /\ r.key = flow[f].key /\ r.session = flow[f].session
  BY <1>1 DEF Flow
<1> QED
  BY <1>1, <1>2, <1>3

LEMMA EndIs ==
  ASSUME TypeOK, NEW f \in Flows, End(f)
  PROVE  \E r \in Flow : /\ flow' = [flow EXCEPT ![f] = r]
                         /\ flow'[f] = r
                         /\ r.pc = "idle"
                         /\ r.clicked = FALSE
<1>1. Idle \in Flow
  BY DEF Idle, Flow, PCs
<1> QED
  BY <1>1 DEF End, TypeOK, Idle

LEMMA UnboundIs ==
  ASSUME TypeOK, NEW f \in Flows, Unbound(f)
  PROVE  \E r \in Flow : /\ flow' = [flow EXCEPT ![f] = r]
                         /\ flow'[f] = r
                         /\ r.clicked = flow[f].clicked
                         /\ flow[f].clicked => r.pc = "enroll_challenge"
                         /\ ~flow[f].clicked => r.pc = "idle"
<1> DEFINE r == [Idle EXCEPT !.pc = "enroll_challenge", !.clicked = TRUE]
<1>1. flow \in [Flows -> Flow]
  BY DEF TypeOK
<1>2. CASE flow[f].clicked
  <2>1. r \in Flow /\ r.pc = "enroll_challenge" /\ r.clicked = TRUE
    BY DEF Idle, Flow, PCs
  <2>2. flow' = [flow EXCEPT ![f] = r]
    BY <1>2 DEF Unbound
  <2>3. flow[f].clicked = TRUE
    BY <1>1, <1>2 DEF Flow
  <2> QED
    BY <1>1, <1>2, <2>1, <2>2, <2>3
<1>3. CASE ~flow[f].clicked
  <2>1. End(f)
    BY <1>3 DEF Unbound
  <2>2. flow[f].clicked = FALSE
    BY <1>1, <1>3 DEF Flow
  <2> QED
    BY <1>3, <2>1, <2>2, EndIs
<1> QED
  BY <1>2, <1>3

\* A flow ends; with no mishap, it has no usable key in hand.
LEMMA EndKeeps ==
  ASSUME IInv, NEW f \in Flows, UnderWay(f), End(f),
         UNCHANGED <<record, cookie, user, device>>,
         session' \in [Sessions -> SessionRow],
         \A s \in Sessions : session'[s].state = session[s].state,
         mishaps \subseteq mishaps', mishaps' \subseteq Mishaps,
         mishaps' = {} => (flow[f].pc \in Held =>
                             device[flow[f].key].state # "trusted")
  PROVE  IInv'
<1>1. PICK r \in Flow : /\ flow' = [flow EXCEPT ![f] = r]
                        /\ flow'[f] = r
                        /\ r.pc = "idle"
                        /\ r.clicked = FALSE
  BY EndIs DEF IInv
<1>2. FlowShape(f)'
  BY <1>1 DEF FlowShape, At, Rebinding, Held, Fresh, Enrolling, Signed
<1>3. CalmFlow(f)'
  BY <1>1 DEF CalmFlow, At, Rebinding, Held, Fresh, Signed
<1>4. QuietFlow(f)'
  BY <1>1 DEF QuietFlow, Held, Fresh, Enrolling
<1> QED
  BY <1>1, <1>2, <1>3, <1>4, FlowMoves DEF Fresh

\* A flow gives up re-binding; with no mishap, an enrolment has nothing left
\* to replace, or no session.
LEMMA UnboundKeeps ==
  ASSUME IInv, NEW f \in Flows, flow[f].pc \in Rebinding \cup {"read"},
         Unbound(f),
         UNCHANGED <<record, cookie, user, device>>,
         session' \in [Sessions -> SessionRow],
         \A s \in Sessions : session'[s].state = session[s].state,
         mishaps \subseteq mishaps', mishaps' \subseteq Mishaps,
         mishaps' = {} /\ flow[f].clicked =>
           record = None \/ device[record].state # "trusted" \/ ~Authorized
  PROVE  IInv'
<1>1. PICK r \in Flow : /\ flow' = [flow EXCEPT ![f] = r]
                        /\ flow'[f] = r
                        /\ r.clicked = flow[f].clicked
                        /\ flow[f].clicked => r.pc = "enroll_challenge"
                        /\ ~flow[f].clicked => r.pc = "idle"
  BY UnboundIs DEF IInv
<1>2. UnderWay(f)
  BY DEF UnderWay, At, Rebinding
<1>3. FlowShape(f)'
  BY <1>1 DEF FlowShape, At, Rebinding, Held, Fresh, Enrolling, Signed
<1>4. CalmFlow(f)'
  BY <1>1 DEF CalmFlow, At, Rebinding, Held, Fresh, Signed
<1>5. mishaps' = {} => QuietFlow(f)'
  <2> SUFFICES ASSUME mishaps' = {} PROVE QuietFlow(f)'
    OBVIOUS
  <2>1. QuietFlow(f) /\ TypeOK
    BY MishapsGrow DEF IInv, QuietInv
  <2>2. Authorized' <=> Authorized
    BY <2>1 DEF TypeOK, Authorized
  <2> QED
    BY <1>1, <2>1, <2>2 DEF QuietFlow, Held, Fresh, Enrolling
<1>6. flow[f].pc \notin Held
  BY DEF Held, Rebinding
<1>7. r.pc \notin Fresh
  BY <1>1 DEF Fresh
<1> QED
  BY <1>1, <1>2, <1>3, <1>4, <1>5, <1>6, <1>7, FlowMoves
-----------------------------------------------------------------------------
(* Flows begin. *)

LEMMA BeginStep ==
  ASSUME IInv, NEW f \in Flows, PageLoad(f) \/ Click(f)
  PROVE  IInv'
<1> DEFINE r == [flow[f] EXCEPT !.pc = "read"]
           q == [flow[f] EXCEPT !.pc = "existing", !.clicked = TRUE]
<1>1. TypeOK /\ Shape /\ (Calm => CalmInv) /\ (mishaps = {} => QuietInv)
  BY DEF IInv
<1>2. flow \in [Flows -> Flow] /\ At(f, "idle") /\ ~flow[f].clicked
  BY <1>1 DEF TypeOK, Shape, FlowShape, PageLoad, Click
<1>3. /\ UNCHANGED <<record, cookie, user, device, session>>
      /\ mishaps \subseteq mishaps' /\ mishaps' \subseteq Mishaps
  BY <1>1 DEF PageLoad, Click, TypeOK, Mishaps
<1>4. /\ session' \in [Sessions -> SessionRow]
      /\ \A s \in Sessions : session'[s].state = session[s].state
  BY <1>1, <1>3 DEF TypeOK
<1>5. PICK b \in Flow :
        /\ flow' = [flow EXCEPT ![f] = b]
        /\ flow'[f] = b
        /\ b.pc \in {"read", "existing"}
        /\ b.pc = "read" => PageLoad(f) /\ ~b.clicked
        /\ b.pc = "existing" => Click(f) /\ b.clicked
  <2>1. CASE PageLoad(f)
    <3>1. r \in Flow /\ r.pc = "read" /\ r.clicked = flow[f].clicked
      BY <1>2 DEF Flow, PCs
    <3>2. flow' = [flow EXCEPT ![f] = r] /\ flow'[f] = r
      BY <1>2, <2>1 DEF PageLoad
    <3> QED
      BY <1>2, <2>1, <3>1, <3>2
  <2>2. CASE Click(f)
    <3>1. q \in Flow /\ q.pc = "existing" /\ q.clicked = TRUE
      BY <1>2 DEF Flow, PCs
    <3>2. flow' = [flow EXCEPT ![f] = q] /\ flow'[f] = q
      BY <1>2, <2>2 DEF Click
    <3> QED
      BY <2>2, <3>1, <3>2
  <2> QED
    BY <2>1, <2>2
<1>6. \A g \in Flows : g # f => flow'[g] = flow[g]
  BY <1>2, <1>5
<1>7. FlowShape(f)' /\ KeysDiffer'
  <2>1. FlowShape(f)'
    BY <1>5 DEF FlowShape, At, Rebinding, Held, Fresh, Enrolling, Signed
  <2>2. KeysDiffer'
    BY <1>1, <1>5, <1>6 DEF Shape, KeysDiffer, Fresh
  <2> QED
    BY <2>1, <2>2
<1>8. Calm' => Alone' /\ CalmFlow(f)'
  <2>1. CalmFlow(f)'
    BY <1>5 DEF CalmFlow, At, Rebinding, Held, Fresh, Signed
  <2>2. ASSUME Calm' PROVE Alone'
    <3>1. Alone
      BY <1>1, <1>3, <2>2, MishapsGrow DEF CalmInv
    <3>2. CASE PageLoad(f)
      <4>1. \A g \in Flows : ~flow[g].clicked
        BY <2>2, <3>2 DEF PageLoad, Calm
      <4>2. ~flow'[f].clicked
        BY <1>2, <3>2, <4>1 DEF PageLoad, Flow
      <4> QED
        BY <1>6, <4>1, <4>2 DEF Alone
    <3>3. CASE Click(f)
      <4>1. \A g \in Flows : ~UnderWay(g)
        BY <2>2, <3>3 DEF Click, Calm
      <4>2. \A g \in Flows : ~flow[g].clicked
        BY <1>1, <4>1 DEF Shape, FlowShape, UnderWay
      <4> QED
        BY <1>6, <4>1, <4>2 DEF Alone, UnderWay, At
    <3> QED
      BY <3>2, <3>3
  <2> QED
    BY <2>1, <2>2
<1>9. mishaps' = {} => Kept' /\ QuietFlow(f)'
  <2> SUFFICES ASSUME mishaps' = {} PROVE Kept' /\ QuietFlow(f)'
    OBVIOUS
  <2>1. Kept
    BY <1>1, <1>3, MishapsGrow DEF QuietInv
  <2>2. Kept'
    BY <1>2, <1>3, <1>6, <2>1 DEF Kept, InHand, At
  <2>3. QuietFlow(f)'
    <3>1. CASE b.clicked
      BY <1>3, <1>5, <3>1 DEF Click, QuietFlow, Enrolling, Held, Fresh
    <3>2. CASE ~b.clicked
      BY <1>5, <3>2 DEF QuietFlow, Enrolling, Held, Fresh
    <3> QED
      BY <3>1, <3>2
  <2> QED
    BY <2>2, <2>3
<1> QED
  BY <1>3, <1>4, <1>5, <1>7, <1>8, <1>9, FlowOnly

\* The sessions are as before where a step leaves them alone.
LEMMA SameSessions ==
  ASSUME TypeOK, UNCHANGED session
  PROVE  /\ session' \in [Sessions -> SessionRow]
         /\ \A s \in Sessions : session'[s].state = session[s].state
  BY DEF TypeOK

LEMMA ReadStep ==
  ASSUME IInv, NEW f \in Flows, ReadExisting(f) \/ ReadStored(f)
  PROVE  IInv'
<1>1. TypeOK /\ Shape /\ (Calm => CalmInv) /\ (mishaps = {} => QuietInv)
  BY DEF IInv
<1>2. /\ UNCHANGED <<record, cookie, device, session, user, mishaps>>
      /\ mishaps \subseteq mishaps' /\ mishaps' \subseteq Mishaps
      /\ UnderWay(f)
  BY <1>1 DEF ReadExisting, ReadStored, TypeOK, UnderWay, At
<1>3. /\ session' \in [Sessions -> SessionRow]
      /\ \A s \in Sessions : session'[s].state = session[s].state
  BY <1>1, <1>2, SameSessions
<1>4. Authorized' <=> Authorized
  BY <1>2 DEF Authorized
<1>5. FlowShape(f)
  BY <1>1 DEF Shape
<1>6. flow \in [Flows -> Flow]
  BY <1>1 DEF TypeOK
<1>7. CASE ReadExisting(f)
  <2> DEFINE pc == IF record = None THEN "enroll_challenge" ELSE "read"
  <2>1. pc \in PCs /\ Goto(f, pc) /\ At(f, "existing")
    BY <1>7 DEF ReadExisting, PCs
  <2>2. PICK r \in Flow : /\ flow' = [flow EXCEPT ![f] = r]
                          /\ flow'[f] = r
                          /\ r.pc = pc
                          /\ r.clicked = flow[f].clicked
    BY <1>1, <2>1, GotoIs
  <2>3. FlowShape(f)'
    BY <1>5, <2>1, <2>2
    DEF FlowShape, At, Rebinding, Held, Fresh, Enrolling, Signed
  <2>4. CalmFlow(f)'
    BY <2>2 DEF CalmFlow, At, Rebinding, Held, Fresh, Signed
  <2>5. mishaps' = {} => QuietFlow(f)'
    BY <1>1, <1>2, <1>4, <2>2 DEF QuietInv, QuietFlow, Enrolling, Held, Fresh
  <2>6. flow[f].pc \notin Held /\ r.pc \notin Fresh
    BY <2>1, <2>2 DEF At, Held, Fresh
  <2> QED
    BY <1>2, <1>3, <2>2, <2>3, <2>4, <2>5, <2>6, FlowMoves
<1>8. CASE ReadStored(f)
  <2>1. At(f, "read") /\ flow[f].pc \notin Held
    BY <1>8 DEF ReadStored, At, Held
  <2>2. CASE record = None /\ End(f)
    BY <1>2, <1>3, <2>1, <2>2, EndKeeps
  <2>3. CASE record = None /\ Unbound(f)
    BY <1>2, <1>3, <2>1, <2>3, UnboundKeeps DEF At
  <2>4. CASE /\ record # None
             /\ flow' = [flow EXCEPT ![f].pc = "bind_challenge",
                                     ![f].key = record]
    <3> DEFINE r == [flow[f] EXCEPT !.pc = "bind_challenge", !.key = record]
    <3>1. record \in Keys /\ Enrolled(record)
      BY <1>1, <2>4 DEF TypeOK, Enrolled
    <3>2. r \in Flow /\ r.pc = "bind_challenge" /\ r.key = record
            /\ r.clicked = flow[f].clicked
      BY <1>6, <3>1 DEF Flow, PCs
    <3>3. flow' = [flow EXCEPT ![f] = r] /\ flow'[f] = r
      BY <1>6, <2>4
    <3> HIDE DEF r
    <3>4. FlowShape(f)'
      BY <1>2, <3>1, <3>2, <3>3
      DEF FlowShape, At, Rebinding, Held, Fresh, Enrolling, Signed, Enrolled
    <3>5. CalmFlow(f)'
      BY <1>2, <3>2, <3>3 DEF CalmFlow, At, Rebinding, Held, Fresh, Signed
    <3>6. mishaps' = {} => QuietFlow(f)'
      BY <1>1, <1>2, <1>4, <3>2, <3>3
      DEF QuietInv, QuietFlow, Enrolling, Held, Fresh
    <3>7. r.pc \notin Fresh
      BY <3>2 DEF Fresh
    <3> QED
      BY <1>2, <1>3, <2>1, <3>2, <3>3, <3>4, <3>5, <3>6, <3>7, FlowMoves
  <2> QED
    BY <1>8, <2>2, <2>3, <2>4 DEF ReadStored
<1> QED
  BY <1>7, <1>8
-----------------------------------------------------------------------------
(* Re-binding. *)

\* The facts of a state in which a flow re-binds.
LEMMA RebindingFacts ==
  ASSUME IInv, NEW f \in Flows, flow[f].pc \in Rebinding
  PROVE  /\ flow[f] \in Flow
         /\ UnderWay(f)
         /\ flow[f].pc \notin Held \cup Fresh
         /\ flow[f].key \in Keys
         /\ Enrolled(flow[f].key)
         /\ Calm => record \in {None, flow[f].key}
         /\ mishaps = {} => Calm
         /\ FlowShape(f)
  BY DEF IInv, TypeOK, Shape, FlowShape, CalmInv, CalmFlow, Calm, UnderWay, At,
         Rebinding, Held, Fresh

\* A refused enrolment has nothing left to replace, or no session.
LEMMA RefusedKeeps ==
  ASSUME IInv, NEW f \in Flows, flow[f].pc \in Rebinding,
         Refused(f), OnRefusal(f),
         UNCHANGED <<record, cookie, session, user, device, mishaps>>
  PROVE  IInv'
<1>1. TypeOK /\ (mishaps = {} => QuietInv)
  BY DEF IInv
<1>2. mishaps \subseteq mishaps' /\ mishaps' \subseteq Mishaps
  BY <1>1 DEF TypeOK
<1>3. ASSUME mishaps' = {}, flow[f].clicked
      PROVE  record = None \/ device[record].state # "trusted" \/ ~Authorized
  <2>1. mishaps = {} /\ QuietFlow(f) /\ record \in {None, flow[f].key}
    BY <1>1, <1>3, RebindingFacts DEF QuietInv
  <2>2. CASE record # None /\ Authorized
    <3>1. device[record].owner = user[cookie]
      BY <1>3, <2>1, <2>2 DEF QuietFlow, Authorized
    <3> QED
      BY <2>1, <2>2, <3>1 DEF Refused, Owns
  <2> QED
    BY <2>2
<1> QED
  BY <1>1, <1>2, <1>3, SameSessions, UnboundKeeps DEF OnRefusal

\* A flow turns to clearing; but for a session that changed and a challenge
\* too old, the device is revoked.
LEMMA TurnsToClear ==
  ASSUME IInv, NEW f \in Flows, flow[f].pc \in Rebinding, Goto(f, "clear"),
         UNCHANGED <<record, cookie, session, user, device>>,
         mishaps \subseteq mishaps', mishaps' \subseteq Mishaps,
         Calm' => device[flow[f].key].state = "revoked"
  PROVE  IInv'
<1>1. PICK r \in Flow : /\ flow' = [flow EXCEPT ![f] = r]
                        /\ flow'[f] = r
                        /\ r.pc = "clear"
                        /\ r.clicked = flow[f].clicked
                        /\ r.key = flow[f].key
  BY GotoIs DEF IInv, PCs
<1>2. FlowShape(f)'
  BY <1>1, RebindingFacts
  DEF FlowShape, At, Rebinding, Held, Fresh, Enrolling, Signed, Enrolled
<1>3. Calm' => CalmFlow(f)'
  BY <1>1, RebindingFacts, MishapsGrow
  DEF CalmFlow, At, Rebinding, Held, Fresh, Signed
<1>4. mishaps' = {} => QuietFlow(f)'
  <2> SUFFICES ASSUME mishaps' = {} PROVE QuietFlow(f)'
    OBVIOUS
  <2>1. QuietFlow(f)
    BY MishapsGrow DEF IInv, QuietInv
  <2> QED
    BY <1>1, <2>1 DEF QuietFlow, Enrolling, Held, Fresh
<1>5. r.pc \notin Fresh
  BY <1>1 DEF Fresh
<1> QED
  BY <1>1, <1>2, <1>3, <1>4, <1>5, SameSessions, RebindingFacts, FlowMoves
  DEF IInv

\* A device that is enrolled and not trusted is revoked.
LEMMA GoneIsRevoked ==
  ASSUME NEW k \in Keys, Enrolled(k), device[k].state # "trusted"
  PROVE  device[k].state = "revoked"
  BY DEF Enrolled

LEMMA BindChallengeStep ==
  ASSUME IInv, NEW f \in Flows, BindChallenge(f)
  PROVE  IInv'
<1>1. /\ flow[f].pc \in Rebinding /\ At(f, "bind_challenge")
      /\ UNCHANGED <<record, cookie, session, user, device, mishaps>>
  BY DEF BindChallenge, At, Rebinding
<1>2. mishaps \subseteq mishaps' /\ mishaps' \subseteq Mishaps
  BY <1>1 DEF IInv, TypeOK
<1>3. CASE Refused(f) /\ OnRefusal(f)
  BY <1>1, <1>3, RefusedKeeps
<1>4. CASE Gone(f) /\ Goto(f, "clear")
  BY <1>1, <1>2, <1>4, RebindingFacts, GoneIsRevoked, TurnsToClear DEF Gone
<1>5. CASE /\ Found(f)
           /\ flow' = [flow EXCEPT ![f].pc = "bind_complete",
                                   ![f].session = cookie]
  <2> DEFINE r == [flow[f] EXCEPT !.pc = "bind_complete", !.session = cookie]
  <2>1. cookie \in Sessions /\ Authorized
    BY <1>5 DEF Found, Owns, Authorized, IInv, TypeOK
  <2>2. r \in Flow /\ r.pc = "bind_complete" /\ r.session = cookie
          /\ r.key = flow[f].key /\ r.clicked = flow[f].clicked
    BY <1>1, <2>1, RebindingFacts DEF Flow, PCs
  <2>3. flow' = [flow EXCEPT ![f] = r] /\ flow'[f] = r
    BY <1>5 DEF IInv, TypeOK
  <2> HIDE DEF r
  <2>4. FlowShape(f)'
    BY <1>1, <2>1, <2>2, <2>3, RebindingFacts, NoneIsNoKey
    DEF FlowShape, At, Rebinding, Held, Fresh, Enrolling, Signed, Enrolled,
        IInv, Shape, CookieShape
  <2>5. Authorized'
    BY <1>1, <2>1 DEF Authorized
  <2>6. Calm' => CalmFlow(f)'
    BY <1>1, <1>2, <2>2, <2>3, <2>5, RebindingFacts, MishapsGrow
    DEF CalmFlow, At, Rebinding, Held, Fresh, Signed
  <2>7. mishaps' = {} => QuietFlow(f)'
    BY <1>1, <2>2, <2>3 DEF IInv, QuietInv, QuietFlow, Enrolling, Held, Fresh
  <2>8. r.pc \notin Fresh
    BY <2>2 DEF Fresh
  <2> QED
    BY <1>1, <1>2, <2>2, <2>3, <2>4, <2>6, <2>7, <2>8, SameSessions,
       RebindingFacts, FlowMoves
    DEF IInv
<1> QED
  BY <1>3, <1>4, <1>5 DEF BindChallenge

LEMMA BindCompleteStep ==
  ASSUME IInv, NEW f \in Flows, BindComplete(f)
  PROVE  IInv'
<1>1. /\ flow[f].pc \in Rebinding /\ At(f, "bind_complete")
      /\ UNCHANGED <<record, cookie, session, user, device>>
  BY DEF BindComplete, At, Rebinding
<1>2. mishaps \subseteq mishaps' /\ mishaps' \subseteq Mishaps
  BY DEF IInv, TypeOK, BindComplete, Note, Mishaps
<1>3. CASE Refused(f) /\ OnRefusal(f) /\ UNCHANGED mishaps
  BY <1>1, <1>3, RefusedKeeps
<1>4. CASE Gone(f) /\ Goto(f, "clear") /\ UNCHANGED mishaps
  BY <1>1, <1>2, <1>4, RebindingFacts, GoneIsRevoked, TurnsToClear DEF Gone
<1>5. CASE Found(f) /\ Goto(f, "clear") /\ Note("expired")
  <2>1. ~Calm'
    BY <1>5 DEF Note, Calm
  <2> QED
    BY <1>1, <1>2, <1>5, <2>1, TurnsToClear
<1>6. CASE /\ flow[f].session # cookie
           /\ Goto(f, "clear") /\ UNCHANGED mishaps
  <2>1. ~Calm
    BY <1>1, <1>6 DEF IInv, CalmInv, CalmFlow, Signed, At
  <2>2. ~Calm'
    BY <1>2, <2>1, MishapsGrow
  <2> QED
    BY <1>1, <1>2, <1>6, <2>2, TurnsToClear
<1>7. CASE Goto(f, "binding") /\ UNCHANGED mishaps
  <2>1. PICK r \in Flow : /\ flow' = [flow EXCEPT ![f] = r]
                          /\ flow'[f] = r
                          /\ r.pc = "binding"
                          /\ r.clicked = flow[f].clicked
                          /\ r.key = flow[f].key
                          /\ r.session = flow[f].session
    BY <1>7, GotoIs DEF IInv, PCs
  <2>2. FlowShape(f)'
    BY <1>1, <2>1, RebindingFacts
    DEF FlowShape, At, Rebinding, Held, Fresh, Enrolling, Signed, Enrolled
  <2>3. Authorized' <=> Authorized
    BY <1>1 DEF Authorized
  <2>4. Calm' => CalmFlow(f)'
    BY <1>1, <1>2, <2>1, <2>3, MishapsGrow
    DEF IInv, CalmInv, CalmFlow, At, Rebinding, Held, Fresh, Signed
  <2>5. mishaps' = {} => QuietFlow(f)'
    BY <1>1, <1>7, <2>1 DEF IInv, QuietInv, QuietFlow, Enrolling, Held, Fresh
  <2>6. r.pc \notin Fresh
    BY <2>1 DEF Fresh
  <2> QED
    BY <1>1, <1>2, <2>1, <2>2, <2>4, <2>5, <2>6, SameSessions, RebindingFacts,
       FlowMoves
    DEF IInv
<1> QED
  BY <1>3, <1>4, <1>5, <1>6, <1>7 DEF BindComplete

LEMMA SessionBound ==
  ASSUME TypeOK, NEW s \in Sessions, NEW k \in Keys,
         session' = [session EXCEPT ![s].device = k]
  PROVE  /\ session' \in [Sessions -> SessionRow]
         /\ \A t \in Sessions : session'[t].state = session[t].state
<1>1. session \in [Sessions -> SessionRow]
  BY DEF TypeOK
<1>2. [session[s] EXCEPT !.device = k] \in SessionRow
  BY <1>1 DEF SessionRow
<1>3. [session[s] EXCEPT !.device = k].state = session[s].state
  BY <1>1 DEF SessionRow
<1> QED
  BY <1>1, <1>2, <1>3

LEMMA BindStep ==
  ASSUME IInv, NEW f \in Flows, Bind(f)
  PROVE  IInv'
<1>1. /\ flow[f].pc \in Rebinding /\ At(f, "binding")
      /\ UNCHANGED <<record, cookie, user, device>>
  BY DEF Bind, At, Rebinding
<1>2. mishaps \subseteq mishaps' /\ mishaps' \subseteq Mishaps
  BY DEF IInv, TypeOK, Bind, NoteIfClicked, Mishaps
<1>3. flow[f].session \in Sessions
  BY <1>1 DEF IInv, Shape, FlowShape, Signed, At
<1>4. CASE /\ session' = [session EXCEPT
                ![flow[f].session].device = flow[f].key]
           /\ \/ End(f) /\ UNCHANGED mishaps
              \/ Unbound(f) /\ NoteIfClicked(f, "failure")
  <2>1. /\ session' \in [Sessions -> SessionRow]
        /\ \A t \in Sessions : session'[t].state = session[t].state
    BY <1>1, <1>3, <1>4, RebindingFacts, SessionBound DEF IInv
  <2>2. CASE End(f)
    BY <1>1, <1>2, <2>1, <2>2, RebindingFacts, EndKeeps
  <2>3. CASE Unbound(f) /\ NoteIfClicked(f, "failure")
    <3>1. ~(mishaps' = {} /\ flow[f].clicked)
      BY <2>3 DEF NoteIfClicked
    <3> QED
      BY <1>1, <1>2, <2>1, <2>3, <3>1, UnboundKeeps
  <2> QED
    BY <1>4, <2>2, <2>3
<1>5. CASE /\ \/ session[flow[f].session].state # "active"
              \/ device[flow[f].key].state # "trusted"
           /\ Goto(f, "clear")
           /\ UNCHANGED <<session, mishaps>>
  <2>1. Calm' => device[flow[f].key].state = "revoked"
    <3> SUFFICES ASSUME Calm' PROVE device[flow[f].key].state = "revoked"
      OBVIOUS
    <3>1. flow[f].session = cookie /\ Authorized
      BY <1>1, <1>2, MishapsGrow DEF IInv, CalmInv, CalmFlow, Signed, At
    <3> QED
      BY <1>1, <1>5, <3>1, RebindingFacts, GoneIsRevoked DEF Authorized
  <2> QED
    BY <1>1, <1>2, <1>5, <2>1, TurnsToClear
<1> QED
  BY <1>4, <1>5 DEF Bind

\* An idle flow holds nothing.
LEMMA IdleIsFine ==
  ASSUME NEW g \in Flows, At(g, "idle"), ~flow[g].clicked
  PROVE  FlowShape(g) /\ CalmFlow(g) /\ QuietFlow(g)
  BY DEF FlowShape, CalmFlow, QuietFlow, At, Rebinding, Held, Fresh, Enrolling,
         Signed

LEMMA ClearStep ==
  ASSUME IInv, NEW f \in Flows, Clear(f)
  PROVE  IInv'
<1>1. /\ flow[f].pc \in Rebinding /\ At(f, "clear")
      /\ UNCHANGED <<cookie, session, user, device, mishaps>>
  BY DEF Clear, At, Rebinding
<1>2. mishaps \subseteq mishaps' /\ mishaps' \subseteq Mishaps
  BY <1>1 DEF IInv, TypeOK
<1>3. TypeOK /\ Shape /\ (Calm => CalmInv) /\ (mishaps = {} => QuietInv)
  BY DEF IInv
<1>4. CASE UNCHANGED record /\ End(f)
  BY <1>1, <1>2, <1>3, <1>4, SameSessions, RebindingFacts, EndKeeps
<1>5. CASE record' = None /\ Unbound(f)
  <2>1. PICK r \in Flow : /\ flow' = [flow EXCEPT ![f] = r]
                          /\ flow'[f] = r
                          /\ r.clicked = flow[f].clicked
                          /\ flow[f].clicked => r.pc = "enroll_challenge"
                          /\ ~flow[f].clicked => r.pc = "idle"
    BY <1>3, <1>5, UnboundIs
  <2>2. \A g \in Flows : g # f => flow'[g] = flow[g]
    BY <1>3, <2>1 DEF TypeOK
  <2>3. TypeOK'
    BY <1>1, <1>3, <1>5, <2>1 DEF TypeOK
  <2>4. Shape'
    <3>1. FlowShape(f)'
      BY <2>1 DEF FlowShape, At, Rebinding, Held, Fresh, Enrolling, Signed
    <3>2. ASSUME NEW g \in Flows, g # f PROVE FlowShape(g)'
      BY <1>1, <1>3, <2>2, <3>2 DEF Shape, FlowShape, At, Enrolled
    <3>3. KeysDiffer'
      BY <1>3, <2>1, <2>2 DEF Shape, KeysDiffer, Fresh
    <3> QED
      BY <1>1, <1>3, <3>1, <3>2, <3>3 DEF Shape, CookieShape
  <2>5. Calm' => CalmInv'
    <3> SUFFICES ASSUME Calm' PROVE CalmInv'
      OBVIOUS
    <3>1. CalmInv
      BY <1>2, <1>3, MishapsGrow
    <3>2. Alone'
      BY <1>1, <2>1, <2>2, <3>1 DEF CalmInv, Alone, UnderWay, At
    <3>3. CalmFlow(f)'
      BY <2>1 DEF CalmFlow, At, Rebinding, Held, Fresh, Signed
    <3>4. Authorized' <=> Authorized
      BY <1>1 DEF Authorized
    <3>5. ASSUME NEW g \in Flows, g # f PROVE CalmFlow(g)'
      BY <1>1, <1>5, <2>2, <3>1, <3>4, <3>5 DEF CalmInv, CalmFlow, At
    <3> QED
      BY <3>2, <3>3, <3>5 DEF CalmInv
  <2>6. mishaps' = {} => QuietInv'
    <3> SUFFICES ASSUME mishaps' = {} PROVE QuietInv'
      OBVIOUS
    <3>1. CalmInv /\ QuietInv
      BY <1>2, <1>3, MishapsGrow, RebindingFacts, <1>1
    <3>2. \A g \in Flows : QuietFlow(g)'
      BY <1>5 DEF QuietFlow
    <3>3. Kept'
      <4> SUFFICES ASSUME NEW k \in Keys, device[k].state = "trusted"
                   PROVE  InHand(k)'
        BY <1>1 DEF Kept
      <4>1. k # record
        BY <1>1, <3>1, NoneIsNoKey DEF CalmInv, CalmFlow, At
      <4>2. PICK g \in Flows : flow[g].pc \in Held /\ flow[g].key = k
        BY <3>1, <4>1 DEF QuietInv, Kept, InHand, Held
      <4>3. g # f
        BY <1>1, <4>2 DEF At, Held
      <4> QED
        BY <2>2, <4>2, <4>3 DEF InHand, Held
    <3> QED
      BY <3>2, <3>3 DEF QuietInv
  <2> QED
    BY <2>3, <2>4, <2>5, <2>6 DEF IInv
<1> QED
  BY <1>4, <1>5 DEF Clear
-----------------------------------------------------------------------------
(* Enrolment. *)

LEMMA ClickedFacts ==
  ASSUME IInv, NEW f \in Flows, flow[f].pc \in Enrolling
  PROVE  /\ flow[f] \in Flow
         /\ UnderWay(f)
         /\ flow[f].clicked
         /\ FlowShape(f)
         /\ flow[f].pc \in Signed =>
              (Calm => flow[f].session = cookie /\ Authorized)
         /\ Calm => \A g \in Flows : g # f => At(g, "idle") /\ ~flow[g].clicked
         /\ mishaps = {} => Calm
  BY DEF IInv, TypeOK, Shape, FlowShape, CalmInv, CalmFlow, Alone, Calm,
         UnderWay, At, Enrolling, Held, Fresh

\* A step of an enrolment keeps the invariant if it keeps it for its own flow:
\* in the calm the others are idle.
LEMMA EnrolmentStep ==
  ASSUME IInv, NEW f \in Flows, flow[f].pc \in Enrolling, NEW r \in Flow,
         flow' = [flow EXCEPT ![f] = r], UNCHANGED <<cookie, user>>,
         mishaps \subseteq mishaps',
         TypeOK', FlowShape(f)', KeysDiffer',
         \A g \in Flows : g # f => FlowShape(g)',
         Calm' => CalmFlow(f)',
         mishaps' = {} => Kept' /\ QuietFlow(f)'
  PROVE  IInv'
<1>1. flow'[f] = r /\ \A g \in Flows : g # f => flow'[g] = flow[g]
  BY DEF IInv, TypeOK
<1>2. Shape'
  BY DEF IInv, Shape, CookieShape
<1>3. ASSUME Calm', NEW g \in Flows, g # f
      PROVE  At(g, "idle")' /\ ~flow'[g].clicked /\ CalmFlow(g)'
               /\ QuietFlow(g)'
  <2>1. At(g, "idle")' /\ ~flow'[g].clicked
    BY <1>1, <1>3, ClickedFacts, MishapsGrow DEF At
  <2> QED
    BY <2>1
    DEF CalmFlow, QuietFlow, At, Rebinding, Held, Fresh, Enrolling, Signed
<1>4. Calm' => CalmInv'
  BY <1>3 DEF CalmInv, Alone, UnderWay
<1>5. mishaps' = {} => Calm'
  BY DEF Calm
<1>6. mishaps' = {} => QuietInv'
  BY <1>3, <1>5 DEF QuietInv
<1> QED
  BY <1>2, <1>4, <1>6 DEF IInv

LEMMA EnrollChallengeStep ==
  ASSUME IInv, NEW f \in Flows, EnrollChallenge(f)
  PROVE  IInv'
<1>1. /\ flow[f].pc \in Enrolling /\ At(f, "enroll_challenge")
      /\ UNCHANGED <<record, cookie, session, user, device, mishaps>>
  BY DEF EnrollChallenge, At, Enrolling
<1>2. mishaps \subseteq mishaps' /\ mishaps' \subseteq Mishaps
  BY <1>1 DEF IInv, TypeOK
<1>3. CASE End(f)
  BY <1>1, <1>2, <1>3, SameSessions, ClickedFacts, EndKeeps DEF IInv, At, Held
<1>4. CASE /\ Authorized
           /\ \E k \in Keys :
                /\ device[k].state = "absent"
                /\ \A g \in Flows : flow[g].key # k
                /\ flow' = [flow EXCEPT ![f].pc = "enroll_complete",
                                        ![f].key = k, ![f].session = cookie]
  <2>1. PICK k \in Keys :
          /\ device[k].state = "absent"
          /\ \A g \in Flows : flow[g].key # k
          /\ flow' = [flow EXCEPT ![f].pc = "enroll_complete",
                                  ![f].key = k, ![f].session = cookie]
    BY <1>4
  <2> DEFINE r == [flow[f] EXCEPT !.pc = "enroll_complete", !.key = k,
                                  !.session = cookie]
  <2>2. cookie \in Sessions
    BY <1>4 DEF Authorized, IInv, TypeOK
  <2>3. r \in Flow /\ r.pc = "enroll_complete" /\ r.key = k
          /\ r.session = cookie /\ r.clicked = flow[f].clicked
    BY <1>1, <2>2, ClickedFacts DEF Flow, PCs
  <2>4. flow' = [flow EXCEPT ![f] = r] /\ flow'[f] = r
    BY <2>1 DEF IInv, TypeOK
  <2> HIDE DEF r
  <2>5. \A g \in Flows : g # f => flow'[g] = flow[g]
    BY <2>4 DEF IInv, TypeOK
  <2>6. TypeOK'
    BY <1>1, <2>3, <2>4 DEF IInv, TypeOK
  <2>7. FlowShape(f)'
    BY <1>1, <2>1, <2>2, <2>3, <2>4, ClickedFacts, NoneIsNoKey
    DEF FlowShape, At, Rebinding, Held, Fresh, Enrolling, Signed, IInv, Shape,
        CookieShape
  <2>8. KeysDiffer'
    BY <2>1, <2>3, <2>4, <2>5 DEF IInv, Shape, KeysDiffer
  <2>9. ASSUME NEW g \in Flows, g # f PROVE FlowShape(g)'
    BY <1>1, <2>5, <2>9 DEF IInv, Shape, FlowShape, At, Enrolled
  <2>10. Authorized'
    BY <1>1, <1>4 DEF Authorized
  <2>11. CalmFlow(f)'
    BY <1>1, <2>3, <2>4, <2>10 DEF CalmFlow, At, Rebinding, Held, Fresh
  <2>12. ASSUME mishaps' = {} PROVE Kept' /\ QuietFlow(f)'
    <3>1. Kept /\ QuietFlow(f)
      BY <1>1, <2>12 DEF IInv, QuietInv
    <3>2. Kept'
      BY <1>1, <2>5, <3>1 DEF Kept, InHand, At
    <3>3. QuietFlow(f)'
      BY <1>1, <1>4, <2>3, <2>4, <3>1
      DEF QuietFlow, At, Enrolling, Held, Fresh
    <3> QED
      BY <3>2, <3>3
  <2> QED
    BY <1>1, <1>2, <2>3, <2>4, <2>6, <2>7, <2>8, <2>9, <2>11, <2>12,
       EnrolmentStep
<1> QED
  BY <1>3, <1>4 DEF EnrollChallenge

LEMMA EnrollCompleteStep ==
  ASSUME IInv, NEW f \in Flows, EnrollComplete(f)
  PROVE  IInv'
<1>1. /\ flow[f].pc \in Enrolling /\ At(f, "enroll_complete")
      /\ UNCHANGED <<record, cookie, session, user, device, mishaps>>
  BY DEF EnrollComplete, At, Enrolling, Fresh
<1>2. mishaps \subseteq mishaps' /\ mishaps' \subseteq Mishaps
  BY <1>1 DEF IInv, TypeOK
<1>3. CASE End(f)
  BY <1>1, <1>2, <1>3, SameSessions, ClickedFacts, EndKeeps DEF IInv, At, Held
<1>4. CASE Goto(f, "trust")
  <2>1. PICK r \in Flow : /\ flow' = [flow EXCEPT ![f] = r]
                          /\ flow'[f] = r
                          /\ r.pc = "trust"
                          /\ r.clicked = flow[f].clicked
                          /\ r.key = flow[f].key
                          /\ r.session = flow[f].session
    BY <1>4, GotoIs DEF IInv, PCs
  <2>2. FlowShape(f)'
    BY <1>1, <2>1, ClickedFacts
    DEF FlowShape, At, Rebinding, Held, Fresh, Enrolling, Signed
  <2>3. Authorized' <=> Authorized
    BY <1>1 DEF Authorized
  <2>4. Calm' => CalmFlow(f)'
    BY <1>1, <1>2, <2>1, <2>3, ClickedFacts, MishapsGrow
    DEF CalmFlow, At, Rebinding, Held, Fresh, Signed
  <2>5. mishaps' = {} => QuietFlow(f)'
    BY <1>1, <2>1, <2>3
    DEF IInv, QuietInv, QuietFlow, At, Enrolling, Held, Fresh
  <2>6. flow[f].pc \in Fresh /\ flow[f].pc \notin Held
    BY <1>1 DEF At, Held, Fresh
  <2> QED
    BY <1>1, <1>2, <2>1, <2>2, <2>4, <2>5, <2>6, SameSessions, ClickedFacts,
       FlowMoves
    DEF IInv
<1> QED
  BY <1>3, <1>4 DEF EnrollComplete

LEMMA TrustStep ==
  ASSUME IInv, NEW f \in Flows, Trust(f)
  PROVE  IInv'
<1> DEFINE k == flow[f].key
           u == user[flow[f].session]
<1>1. /\ flow[f].pc \in Enrolling /\ At(f, "trust")
      /\ flow[f].pc \in Fresh /\ flow[f].pc \notin Held
      /\ UNCHANGED <<record, cookie, session, user, mishaps>>
  BY DEF Trust, At, Enrolling, Fresh, Held
<1>2. mishaps \subseteq mishaps'
  BY <1>1
<1>3. /\ k \in Keys /\ device[k].state = "absent"
      /\ flow[f].session \in Sessions /\ u \in Users
      /\ flow[f].clicked
  <2>1. /\ FlowShape(f) /\ flow[f].clicked
        /\ user \in [Sessions -> Users \cup {None}]
    BY <1>1, ClickedFacts DEF IInv, TypeOK
  <2> QED
    BY <1>1, <2>1 DEF FlowShape, Signed, At
<1>4. PICK x \in {"trusted", "pending"} :
        /\ device' = [device EXCEPT ![k] = [state |-> x, owner |-> u]]
        /\ x = "trusted" => Goto(f, "enroll_bind")
        /\ x = "pending" => End(f)
  BY DEF Trust
<1>5. PICK r \in Flow : /\ flow' = [flow EXCEPT ![f] = r]
                        /\ flow'[f] = r
                        /\ x = "trusted" => /\ r.pc = "enroll_bind"
                                            /\ r.key = k
                                            /\ r.session = flow[f].session
                                            /\ r.clicked = flow[f].clicked
                        /\ x = "pending" => r.pc = "idle" /\ ~r.clicked
  <2>1. TypeOK
    BY DEF IInv
  <2>2. CASE x = "trusted"
    <3>1. "enroll_bind" \in PCs
      BY DEF PCs
    <3> QED
      BY <1>4, <2>1, <2>2, <3>1, GotoIs
  <2>3. CASE x = "pending"
    BY <1>4, <2>1, <2>3, EndIs
  <2> QED
    BY <2>2, <2>3
<1>6. \A g \in Flows : g # f => flow'[g] = flow[g]
  BY <1>5 DEF IInv, TypeOK
<1> HIDE DEF u
<1>7. /\ device' \in [Keys -> DeviceRow]
      /\ device'[k].state = x /\ device'[k].owner = u
      /\ \A j \in Keys : j # k => device'[j] = device[j]
  BY <1>3, <1>4 DEF IInv, TypeOK, DeviceRow
<1> HIDE DEF k
<1>8. TypeOK'
  <2>1. record # None => record \in Keys /\ record # k
    BY <1>3 DEF IInv, TypeOK
  <2> QED
    BY <1>1, <1>5, <1>7, <2>1 DEF IInv, TypeOK
<1>9. FlowShape(f)'
  <2>1. user' = user /\ u = user[flow[f].session] /\ u # None
    BY <1>1, <1>3, NoneIsNoKey DEF u
  <2>2. CASE x = "pending"
    BY <1>5, <2>2
    DEF FlowShape, At, Rebinding, Held, Fresh, Enrolling, Signed
  <2>3. CASE x = "trusted"
    <3>1. /\ flow'[f].pc = "enroll_bind" /\ flow'[f].key = k
          /\ flow'[f].session = flow[f].session /\ flow'[f].clicked
      BY <1>3, <1>5, <2>3
    <3>2. user'[flow'[f].session] = u /\ flow'[f].session \in Sessions
      BY <1>3, <2>1, <3>1
    <3> QED
      BY <1>3, <1>7, <2>1, <2>3, <3>1, <3>2
      DEF FlowShape, At, Rebinding, Held, Fresh, Enrolling, Signed, Enrolled
  <2> QED
    BY <2>2, <2>3
<1>10. ASSUME NEW g \in Flows, g # f PROVE FlowShape(g)'
  <2>1. FlowShape(g) /\ KeysDiffer
    BY DEF IInv, Shape
  <2>2. flow[g].pc \in Rebinding \cup Held \cup Fresh => flow[g].key # k
    BY <1>1, <1>3, <1>10, <2>1 DEF FlowShape, Enrolled, KeysDiffer, k
  <2>3. flow[g].pc \in Rebinding \cup Held \cup Fresh =>
          device'[flow[g].key] = device[flow[g].key]
    BY <1>7, <2>1, <2>2 DEF FlowShape
  <2> QED
    BY <1>1, <1>6, <1>10, <2>1, <2>3 DEF FlowShape, At, Enrolled
<1>11. KeysDiffer'
  BY <1>5, <1>6 DEF IInv, Shape, KeysDiffer, Fresh
<1>12. Calm' => CalmFlow(f)'
  <2>1. Authorized' <=> Authorized
    BY <1>1 DEF Authorized
  <2> QED
    BY <1>1, <1>5, <2>1, ClickedFacts, MishapsGrow
    DEF CalmFlow, At, Rebinding, Held, Fresh, Signed
<1>13. ASSUME mishaps' = {} PROVE Kept' /\ QuietFlow(f)'
  <2>1. Kept /\ QuietFlow(f)
    BY <1>1, <1>13 DEF IInv, QuietInv
  <2>2. Kept'
    <3> SUFFICES ASSUME NEW j \in Keys, device'[j].state = "trusted",
                        j # record
                 PROVE  InHand(j)'
      BY <1>1 DEF Kept
    <3>1. CASE j = k
      BY <1>5, <1>7, <3>1 DEF InHand
    <3>2. CASE j # k
      <4>1. PICK g \in Flows : flow[g].pc \in Held /\ flow[g].key = j
        BY <1>7, <2>1, <3>2 DEF Kept, InHand, Held
      <4> QED
        BY <1>1, <1>6, <4>1 DEF InHand, Held
    <3> QED
      BY <3>1, <3>2
  <2>3. QuietFlow(f)'
    <3>1. record = None \/ device'[record] = device[record]
      BY <1>3, <1>7 DEF IInv, TypeOK
    <3>2. Authorized' <=> Authorized
      BY <1>1 DEF Authorized
    <3> QED
      BY <1>1, <1>3, <1>5, <2>1, <3>1, <3>2
      DEF QuietFlow, Enrolling, Held, Fresh
  <2> QED
    BY <2>2, <2>3
<1> QED
  BY <1>1, <1>2, <1>5, <1>8, <1>9, <1>10, <1>11, <1>12, <1>13, EnrolmentStep

LEMMA EnrollBindStep ==
  ASSUME IInv, NEW f \in Flows, EnrollBind(f)
  PROVE  IInv'
<1>1. /\ flow[f].pc \in Enrolling /\ At(f, "enroll_bind")
      /\ flow[f].pc \in Held /\ flow[f].pc \in Signed
      /\ UNCHANGED <<record, cookie, user, device, mishaps>>
  BY DEF EnrollBind, At, Enrolling, Held, Signed
<1>2. mishaps \subseteq mishaps' /\ mishaps' \subseteq Mishaps
  BY <1>1 DEF IInv, TypeOK
<1>3. flow[f].key \in Keys /\ flow[f].session \in Sessions
  BY <1>1, ClickedFacts DEF FlowShape
<1>4. CASE /\ session' = [session EXCEPT
                ![flow[f].session].device = flow[f].key]
           /\ Goto(f, "write")
  <2>1. /\ session' \in [Sessions -> SessionRow]
        /\ \A t \in Sessions : session'[t].state = session[t].state
    BY <1>3, <1>4, SessionBound DEF IInv
  <2>2. PICK r \in Flow : /\ flow' = [flow EXCEPT ![f] = r]
                          /\ flow'[f] = r
                          /\ r.pc = "write"
                          /\ r.clicked = flow[f].clicked
                          /\ r.key = flow[f].key
                          /\ r.session = flow[f].session
    BY <1>4, GotoIs DEF IInv, PCs
  <2>3. FlowShape(f)'
    BY <1>1, <2>2, ClickedFacts
    DEF FlowShape, At, Rebinding, Held, Fresh, Enrolling, Signed, Enrolled
  <2>4. Authorized' <=> Authorized
    BY <1>1, <2>1 DEF Authorized, IInv, TypeOK
  <2>5. Calm' => CalmFlow(f)'
    BY <1>1, <1>2, <2>2, <2>4, ClickedFacts, MishapsGrow
    DEF CalmFlow, At, Rebinding, Held, Fresh, Signed
  <2>6. mishaps' = {} => QuietFlow(f)'
    BY <1>1, <2>2, <2>4 DEF IInv, QuietInv, QuietFlow, Enrolling, Held, Fresh
  <2>7. r.pc \in Held /\ r.pc \notin Fresh
    BY <2>2 DEF Held, Fresh
  <2> QED
    BY <1>1, <1>2, <2>1, <2>2, <2>3, <2>5, <2>6, <2>7, ClickedFacts, FlowMoves
<1>5. CASE /\ \/ session[flow[f].session].state # "active"
              \/ device[flow[f].key].state # "trusted"
           /\ End(f) /\ UNCHANGED session
  <2>1. mishaps' = {} => device[flow[f].key].state # "trusted"
    BY <1>1, <1>5, ClickedFacts DEF Authorized
  <2> QED
    BY <1>1, <1>2, <1>5, <2>1, SameSessions, ClickedFacts, EndKeeps DEF IInv
<1> QED
  BY <1>4, <1>5 DEF EnrollBind

LEMMA WriteStep ==
  ASSUME IInv, NEW f \in Flows, Write(f)
  PROVE  IInv'
<1>1. /\ flow[f].pc \in Enrolling /\ At(f, "write")
      /\ flow[f].pc \in Held /\ flow[f].pc \in Signed
      /\ UNCHANGED <<cookie, session, user, device, mishaps>>
  BY DEF Write, At, Enrolling, Held, Signed
<1>2. mishaps \subseteq mishaps' /\ mishaps' \subseteq Mishaps
  BY <1>1 DEF IInv, TypeOK
<1>3. /\ flow[f].key \in Keys /\ flow[f].session \in Sessions
      /\ Enrolled(flow[f].key)
  BY <1>1, ClickedFacts DEF FlowShape
<1>4. Authorized' <=> Authorized
  BY <1>1 DEF Authorized
<1>5. CASE record' = flow[f].key /\ End(f)
  <2>1. PICK r \in Flow : /\ flow' = [flow EXCEPT ![f] = r]
                          /\ flow'[f] = r
                          /\ r.pc = "idle"
                          /\ r.clicked = FALSE
    BY <1>5, EndIs DEF IInv
  <2>2. \A g \in Flows : g # f => flow'[g] = flow[g]
    BY <2>1 DEF IInv, TypeOK
  <2>3. TypeOK'
    BY <1>1, <1>3, <1>5, <2>1 DEF IInv, TypeOK, Enrolled
  <2>4. FlowShape(f)' /\ CalmFlow(f)' /\ QuietFlow(f)'
    BY <2>1
    DEF FlowShape, CalmFlow, QuietFlow, At, Rebinding, Held, Fresh, Enrolling,
        Signed
  <2>5. KeysDiffer'
    BY <2>1, <2>2 DEF IInv, Shape, KeysDiffer, Fresh
  <2>6. ASSUME NEW g \in Flows, g # f PROVE FlowShape(g)'
    BY <1>1, <2>2, <2>6 DEF IInv, Shape, FlowShape, At, Enrolled
  <2>7. ASSUME mishaps' = {} PROVE Kept'
    <3> SUFFICES ASSUME NEW k \in Keys, device[k].state = "trusted",
                        k # flow[f].key
                 PROVE  InHand(k)'
      BY <1>1, <1>5 DEF Kept
    <3>1. Kept /\ QuietFlow(f) /\ Authorized
      BY <1>1, <2>7, ClickedFacts DEF IInv, QuietInv
    <3>2. k # record
      BY <1>1, <3>1, NoneIsNoKey DEF QuietFlow
    <3>3. PICK g \in Flows : flow[g].pc \in Held /\ flow[g].key = k
      BY <3>1, <3>2 DEF Kept, InHand, Held
    <3> QED
      BY <2>2, <3>3 DEF InHand, Held
  <2> QED
    BY <1>1, <1>2, <2>1, <2>3, <2>4, <2>5, <2>6, <2>7, EnrolmentStep
<1>6. CASE UNCHANGED record /\ Goto(f, "compensate")
  <2>1. PICK r \in Flow : /\ flow' = [flow EXCEPT ![f] = r]
                          /\ flow'[f] = r
                          /\ r.pc = "compensate"
                          /\ r.clicked = flow[f].clicked
                          /\ r.key = flow[f].key
                          /\ r.session = flow[f].session
    BY <1>6, GotoIs DEF IInv, PCs
  <2>2. FlowShape(f)'
    BY <1>1, <2>1, ClickedFacts
    DEF FlowShape, At, Rebinding, Held, Fresh, Enrolling, Signed, Enrolled
  <2>3. Calm' => CalmFlow(f)'
    BY <1>1, <1>2, <1>4, <2>1, ClickedFacts, MishapsGrow
    DEF CalmFlow, At, Rebinding, Held, Fresh, Signed
  <2>4. mishaps' = {} => QuietFlow(f)'
    BY <1>1, <1>4, <1>6, <2>1
    DEF IInv, QuietInv, QuietFlow, Enrolling, Held, Fresh
  <2>5. r.pc \in Held /\ r.pc \notin Fresh
    BY <2>1 DEF Held, Fresh
  <2> QED
    BY <1>1, <1>2, <1>6, <2>1, <2>2, <2>3, <2>4, <2>5, SameSessions,
       ClickedFacts, FlowMoves
    DEF IInv
<1> QED
  BY <1>5, <1>6 DEF Write

\* A revocation changes devices and sessions in one direction.
LEMMA RevokeFacts ==
  ASSUME TypeOK, NEW k \in Keys, Revoke(k)
  PROVE  /\ device' \in [Keys -> DeviceRow]
         /\ session' \in [Sessions -> SessionRow]
         /\ device'[k].state = "revoked"
         /\ \A j \in Keys : /\ device'[j].owner = device[j].owner
                            /\ j # k => device'[j] = device[j]
<1>1. device \in [Keys -> DeviceRow] /\ session \in [Sessions -> SessionRow]
  BY DEF TypeOK
<1>2. [device[k] EXCEPT !.state = "revoked"] \in DeviceRow
        /\ [device[k] EXCEPT !.state = "revoked"].owner = device[k].owner
        /\ [device[k] EXCEPT !.state = "revoked"].state = "revoked"
  BY <1>1 DEF DeviceRow
<1>3. device' = [device EXCEPT ![k] = [device[k] EXCEPT !.state = "revoked"]]
  BY <1>1 DEF Revoke
<1>4. \A s \in Sessions : [session[s] EXCEPT !.state = "ended"] \in SessionRow
  BY <1>1 DEF SessionRow
<1>5. session' \in [Sessions -> SessionRow]
  BY <1>1, <1>4 DEF Revoke
<1> QED
  BY <1>1, <1>2, <1>3, <1>5

\* What a flow holds stays what it is when an existing device is revoked.
LEMMA RevokeKeepsShape ==
  ASSUME TypeOK, user' = user, NEW k \in Keys, Revoke(k),
         device[k].state # "absent",
         NEW g \in Flows, FlowShape(g), flow'[g] = flow[g]
  PROVE  FlowShape(g)'
<1>1. flow[g].key \in Keys =>
        /\ device'[flow[g].key].owner = device[flow[g].key].owner
        /\ Enrolled(flow[g].key) => Enrolled(flow[g].key)'
        /\ device[flow[g].key].state = "absent" =>
             device'[flow[g].key].state = "absent"
  BY RevokeFacts DEF Enrolled
<1> QED
  BY <1>1 DEF FlowShape, At, Enrolled

LEMMA CompensateStep ==
  ASSUME IInv, NEW f \in Flows, Compensate(f)
  PROVE  IInv'
<1>1. /\ flow[f].pc \in Enrolling /\ At(f, "compensate")
      /\ flow[f].pc \in Held /\ flow[f].pc \in Signed
      /\ UNCHANGED <<record, cookie, user, mishaps>> /\ End(f)
  BY DEF Compensate, At, Enrolling, Held, Signed
<1>2. mishaps \subseteq mishaps' /\ mishaps' \subseteq Mishaps
  BY <1>1 DEF IInv, TypeOK
<1>3. /\ flow[f].key \in Keys /\ flow[f].session \in Sessions
      /\ Enrolled(flow[f].key)
      /\ device[flow[f].key].owner = user[flow[f].session]
  BY <1>1, ClickedFacts DEF FlowShape
<1>4. CASE /\ ~(Owns(flow[f].key) /\ device[flow[f].key].state # "revoked")
           /\ UNCHANGED <<session, device>>
  <2>1. mishaps' = {} => device[flow[f].key].state # "trusted"
    BY <1>1, <1>3, <1>4, ClickedFacts DEF Owns
  <2> QED
    BY <1>1, <1>2, <1>4, <2>1, SameSessions, ClickedFacts, EndKeeps DEF IInv
<1>5. CASE Revoke(flow[f].key)
  <2>1. PICK r \in Flow : /\ flow' = [flow EXCEPT ![f] = r]
                          /\ flow'[f] = r
                          /\ r.pc = "idle"
                          /\ r.clicked = FALSE
    BY <1>1, EndIs DEF IInv
  <2>2. \A g \in Flows : g # f => flow'[g] = flow[g]
    BY <2>1 DEF IInv, TypeOK
  <2>3. /\ device' \in [Keys -> DeviceRow]
        /\ session' \in [Sessions -> SessionRow]
        /\ device'[flow[f].key].state = "revoked"
        /\ \A j \in Keys : j # flow[f].key => device'[j] = device[j]
    BY <1>3, <1>5, RevokeFacts DEF IInv
  <2>4. TypeOK'
    BY <1>1, <2>1, <2>3 DEF IInv, TypeOK
  <2>5. FlowShape(f)' /\ CalmFlow(f)' /\ QuietFlow(f)'
    BY <2>1
    DEF FlowShape, CalmFlow, QuietFlow, At, Rebinding, Held, Fresh, Enrolling,
        Signed
  <2>6. KeysDiffer'
    BY <2>1, <2>2 DEF IInv, Shape, KeysDiffer, Fresh
  <2>7. ASSUME NEW g \in Flows, g # f PROVE FlowShape(g)'
    BY <1>1, <1>3, <1>5, <2>2, <2>7, RevokeKeepsShape DEF IInv, Shape, Enrolled
  <2>8. ASSUME mishaps' = {} PROVE Kept'
    <3> SUFFICES ASSUME NEW k \in Keys, device'[k].state = "trusted",
                        k # record
                 PROVE  InHand(k)'
      BY <1>1 DEF Kept
    <3>1. k # flow[f].key /\ device[k].state = "trusted"
      BY <2>3
    <3>2. PICK g \in Flows : flow[g].pc \in Held /\ flow[g].key = k
      BY <1>1, <2>8, <3>1 DEF IInv, QuietInv, Kept, InHand, Held
    <3> QED
      BY <2>2, <3>1, <3>2 DEF InHand, Held
  <2> QED
    BY <1>1, <1>2, <2>1, <2>4, <2>5, <2>6, <2>7, <2>8, EnrolmentStep
<1> QED
  BY <1>4, <1>5 DEF Compensate

LEMMA FaultStep ==
  ASSUME IInv, NEW f \in Flows, CallFails(f) \/ ClosePage(f)
  PROVE  IInv'
<1>1. /\ UNCHANGED <<record, cookie, session, user, device>>
      /\ UnderWay(f)
      /\ mishaps' = {} => ~flow[f].clicked
  BY DEF CallFails, ClosePage, Calls, UnderWay, At, NoteIfClicked
<1>2. mishaps \subseteq mishaps' /\ mishaps' \subseteq Mishaps
  BY DEF CallFails, ClosePage, NoteIfClicked, IInv, TypeOK, Mishaps
<1>3. flow[f].pc \in Held => flow[f].clicked
  BY DEF IInv, Shape, FlowShape, Enrolling
<1>4. CASE End(f)
  BY <1>1, <1>2, <1>3, <1>4, SameSessions, EndKeeps DEF IInv
<1>5. CASE flow[f].pc \in Rebinding /\ Unbound(f)
  BY <1>1, <1>2, <1>5, SameSessions, UnboundKeeps DEF IInv
<1> QED
  BY <1>4, <1>5 DEF CallFails, ClosePage, OnError, Rebinding
-----------------------------------------------------------------------------
(* The gateway, other browsers and the clock. *)

\* When sessions change, every flow is idle or the calm is over.
LEMMA SessionsChange ==
  ASSUME IInv, UNCHANGED <<record, flow>>, NoteSession, TypeOK', CookieShape',
         \A f \in Flows : FlowShape(f)', Kept => Kept'
  PROVE  IInv'
<1>1. mishaps \subseteq mishaps'
  BY DEF NoteSession
<1>2. Shape'
  BY DEF IInv, Shape, KeysDiffer
<1>3. ASSUME Calm', NEW f \in Flows
      PROVE  At(f, "idle")' /\ ~flow'[f].clicked
  <2>1. At(f, "idle")
    BY <1>3 DEF NoteSession, Calm, UnderWay
  <2> QED
    BY <2>1 DEF At, IInv, Shape, FlowShape
<1>4. ASSUME Calm', NEW f \in Flows
      PROVE  CalmFlow(f)' /\ QuietFlow(f)'
  BY <1>3, <1>4
  DEF CalmFlow, QuietFlow, At, Rebinding, Held, Fresh, Enrolling, Signed
<1>5. Calm' => CalmInv'
  BY <1>3, <1>4 DEF CalmInv, Alone, UnderWay
<1>6. mishaps' = {} => QuietInv'
  BY <1>1, <1>4, MishapsGrow DEF Calm, QuietInv, IInv
<1> QED
  BY <1>2, <1>5, <1>6 DEF IInv

LEMMA GatewayStep ==
  ASSUME IInv,
         \/ \E s \in Sessions, u \in Users : Login(s, u)
         \/ \E s \in Sessions : SessionExpires(s)
         \/ Logout
  PROVE  IInv'
<1>1. /\ UNCHANGED <<record, flow, device>> /\ NoteSession
      /\ cookie' \in Sessions \cup {None}
  BY DEF Login, SessionExpires, Logout, IInv, TypeOK
<1>2. mishaps' \subseteq Mishaps
  BY <1>1 DEF NoteSession, IInv, TypeOK, Mishaps
<1>3. session' \in [Sessions -> SessionRow]
  <2>1. session \in [Sessions -> SessionRow]
    BY DEF IInv, TypeOK
  <2>2. ASSUME NEW s \in Sessions, NEW x \in {"active", "ended"}
        PROVE  [session EXCEPT ![s].state = x] \in [Sessions -> SessionRow]
    <3>1. [session[s] EXCEPT !.state = x] \in SessionRow
      BY <2>1 DEF SessionRow
    <3> QED
      BY <2>1, <3>1
  <2> QED
    BY <2>2 DEF Login, SessionExpires, Logout, IInv, TypeOK
<1>5. /\ user' \in [Sessions -> Users \cup {None}]
      /\ \A s \in Sessions : user[s] # None => user'[s] = user[s]
      /\ CookieShape'
  <2>1. ASSUME NEW s \in Sessions, NEW u \in Users, Login(s, u)
        PROVE  /\ user' \in [Sessions -> Users \cup {None}]
               /\ \A t \in Sessions : user[t] # None => user'[t] = user[t]
               /\ CookieShape'
    BY <2>1, NoneIsNoKey DEF Login, IInv, TypeOK, CookieShape
  <2>2. CASE \E s \in Sessions : SessionExpires(s)
    BY <2>2 DEF SessionExpires, IInv, TypeOK, Shape, CookieShape
  <2>3. CASE Logout
    BY <2>3 DEF Logout, IInv, TypeOK, CookieShape
  <2> QED
    BY <2>1, <2>2, <2>3
<1>6. TypeOK'
  BY <1>1, <1>2, <1>3, <1>5 DEF IInv, TypeOK
<1>7. ASSUME NEW f \in Flows PROVE FlowShape(f)'
  <2>1. FlowShape(f) /\ flow[f] = flow'[f]
    BY <1>1 DEF IInv, Shape
  <2>2. flow[f].pc \in Held => flow[f].pc \in Signed
    BY DEF Held, Signed
  <2> QED
    BY <1>1, <1>5, <2>1, <2>2 DEF FlowShape, At, Enrolled
<1>8. Kept => Kept'
  BY <1>1 DEF Kept, InHand
<1> QED
  BY <1>1, <1>5, <1>6, <1>7, <1>8, SessionsChange

LEMMA RevokeElsewhereStep ==
  ASSUME IInv, NEW k \in Keys, RevokeElsewhere(k)
  PROVE  IInv'
<1>1. /\ Revoke(k) /\ device[k].state # "absent"
      /\ UNCHANGED <<record, cookie, user, flow>>
      /\ IF session' = session THEN UNCHANGED mishaps ELSE NoteSession
  BY DEF RevokeElsewhere
<1>2. TypeOK /\ Shape /\ (Calm => CalmInv) /\ (mishaps = {} => QuietInv)
  BY DEF IInv
<1>3. /\ device' \in [Keys -> DeviceRow]
      /\ session' \in [Sessions -> SessionRow]
      /\ device'[k].state = "revoked"
      /\ \A j \in Keys : /\ device'[j].owner = device[j].owner
                         /\ j # k => device'[j] = device[j]
  BY <1>1, <1>2, RevokeFacts
<1>4. mishaps' \subseteq Mishaps
  BY <1>1, <1>2 DEF NoteSession, TypeOK, Mishaps
<1>5. TypeOK'
  BY <1>1, <1>2, <1>3, <1>4 DEF TypeOK
<1>6. \A f \in Flows : FlowShape(f)'
  BY <1>1, <1>2, RevokeKeepsShape DEF Shape
<1>7. Kept => Kept'
  BY <1>1, <1>3 DEF Kept, InHand
<1>8. CASE session' # session
  BY <1>1, <1>2, <1>5, <1>6, <1>7, <1>8, SessionsChange DEF Shape, CookieShape
<1>9. CASE session' = session
  <2>1. UNCHANGED mishaps /\ (Authorized' <=> Authorized)
    BY <1>1, <1>9 DEF Authorized
  <2>2. Shape'
    BY <1>1, <1>2, <1>6 DEF Shape, KeysDiffer, CookieShape
  <2>3. Calm' => CalmInv'
    <3> SUFFICES ASSUME Calm' PROVE CalmInv'
      OBVIOUS
    <3>1. CalmInv
      BY <1>2, <2>1 DEF Calm
    <3>2. ASSUME NEW f \in Flows PROVE CalmFlow(f)'
      <4>1. CalmFlow(f) /\ FlowShape(f)
        BY <1>2, <3>1 DEF CalmInv, Shape
      <4>2. At(f, "clear") => flow[f].key \in Keys
        BY <4>1 DEF FlowShape, At, Rebinding
      <4> QED
        BY <1>1, <1>3, <2>1, <4>1, <4>2 DEF CalmFlow, At
    <3> QED
      BY <1>1, <3>1, <3>2 DEF CalmInv, Alone, UnderWay, At
  <2>4. mishaps' = {} => QuietInv'
    <3> SUFFICES ASSUME mishaps' = {} PROVE QuietInv'
      OBVIOUS
    <3>1. QuietInv
      BY <1>2, <2>1
    <3>2. ASSUME NEW f \in Flows PROVE QuietFlow(f)'
      <4>1. record # None => record \in Keys
        BY <1>2 DEF TypeOK
      <4> QED
        BY <1>1, <1>3, <2>1, <3>1, <4>1 DEF QuietInv, QuietFlow
    <3> QED
      BY <1>7, <3>1, <3>2 DEF QuietInv
  <2> QED
    BY <1>5, <2>2, <2>3, <2>4 DEF IInv
<1> QED
  BY <1>8, <1>9
-----------------------------------------------------------------------------
(* The theorems. *)

LEMMA StutterStep == IInv /\ UNCHANGED vars => IInv'
  BY DEF IInv, vars, TypeOK, Shape, CookieShape, FlowShape, KeysDiffer, Calm,
         CalmInv, Alone, CalmFlow, QuietInv, QuietFlow, Kept, InHand, At, UnderWay, Enrolled,
         Authorized

LEMMA NextStep == IInv /\ [Next]_vars => IInv'
<1> SUFFICES ASSUME IInv, [Next]_vars PROVE IInv'
  OBVIOUS
<1>1. ASSUME NEW f \in Flows, Step(f) PROVE IInv'
  BY <1>1, BeginStep, ReadStep, BindChallengeStep, BindCompleteStep, BindStep,
     ClearStep, EnrollChallengeStep, EnrollCompleteStep, TrustStep,
     EnrollBindStep, WriteStep, CompensateStep, FaultStep
  DEF Step
<1>2. CASE Environment
  BY <1>2, GatewayStep, RevokeElsewhereStep DEF Environment
<1> QED
  BY <1>1, <1>2, StutterStep DEF Next

\* The inductive invariant holds in every state (the flows of the browser, the
\* handlers and the environment).
THEOREM Invariance == Spec => []IInv
  BY InitInv, NextStep, PTL DEF Spec

\* Type correctness, for every number of flows, keys, sessions and users.
THEOREM Typing == Spec => []TypeOK
<1>1. IInv => TypeOK
  BY DEF IInv
<1> QED
  BY <1>1, Invariance, PTL

\* No key of a trusted device is lost, but for the mishaps that are named
\* (enrollThisDevice, bindStoredDevice).
THEOREM KeysAreKept == Spec => []TrustedKeysAreKept
<1>1. IInv => TrustedKeysAreKept
  BY DEF IInv, QuietInv, Kept, TrustedKeysAreKept
<1> QED
  BY <1>1, Invariance, PTL

\* Only Clear removes the record.
LEMMA OnlyClearRemoves ==
  ASSUME IInv, Next, record # None, record' = None
  PROVE  \E f \in Flows : Clear(f)
<1>1. ASSUME NEW f \in Flows, Write(f) PROVE record' # None
  <2>1. flow[f].key \in Keys
    BY <1>1 DEF Write, IInv, Shape, FlowShape, At, Held
  <2> QED
    BY <1>1, <2>1, NoneIsNoKey DEF Write
<1> QED
  BY <1>1
  DEF Next, Step, Environment, PageLoad, Click, ReadExisting, ReadStored,
      BindChallenge, BindComplete, Bind, EnrollChallenge, EnrollComplete,
      Trust, EnrollBind, Compensate, CallFails, ClosePage, Login, Logout,
      SessionExpires, RevokeElsewhere

\* The browser deletes a usable key in the three situations named only
\* (bindStoredDevice: 404 and 409 clear).
THEOREM UsableKeysStay == Spec => UsableKeysAreNotCleared
<1> DEFINE A == record # None /\ record' = None
                  /\ device[record].state = "trusted" =>
                  mishaps \cap {"overlap", "expired", "session"} # {}
<1>1. IInv /\ [Next]_vars => [A]_vars
  <2> SUFFICES ASSUME IInv, Next, record # None, record' = None,
                      device[record].state = "trusted"
               PROVE  mishaps \cap {"overlap", "expired", "session"} # {}
    OBVIOUS
  <2>1. PICK f \in Flows : Clear(f)
    BY OnlyClearRemoves
  <2>2. At(f, "clear") /\ flow[f].pc \in Rebinding
    BY <2>1 DEF Clear, At, Rebinding
  <2>3. Calm => record = flow[f].key /\ device[record].state = "revoked"
    BY <2>2, RebindingFacts DEF IInv, CalmInv, CalmFlow
  <2> QED
    BY <2>3 DEF Calm
<1> QED
  BY <1>1, Invariance, PTL DEF Spec, UsableKeysAreNotCleared
=============================================================================
