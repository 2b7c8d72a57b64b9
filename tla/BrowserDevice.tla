---------------------------- MODULE BrowserDevice ----------------------------
(***************************************************************************)
(* The key a browser keeps for its device (apps/web/src/device-trust.ts)   *)
(* against the device service.  A flow is one run of bindStoredDevice that *)
(* a page load starts, or of enrollThisDevice that a click starts; several *)
(* run at once, in several tabs or in one.  All share one IndexedDB record *)
(* and one session cookie, and hold what they read across their awaits.    *)
(*                                                                         *)
(* A handler of the device service is a step here, or two or three where   *)
(* it reads what another request may change before it writes; DeviceService*)
(* has it call by call.  A device is named by its key: enrolments are of   *)
(* fresh keys, and the record keeps key and device id together.            *)
(***************************************************************************)
EXTENDS Naturals

CONSTANTS
  Flows,     \* runs that may be under way at once
  Keys,      \* the keys that are ever generated
  Sessions,  \* session ids the gateway hands out
  Users,
  None

ASSUME BrowserAssumption == None \notin Keys \cup Sessions \cup Users

VARIABLES
  record,    \* the key in IndexedDB
  cookie,    \* the session id the browser sends
  session,   \* authlink.session: its state and the device it is bound to
  user,      \* authlink.session: the user each one was created for
  device,    \* authlink.trusted_device: its state and its owner
  flow,      \* the flows under way
  mishaps    \* history: what went wrong around them

vars == <<record, cookie, session, user, device, flow, mishaps>>

PCs == {"idle", "existing", "read", "bind_challenge", "bind_complete",
        "binding", "clear", "enroll_challenge", "enroll_complete", "trust",
        "enroll_bind", "write", "compensate"}

Flow == [pc : PCs, clicked : BOOLEAN, key : Keys \cup {None},
         session : Sessions \cup {None}]

SessionRow == [state : {"none", "active", "ended"}, device : Keys \cup {None}]

DeviceRow == [state : {"absent", "pending", "trusted", "revoked"},
              owner : Users \cup {None}]

Mishaps == {"overlap", "failure", "expired", "session", "closed", "shared"}

Idle == [pc |-> "idle", clicked |-> FALSE, key |-> None, session |-> None]

Init ==
  /\ record = None /\ cookie = None
  /\ session = [s \in Sessions |-> [state |-> "none", device |-> None]]
  /\ user = [s \in Sessions |-> None]
  /\ device = [k \in Keys |-> [state |-> "absent", owner |-> None]]
  /\ flow = [f \in Flows |-> Idle]
  /\ mishaps = {}
-----------------------------------------------------------------------------
At(f, pc)    == flow[f].pc = pc
UnderWay(f)  == ~At(f, "idle")
Goto(f, pc)  == flow' = [flow EXCEPT ![f].pc = pc]
End(f)       == flow' = [flow EXCEPT ![f] = Idle]
Note(m)      == mishaps' = mishaps \cup {m}

\* A mishap only where it happens to an enrolment.
NoteIfClicked(f, m) ==
  mishaps' = IF flow[f].clicked THEN mishaps \cup {m} ELSE mishaps

\* authorize_identity: the cookie names a session that is active.
Authorized == cookie # None /\ session[cookie].state = "active"

\* check_device_relation: the caller owns the device (else 403).
Owns(k) == Authorized /\ device[k].owner = user[cookie]

\* current_session of list_devices, for a trusted device.
SessionTrusted ==
  /\ Authorized
  /\ session[cookie].device # None
  /\ device[session[cookie].device].state = "trusted"

\* bindStoredDevice returns without trust: the end of a page load, while an
\* enrolment goes on to a new key.
Unbound(f) ==
  IF flow[f].clicked
  THEN flow' = [flow EXCEPT ![f] = [Idle EXCEPT !.pc = "enroll_challenge",
                                                !.clicked = TRUE]]
  ELSE End(f)

\* revoke_trusted_device: the device and the active sessions bound to it.
Revoke(k) ==
  /\ device' = [device EXCEPT ![k].state = "revoked"]
  /\ session' = [s \in Sessions |->
                   IF session[s].device = k /\ session[s].state = "active"
                   THEN [session[s] EXCEPT !.state = "ended"] ELSE session[s]]
-----------------------------------------------------------------------------
(* Flows begin. *)

\* Root and DeviceTrustBanner re-bind when the session is not trusted yet.
PageLoad(f) ==
  /\ At(f, "idle")
  /\ Authorized /\ ~SessionTrusted
  /\ flow' = [flow EXCEPT ![f].pc = "read"]
  /\ mishaps' = IF \E g \in Flows : flow[g].clicked
                THEN mishaps \cup {"overlap"} ELSE mishaps
  /\ UNCHANGED <<record, cookie, session, user, device>>

\* The button of a banner that may be out of date.
Click(f) ==
  /\ At(f, "idle")
  /\ flow' = [flow EXCEPT ![f].pc = "existing", ![f].clicked = TRUE]
  /\ mishaps' = mishaps
       \cup {m \in {"overlap"} : \E g \in Flows : UnderWay(g)}
       \cup {m \in {"shared"} :
               /\ record # None /\ cookie # None
               /\ device[record].owner # user[cookie]}
  /\ UNCHANGED <<record, cookie, session, user, device>>

\* enrollThisDevice looks for a record...
ReadExisting(f) ==
  /\ At(f, "existing")
  /\ Goto(f, IF record = None THEN "enroll_challenge" ELSE "read")
  /\ UNCHANGED <<record, cookie, session, user, device, mishaps>>

\* ...and bindStoredDevice reads it again.  Without one it asks whether the
\* session is trusted (the list may fail, and then counts as no).
ReadStored(f) ==
  /\ At(f, "read")
  /\ \/ /\ record # None
        /\ flow' = [flow EXCEPT ![f].pc = "bind_challenge", ![f].key = record]
     \/ record = None /\ SessionTrusted /\ End(f)
     \/ record = None /\ Unbound(f)
  /\ UNCHANGED <<record, cookie, session, user, device, mishaps>>
-----------------------------------------------------------------------------
(* Re-binding. *)

\* load_owned_device answers 401 or 403, 404, or goes on.
Refused(f) == ~Owns(flow[f].key)
Gone(f)    == Owns(flow[f].key) /\ device[flow[f].key].state # "trusted"
Found(f)   == Owns(flow[f].key) /\ device[flow[f].key].state = "trusted"

\* Defect variant: whatever the error, the key is cleared.
OnRefusalCleared(f) == Goto(f, "clear")

\* 401, 403: the key is kept.
OnRefusal(f) == Unbound(f)

BindChallenge(f) ==
  /\ At(f, "bind_challenge")
  /\ \/ Refused(f) /\ OnRefusal(f)
     \/ Gone(f) /\ Goto(f, "clear")
     \/ Found(f) /\ flow' = [flow EXCEPT ![f].pc = "bind_complete",
                                         ![f].session = cookie]
  /\ UNCHANGED <<record, cookie, session, user, device, mishaps>>

\* bind_complete up to the challenge it consumes: one of another session, or
\* one older than its time to live, is answered 409.
BindComplete(f) ==
  /\ At(f, "bind_complete")
  /\ \/ Refused(f) /\ OnRefusal(f) /\ UNCHANGED mishaps
     \/ Gone(f) /\ Goto(f, "clear") /\ UNCHANGED mishaps
     \/ /\ Found(f)
        /\ Goto(f, IF flow[f].session = cookie THEN "binding" ELSE "clear")
        /\ UNCHANGED mishaps
     \/ Found(f) /\ Goto(f, "clear") /\ Note("expired")
  /\ UNCHANGED <<record, cookie, session, user, device>>

\* bind_session for the session the request came with: 409 when the session or
\* the device changed meanwhile.
Bind(f) ==
  /\ At(f, "binding")
  /\ \/ /\ session[flow[f].session].state = "active"
        /\ device[flow[f].key].state = "trusted"
        /\ session' = [session EXCEPT ![flow[f].session].device = flow[f].key]
        /\ \/ End(f) /\ UNCHANGED mishaps
           \/ Unbound(f) /\ NoteIfClicked(f, "failure")
     \/ /\ \/ session[flow[f].session].state # "active"
           \/ device[flow[f].key].state # "trusted"
        /\ Goto(f, "clear")
        /\ UNCHANGED <<session, mishaps>>
  /\ UNCHANGED <<record, cookie, user, device>>

\* clearStoredDevice deletes the record, whatever it holds by now; when the
\* deletion fails the flow ends there.
Clear(f) ==
  /\ At(f, "clear")
  /\ \/ record' = None /\ Unbound(f)
     \/ UNCHANGED record /\ End(f)
  /\ UNCHANGED <<cookie, session, user, device, mishaps>>
-----------------------------------------------------------------------------
(* Enrolment. *)

\* A fresh key, and a challenge for it.
EnrollChallenge(f) ==
  /\ At(f, "enroll_challenge")
  /\ \/ /\ Authorized
        /\ \E k \in Keys :
             /\ device[k].state = "absent"
             /\ \A g \in Flows : flow[g].key # k
             /\ flow' = [flow EXCEPT ![f].pc = "enroll_complete",
                                     ![f].key = k, ![f].session = cookie]
     \/ ~Authorized /\ End(f)
  /\ UNCHANGED <<record, cookie, session, user, device, mishaps>>

\* Defect variant: the key is stored before the service has enrolled it.
EnrollCompleteStoresFirst(f) ==
  /\ At(f, "enroll_complete")
  /\ \/ Authorized /\ flow[f].session = cookie /\ Goto(f, "write")
     \/ End(f)
  /\ UNCHANGED <<record, cookie, session, user, device, mishaps>>

\* enroll_complete consumes a challenge of this session; it answers 401 or 409
\* without one, or to one too old.
EnrollComplete(f) ==
  /\ At(f, "enroll_complete")
  /\ \/ Authorized /\ flow[f].session = cookie /\ Goto(f, "trust")
     \/ End(f)
  /\ UNCHANGED <<record, cookie, session, user, device, mishaps>>

\* upsert_unrevoked_device and mark_device_trusted; between them the owner
\* tuple may fail.
Trust(f) ==
  LET Row(state) == [device EXCEPT ![flow[f].key] =
        [state |-> state, owner |-> user[flow[f].session]]] IN
  /\ At(f, "trust")
  /\ \/ device' = Row("trusted") /\ Goto(f, "enroll_bind")
     \/ device' = Row("pending") /\ End(f)
  /\ UNCHANGED <<record, cookie, session, user, mishaps>>

EnrollBind(f) ==
  /\ At(f, "enroll_bind")
  /\ IF /\ session[flow[f].session].state = "active"
        /\ device[flow[f].key].state = "trusted"
     THEN /\ session' = [session EXCEPT
               ![flow[f].session].device = flow[f].key]
          /\ Goto(f, "write")
     ELSE End(f) /\ UNCHANGED session
  /\ UNCHANGED <<record, cookie, user, device, mishaps>>

\* writeStoredDevice replaces the record, or fails.
Write(f) ==
  /\ At(f, "write")
  /\ \/ record' = flow[f].key /\ End(f)
     \/ UNCHANGED record /\ Goto(f, "compensate")
  /\ UNCHANGED <<cookie, session, user, device, mishaps>>

\* Defect variant: a key that could not be stored is left as it is.
CompensateNothing(f) ==
  /\ At(f, "compensate")
  /\ End(f)
  /\ UNCHANGED <<record, cookie, session, user, device, mishaps>>

\* The device of a key that could not be stored is revoked, if the service
\* still takes the session for one of its owner.
Compensate(f) ==
  /\ At(f, "compensate")
  /\ End(f)
  /\ IF Owns(flow[f].key) /\ device[flow[f].key].state # "revoked"
     THEN Revoke(flow[f].key) ELSE UNCHANGED <<session, device>>
  /\ UNCHANGED <<record, cookie, user, mishaps>>
-----------------------------------------------------------------------------
(* What goes wrong. *)

\* A flow may be waiting for a call (at "write" for the answer to the last).
Calls == {"bind_challenge", "bind_complete", "binding", "enroll_challenge",
          "enroll_complete", "trust", "enroll_bind", "write", "compensate"}

\* The flow goes on as after any error: while it re-binds, without trust;
\* later, it ends.
OnError(f) ==
  IF flow[f].pc \in {"bind_challenge", "bind_complete", "binding"}
  THEN Unbound(f) ELSE End(f)

\* A call fails, or its answer is lost before the browser has it.
CallFails(f) ==
  /\ flow[f].pc \in Calls
  /\ OnError(f)
  /\ NoteIfClicked(f, "failure")
  /\ UNCHANGED <<record, cookie, session, user, device>>

\* The page of a flow is closed or reloaded, or cannot read IndexedDB.
ClosePage(f) ==
  /\ UnderWay(f)
  /\ End(f)
  /\ NoteIfClicked(f, "closed")
  /\ UNCHANGED <<record, cookie, session, user, device>>
-----------------------------------------------------------------------------
(* The gateway, other browsers and the clock. *)

NoteSession ==
  mishaps' = IF \E f \in Flows : UnderWay(f)
             THEN mishaps \cup {"session"} ELSE mishaps

\* The callback of a login sets the cookie; a session it replaces stays.
Login(s, u) ==
  /\ user[s] = None
  /\ session' = [session EXCEPT ![s].state = "active"]
  /\ user' = [user EXCEPT ![s] = u]
  /\ cookie' = s
  /\ NoteSession
  /\ UNCHANGED <<record, device, flow>>

\* A logout in any tab removes the cookie and ends the session, unless the
\* database fails: the answer is the same.
Logout ==
  /\ cookie # None
  /\ session' \in {session, [session EXCEPT ![cookie].state = "ended"]}
  /\ cookie' = None
  /\ NoteSession
  /\ UNCHANGED <<record, device, flow, user>>

SessionExpires(s) ==
  /\ session[s].state = "active"
  /\ session' = [session EXCEPT ![s].state = "ended"]
  /\ NoteSession
  /\ UNCHANGED <<record, cookie, user, device, flow>>

\* The owner revokes the device with another browser.
RevokeElsewhere(k) ==
  /\ device[k].state \in {"pending", "trusted"}
  /\ Revoke(k)
  /\ IF session' = session THEN UNCHANGED mishaps ELSE NoteSession
  /\ UNCHANGED <<record, cookie, user, flow>>

Step(f) ==
  \/ PageLoad(f) \/ Click(f) \/ ReadExisting(f) \/ ReadStored(f)
  \/ BindChallenge(f) \/ BindComplete(f) \/ Bind(f) \/ Clear(f)
  \/ EnrollChallenge(f) \/ EnrollComplete(f) \/ Trust(f) \/ EnrollBind(f)
  \/ Write(f) \/ Compensate(f) \/ CallFails(f) \/ ClosePage(f)

Environment ==
  \/ \E s \in Sessions, u \in Users : Login(s, u)
  \/ \E s \in Sessions : SessionExpires(s)
  \/ Logout
  \/ \E k \in Keys : RevokeElsewhere(k)

Next == (\E f \in Flows : Step(f)) \/ Environment

Spec == Init /\ [][Next]_vars
-----------------------------------------------------------------------------
(* What the browser promises. *)

\* The type of every variable; a stored key is one that was enrolled.
TypeOK ==
  /\ record \in Keys \cup {None}
  /\ record # None => device[record].state \in {"trusted", "revoked"}
  /\ cookie \in Sessions \cup {None}
  /\ session \in [Sessions -> SessionRow]
  /\ user \in [Sessions -> Users \cup {None}]
  /\ device \in [Keys -> DeviceRow]
  /\ flow \in [Flows -> Flow]
  /\ mishaps \subseteq Mishaps

\* The key a flow has enrolled and not stored yet.
InHand(k) ==
  \E f \in Flows : /\ flow[f].pc \in {"enroll_bind", "write", "compensate"}
                   /\ flow[f].key = k

(***************************************************************************)
(* No key of a trusted device is lost by enrolments, re-bindings, logins   *)
(* and logouts one after the other, revocations by other browsers, page    *)
(* loads in several tabs and a storage that refuses to write.  What can    *)
(* lose one is named: an enrolment beside another flow, one of whose calls *)
(* fails, whose page is closed or that another user starts; a challenge    *)
(* too old; a session that changes during a flow (enrollThisDevice,        *)
(* bindStoredDevice).                                                      *)
(***************************************************************************)
TrustedKeysAreKept ==
  mishaps = {} =>
    \A k \in Keys : device[k].state = "trusted" => k = record \/ InHand(k)

\* The browser deletes a usable key in three situations only: beside an
\* enrolment, after a challenge too old, and when the session changed under a
\* flow.  Failed calls, closed pages and other users' sessions make it delete
\* none (bindStoredDevice clears on 404 and 409).
UsableKeysAreNotCleared ==
  [][record # None /\ record' = None /\ device[record].state = "trusted" =>
       mishaps \cap {"overlap", "expired", "session"} # {}]_vars
=============================================================================
