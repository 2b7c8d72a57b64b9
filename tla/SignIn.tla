------------------------------- MODULE SignIn -------------------------------
(***************************************************************************)
(* What the login promises, with no provider, no calls and no failures: a  *)
(* session is opened for a subject who authorised this very login, and a   *)
(* login opens one session at most.                                        *)
(***************************************************************************)
CONSTANTS Logins, Subjects, Sessions, None

VARIABLES
  authorised,   \* pairs of a login and a subject who authorised it
  session       \* for each session id: None, or whom it is for

vars == <<authorised, session>>

Init == authorised = {} /\ session = [id \in Sessions |-> None]

Authorise(l, s) ==
  /\ authorised' = authorised \cup {<<l, s>>}
  /\ UNCHANGED session

Open(id, l, s) ==
  /\ session[id] = None
  /\ <<l, s>> \in authorised
  /\ \A other \in Sessions : session[other] # None => session[other].login # l
  /\ session' = [session EXCEPT ![id] =
                   [login |-> l, subject |-> s, state |-> "active"]]
  /\ UNCHANGED authorised

End(id) ==
  /\ session[id] # None /\ session[id].state = "active"
  /\ session' = [session EXCEPT ![id].state = "ended"]
  /\ UNCHANGED authorised

Next ==
  \/ \E l \in Logins, s \in Subjects :
       Authorise(l, s) \/ \E id \in Sessions : Open(id, l, s)
  \/ \E id \in Sessions : End(id)

Spec == Init /\ [][Next]_vars
=============================================================================
