--------------------------- MODULE DeviceAssurance ---------------------------
(***************************************************************************)
(* What the device service promises a user, with no challenges, no calls,  *)
(* no tuples and no failures: a session is bound to a device that signed   *)
(* for it and was trusted when the bind was admitted; a revocation ends    *)
(* the sessions that are bound to the device when it begins to, and what   *)
(* was admitted before its end is all that may still be bound after it.    *)
(***************************************************************************)
CONSTANTS
  Sessions, Devices, None,
  Own   \* the pairs of a session and a device of the same user

VARIABLES
  state,     \* of each session: none, active, ended
  bound,     \* of each session: its device
  trust,     \* of each device: no, trusted, revoked
  signed,    \* the pairs of a session and a device that signed for it
  admitted,  \* the binds that are allowed and not made yet
  closing,   \* the devices whose revocation has begun to end sessions
  doomed     \* the pairs of a session and a device whose revocation ends it

vars == <<state, bound, trust, signed, admitted, closing, doomed>>

Init ==
  /\ state = [s \in Sessions |-> "none"]
  /\ bound = [s \in Sessions |-> None]
  /\ trust = [d \in Devices |-> "no"]
  /\ signed = {} /\ admitted = {} /\ closing = {} /\ doomed = {}

Open(s) ==
  /\ state[s] = "none"
  /\ state' = [state EXCEPT ![s] = "active"]
  /\ UNCHANGED <<bound, trust, signed, admitted, closing, doomed>>

\* A logout; the device of the session stays on record.
Close(s) ==
  /\ state[s] = "active"
  /\ state' = [state EXCEPT ![s] = "ended"]
  /\ UNCHANGED <<bound, trust, signed, admitted, closing, doomed>>

\* Once a session exists, also after its end.
Sign(s, d) ==
  /\ <<s, d>> \in Own
  /\ state[s] # "none"
  /\ signed' = signed \cup {<<s, d>>}
  /\ UNCHANGED <<state, bound, trust, admitted, closing, doomed>>

Trust(d) ==
  /\ trust[d] = "no"
  /\ \E s \in Sessions : <<s, d>> \in signed
  /\ trust' = [trust EXCEPT ![d] = "trusted"]
  /\ UNCHANGED <<state, bound, signed, admitted, closing, doomed>>

Admit(s, d) ==
  /\ state[s] = "active"
  /\ trust[d] = "trusted"
  /\ <<s, d>> \in signed
  /\ admitted' = admitted \cup {<<s, d>>}
  /\ UNCHANGED <<state, bound, trust, signed, closing, doomed>>

\* What was admitted is made, once or once more, or never.
Bind(s, d) ==
  /\ <<s, d>> \in admitted
  /\ state[s] = "active"
  /\ bound' = [bound EXCEPT ![s] = d]
  /\ admitted' \in {admitted, admitted \ {<<s, d>>}}
  /\ UNCHANGED <<state, trust, signed, closing, doomed>>

Withdraw(s, d) ==
  /\ admitted' = admitted \ {<<s, d>>}
  /\ UNCHANGED <<state, bound, trust, signed, closing, doomed>>

\* A revocation settles which sessions it will end...
Begin(d) ==
  /\ d \notin closing /\ trust[d] # "revoked"
  /\ closing' = closing \cup {d}
  /\ doomed' = doomed \cup
       ({s \in Sessions : bound[s] = d /\ state[s] = "active"} \X {d})
  /\ UNCHANGED <<state, bound, trust, signed, admitted>>

\* ...but for one that has ended by itself or has gone to another device...
Spare(s, d) ==
  /\ bound[s] # d \/ state[s] # "active"
  /\ doomed' = doomed \ {<<s, d>>}
  /\ UNCHANGED <<state, bound, trust, signed, admitted, closing>>

\* ...and ends them and the trust in the device together...
Revoke(d) ==
  /\ d \in closing
  /\ trust' = [trust EXCEPT ![d] = "revoked"]
  /\ state' = [s \in Sessions |->
                 IF <<s, d>> \in doomed /\ bound[s] = d /\ state[s] = "active"
                 THEN "ended" ELSE state[s]]
  /\ closing' = closing \ {d}
  /\ doomed' = doomed \ (Sessions \X {d})
  /\ UNCHANGED <<bound, signed, admitted>>

\* ...or neither.
Abandon(d) ==
  /\ closing' = closing \ {d}
  /\ doomed' = doomed \ (Sessions \X {d})
  /\ UNCHANGED <<state, bound, trust, signed, admitted>>

Next ==
  \/ \E s \in Sessions :
       \/ Open(s) \/ Close(s)
       \/ \E d \in Devices :
            \/ Sign(s, d) \/ Admit(s, d) \/ Bind(s, d) \/ Withdraw(s, d)
            \/ Spare(s, d)
  \/ \E d \in Devices : Trust(d) \/ Begin(d) \/ Revoke(d) \/ Abandon(d)

Spec == Init /\ [][Next]_vars
=============================================================================
