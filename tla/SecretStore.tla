---------------------------- MODULE SecretStore ----------------------------
(***************************************************************************)
(* What the vault promises a user, with no keys, no rotation and no        *)
(* concurrency: a secret that was stored stays readable and with its owner *)
(* until it is deleted, and never comes back after that.                   *)
(***************************************************************************)
CONSTANTS Identities, Items, None

VARIABLE secret   \* for each item: its state and its owner

Absent == [state |-> "absent", owner |-> None]

Init == secret = [i \in Items |-> Absent]

Store(u, i) ==
  /\ secret[i] = Absent
  /\ secret' = [secret EXCEPT ![i] = [state |-> "readable", owner |-> u]]

Delete(u, i) ==
  /\ secret[i] = [state |-> "readable", owner |-> u]
  /\ secret' = [secret EXCEPT ![i] = [state |-> "deleted", owner |-> u]]

Next == \E u \in Identities, i \in Items : Store(u, i) \/ Delete(u, i)

Spec == Init /\ [][Next]_secret
=============================================================================
