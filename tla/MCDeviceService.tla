-------------------------- MODULE MCDeviceService --------------------------
(***************************************************************************)
(* Instances of DeviceService for TLC.                                     *)
(***************************************************************************)
EXTENDS DeviceService, FiniteSets, TLC

CONSTANTS i1, i2, s1, s2, c1, c2, c3

\* Two browsers signed in as one user.
OneIdentity == s1 :> i1 @@ s2 :> i1

\* Two users, one session each.
TwoIdentities == s1 :> i1 @@ s2 :> i2

\* One session.
OneSession == s1 :> i1

Symmetry ==
  Permutations(Requests) \cup Permutations(Challenges)
    \cup Permutations(Sessions)

\* Two users change places together with their sessions.
UserSymmetry ==
  Permutations(Requests) \cup Permutations(Keys) \cup Permutations({c1, c2})
    \cup {i1 :> i2 @@ i2 :> i1 @@ s1 :> s2 @@ s2 :> s1}
-----------------------------------------------------------------------------
(***************************************************************************)
(* Three small instances in one run, in place of the one that has all of   *)
(* them: two users and one key, with nothing that expires; one user whose  *)
(* session moves between two keys; the same with a third challenge and one *)
(* request at a time.                                                      *)
(***************************************************************************)
UsedSessions   == {s \in Sessions : session[s].state # "none"}
UsedChallenges == {c \in Challenges : challenge[c].state # "none"}

UsedKeys ==
  {k \in Keys : \/ \E d \in Devices : KeyOf(d) = k /\ device[d] # "absent"
              \/ \E r \in Requests : \/ req[r].signer = k
                                     \/ req[r].device \in Identities \X {k}}

Busy == {r \in Requests : ~At(r, "idle")}

NothingExpired ==
  /\ \A s \in Sessions : session[s].expires = "ahead"
  /\ \A c \in Challenges : challenge[c].state # "expired"

TwoUsers ==
  /\ Cardinality(UsedKeys) <= 1
  /\ Cardinality(UsedChallenges) <= 2
  /\ NothingExpired

TwoKeys ==
  /\ Cardinality(UsedSessions) <= 1
  /\ Cardinality(UsedChallenges) <= 2 \/ Cardinality(Busy) <= 1

TwoUsersOrTwoKeys == TwoUsers \/ TwoKeys

\* The third challenge comes after the first two, which the symmetry does not
\* tell apart.
ThirdIsLast == c3 \in UsedChallenges => {c1, c2} \subseteq UsedChallenges
=============================================================================
