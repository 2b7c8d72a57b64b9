------------------------------ MODULE Ceremony ------------------------------
(***************************************************************************)
(* What onboarding promises, with no gateway, no database and no           *)
(* concurrency: each ceremony is a checklist worked through in the order   *)
(* of the template, every step once, and only optional steps skipped.      *)
(***************************************************************************)
EXTENDS Naturals, Sequences

CONSTANTS Ceremonies, Total, Required, None

VARIABLE ledger   \* for each ceremony: None, or its accepted steps in order

Init ==
  \E begun \in SUBSET Ceremonies :
    ledger = [c \in Ceremonies |-> IF c \in begun THEN <<>> ELSE None]

Begin(c) ==
  /\ ledger[c] = None
  /\ ledger' = [ledger EXCEPT ![c] = <<>>]

Complete(c, skipped) ==
  /\ ledger[c] # None
  /\ Len(ledger[c]) < Total
  /\ skipped => Len(ledger[c]) \notin Required
  /\ ledger' = [ledger EXCEPT ![c] =
       Append(@, [step |-> Len(ledger[c]), skipped |-> skipped])]

Next ==
  \E c \in Ceremonies : Begin(c) \/ \E skipped \in BOOLEAN : Complete(c, skipped)

Spec == Init /\ [][Next]_ledger
=============================================================================
