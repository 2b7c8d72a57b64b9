----------------------------- MODULE Onboarding -----------------------------
(***************************************************************************)
(* The onboarding ceremony of the gateway: advance_onboarding and          *)
(* reset_onboarding on the ceremony the process serves, and the table      *)
(* onboarding_ceremony, or process memory when no database is configured.  *)
(* get_onboarding only reads; current_step and state are functions of      *)
(* completed_steps, and the other columns are written as constants.        *)
(***************************************************************************)
EXTENDS Naturals, Sequences

CONSTANTS
  Ceremonies,   \* ceremony ids (UUIDv7, never reused)
  Total,        \* length of onboarding_template
  Required,     \* indexes of the steps that cannot be skipped
  Gateways,     \* gateway processes
  Requests,     \* concurrent requests
  None

ASSUME OnboardingAssumption ==
  /\ Total \in Nat \ {0}
  /\ Required \subseteq 0..(Total - 1)
  /\ None \notin Ceremonies \cup Gateways \cup Nat
       \cup Seq([step : 0..(Total - 1), skipped : BOOLEAN])

VARIABLES
  durable,   \* AppState.store: whether the gateways are started with a database
  row,       \* completed_steps of authlink.onboarding_ceremony
  current,   \* AppState.ceremony of each gateway
  req,       \* the requests in progress
  ledger     \* history: the advances accepted for each ceremony

vars == <<durable, row, current, req, ledger>>

Steps == 0..(Total - 1)

Accepted == [step : Steps, skipped : BOOLEAN]

CeremonyState == [id : Ceremonies, completed : 0..Total]

Request ==
  [pc : {"idle", "snapshot", "load", "write", "reset", "install"},
   gateway : Gateways \cup {None}, step : Steps \cup {None}, skip : BOOLEAN,
   id : Ceremonies \cup {None}, completed : (0..Total) \cup {None}]

Idle == [pc |-> "idle", gateway |-> None, step |-> None, skip |-> FALSE,
         id |-> None, completed |-> None]

\* An id no ceremony has had.
Fresh(c) == ledger[c] = None

\* Every gateway serves a ceremony of its own.
Init ==
  \E first \in [Gateways -> Ceremonies] :
    LET begun == {first[g] : g \in Gateways} IN
    /\ durable \in BOOLEAN
    /\ \A g, h \in Gateways : first[g] = first[h] => g = h
    /\ current = [g \in Gateways |-> [id |-> first[g], completed |-> 0]]
    /\ row = [c \in Ceremonies |-> IF durable /\ c \in begun THEN 0 ELSE None]
    /\ ledger = [c \in Ceremonies |-> IF c \in begun THEN <<>> ELSE None]
    /\ req = [r \in Requests |-> Idle]

\* The type of the table, the processes, the requests and the history.
TypeOK ==
  /\ durable \in BOOLEAN
  /\ row \in [Ceremonies -> (0..Total) \cup {None}]
  /\ current \in [Gateways -> CeremonyState]
  /\ req \in [Requests -> Request]
  /\ ledger \in [Ceremonies -> Seq(Accepted) \cup {None}]
-----------------------------------------------------------------------------
Answer(r) == req' = [req EXCEPT ![r] = Idle]

\* Defect variant: any step may be skipped.
AdmissibleSkipped(q) == q.completed < Total /\ q.step = q.completed

\* The next step of the ceremony, and skipped only when it is optional.
Admissible(q) ==
  /\ q.completed < Total
  /\ q.step = q.completed
  /\ q.skip => q.step \notin Required

\* advance_onboarding once it has its snapshot: a request that is not
\* admissible is answered already-complete, 409 or 422.
Decide(r, q) ==
  req' = [req EXCEPT ![r] = IF Admissible(q) THEN [q EXCEPT !.pc = "write"]
                                             ELSE Idle]

ReceiveAdvance(r) ==
  /\ req[r].pc = "idle"
  /\ \E g \in Gateways, s \in Steps, skip \in BOOLEAN :
       req' = [req EXCEPT ![r] =
                 [Idle EXCEPT !.pc = "snapshot", !.gateway = g,
                              !.step = s, !.skip = skip]]
  /\ UNCHANGED <<row, current, ledger>>

\* local_ceremony: without a database it is the whole snapshot.
LocalCeremony(r) ==
  LET local == current[req[r].gateway] IN
  /\ req[r].pc = "snapshot"
  /\ \/ /\ durable
        /\ req' = [req EXCEPT ![r].pc = "load", ![r].id = local.id]
     \/ /\ ~durable
        /\ Decide(r, [req[r] EXCEPT !.id = local.id,
                                    !.completed = local.completed])
  /\ UNCHANGED <<row, current, ledger>>

LoadCeremony(r) ==
  /\ req[r].pc = "load"
  /\ Decide(r, [req[r] EXCEPT !.completed = row[req[r].id]])
  /\ UNCHANGED <<row, current, ledger>>

\* What an accepted advance adds to the history of its ceremony.
Record(r) ==
  ledger' = [ledger EXCEPT ![req[r].id] =
               Append(@, [step |-> req[r].step, skipped |-> req[r].skip])]

\* Defect variant: the clause compares the id only and the counter is
\* incremented in place.
IncrementInPlace(r) ==
  /\ req[r].pc = "write" /\ durable
  /\ row' = [row EXCEPT ![req[r].id] = @ + 1]
  /\ Record(r)
  /\ Answer(r)
  /\ UNCHANGED current

\* Defect variant: the clause compares the id only.
AdvanceUnconditionally(r) ==
  /\ req[r].pc = "write" /\ durable
  /\ row' = [row EXCEPT ![req[r].id] = req[r].completed + 1]
  /\ Record(r)
  /\ Answer(r)
  /\ UNCHANGED current

\* advance_ceremony: the optimistic write; 409 when the clause finds no row.
AdvanceCeremony(r) ==
  /\ req[r].pc = "write" /\ durable
  /\ \/ /\ row[req[r].id] = req[r].completed
        /\ row' = [row EXCEPT ![req[r].id] = req[r].completed + 1]
        /\ Record(r)
     \/ /\ row[req[r].id] # req[r].completed
        /\ UNCHANGED <<row, ledger>>
  /\ Answer(r)
  /\ UNCHANGED current

\* Defect variant: a ceremony that was reset meanwhile is not noticed.
UnchangedProgress(r, local) == local.completed = req[r].completed

\* Defect variant: another advance of the same step is not noticed.
UnchangedId(r, local) == local.id = req[r].id

\* The comparison without a database, under the lock of the ceremony.
Unchanged(r, local) == local.id = req[r].id /\ local.completed = req[r].completed

AdvanceLocal(r) ==
  LET g == req[r].gateway IN
  /\ req[r].pc = "write" /\ ~durable
  /\ \/ /\ Unchanged(r, current[g])
        /\ current' = [current EXCEPT ![g].completed = req[r].completed + 1]
        /\ Record(r)
     \/ /\ ~Unchanged(r, current[g])
        /\ UNCHANGED <<current, ledger>>
  /\ Answer(r)
  /\ UNCHANGED row
-----------------------------------------------------------------------------
ReceiveReset(r) ==
  /\ req[r].pc = "idle"
  /\ \E g \in Gateways :
       req' = [req EXCEPT ![r] = [Idle EXCEPT !.pc = "reset", !.gateway = g]]
  /\ UNCHANGED <<row, current, ledger>>

Begin(c) == ledger' = [ledger EXCEPT ![c] = <<>>]

\* ensure_ceremony: the insert; what is read back is not used.
EnsureCeremony(c) == row' = [row EXCEPT ![c] = IF durable THEN 0 ELSE None]

Serve(g, c) == current' = [current EXCEPT ![g] = [id |-> c, completed |-> 0]]

\* reset_onboarding with a database: the row first, then the process.
ResetStored(r) ==
  /\ req[r].pc = "reset" /\ durable
  /\ \E c \in Ceremonies :
       /\ Fresh(c) /\ Begin(c) /\ EnsureCeremony(c)
       /\ req' = [req EXCEPT ![r].pc = "install", ![r].id = c]
  /\ UNCHANGED current

InstallCeremony(r) ==
  /\ req[r].pc = "install"
  /\ Serve(req[r].gateway, req[r].id)
  /\ Answer(r)
  /\ UNCHANGED <<row, ledger>>

\* reset_onboarding without one.
ResetLocal(r) ==
  /\ req[r].pc = "reset" /\ ~durable
  /\ \E c \in Ceremonies : Fresh(c) /\ Begin(c) /\ Serve(req[r].gateway, c)
  /\ Answer(r)
  /\ UNCHANGED row

\* A failed call or a cancelled handler.
Fail(r) ==
  /\ req[r].pc # "idle"
  /\ Answer(r)
  /\ UNCHANGED <<row, current, ledger>>

\* A gateway stops with its requests and starts with a ceremony of its own.
Restart(g) ==
  /\ req' = [r \in Requests |-> IF req[r].gateway = g THEN Idle ELSE req[r]]
  /\ \E c \in Ceremonies : Fresh(c) /\ Begin(c) /\ EnsureCeremony(c) /\ Serve(g, c)

Next ==
  /\ \/ \E r \in Requests :
          \/ ReceiveAdvance(r) \/ LocalCeremony(r) \/ LoadCeremony(r)
          \/ AdvanceCeremony(r) \/ AdvanceLocal(r)
          \/ ReceiveReset(r) \/ ResetStored(r) \/ InstallCeremony(r)
          \/ ResetLocal(r) \/ Fail(r)
     \/ \E g \in Gateways : Restart(g)
  /\ UNCHANGED durable

Spec == Init /\ [][Next]_vars
-----------------------------------------------------------------------------
\* The progress a gateway shows is the number of advances it accepted: no
\* race of advances, resets and restarts counts one twice or loses one.
ProgressCountsAdvances ==
  /\ durable => \A c \in Ceremonies :
       IF ledger[c] = None THEN row[c] = None ELSE row[c] = Len(ledger[c])
  /\ ~durable => \A g \in Gateways :
       /\ ledger[current[g].id] # None
       /\ current[g].completed = Len(ledger[current[g].id])

\* Without a database an advance is accepted only for the ceremony its gateway
\* serves at that moment, never for one that a reset has replaced.
AcceptedAdvanceIsCurrent ==
  [][\A c \in Ceremonies :
       ~durable /\ ledger[c] # None /\ ledger'[c] # ledger[c]
         => \E g \in Gateways : current[g].id = c]_vars

\* The ceremony is shown as completed, by its row or by a process.
ShownCompleted(c) ==
  \/ durable /\ row[c] = Total
  \/ ~durable /\ \E g \in Gateways : current[g] = [id |-> c, completed |-> Total]

\* A ceremony that is shown as completed has had every required step accepted,
\* none of them as skipped, although only a counter is kept.
CompletedCeremonyIsDone ==
  \A c \in Ceremonies : ShownCompleted(c) =>
    \A s \in Required : \E i \in 1..Len(ledger[c]) :
      ledger[c][i] = [step |-> s, skipped |-> FALSE]

Promise == INSTANCE Ceremony

\* Accepted advances work through a checklist: in order, each step once, none
\* skipped that is required, whatever overlaps.
ImplementsCeremony == Promise!Spec
=============================================================================
