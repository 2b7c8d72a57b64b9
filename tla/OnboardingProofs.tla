-------------------------- MODULE OnboardingProofs --------------------------
(***************************************************************************)
(* Theorems about Onboarding for every template, every set of ceremonies,  *)
(* gateways and requests, with and without a database.                     *)
(***************************************************************************)
EXTENDS Onboarding, TLAPS

\* A ceremony has begun; with a database this is having a row.
Begun(c) == c \in Ceremonies /\ ledger[c] # None

\* What the handler of a request has established by its next call.
RequestOK(q) ==
  /\ q.pc # "idle" => q.gateway \in Gateways
  /\ q.pc \in {"snapshot", "load", "write"} => q.step \in Steps
  /\ q.pc \in {"load", "write", "install"} => Begun(q.id)
  /\ q.pc \in {"load", "install"} => durable
  /\ q.pc = "write" => q.completed \in 0..Total /\ Admissible(q)

\* Every request in progress.
RequestInv == \A r \in Requests : RequestOK(req[r])

\* A gateway serves a ceremony that has begun, and without a database no other
\* gateway serves it.
CurrentInv ==
  /\ \A g \in Gateways : Begun(current[g].id)
  /\ ~durable => \A g, h \in Gateways : current[g].id = current[h].id => g = h

\* The inductive invariant.
IInv == TypeOK /\ RequestInv /\ CurrentInv /\ ProgressCountsAdvances
-----------------------------------------------------------------------------
\* None is not a counter, a ceremony or a gateway.
LEMMA NoneApart ==
  None \notin Ceremonies /\ None \notin Gateways /\ None \notin 0..Total
    /\ None \notin Seq(Accepted) /\ Total \in Nat /\ Total > 0
  BY OnboardingAssumption DEF Accepted, Steps

\* A ledger without entries.
LEMMA EmptyLedger == <<>> \in Seq(Accepted) /\ Len(<<>>) = 0 /\ <<>> # None
  <1>1. <<>> \in Seq(Accepted)
    OBVIOUS
  <1>2. Len(<<>>) = 0
    OBVIOUS
  <1>3. \A l \in Seq(Accepted) : l # None
    BY NoneApart
  <1> QED
    BY <1>1, <1>2, <1>3

\* An idle slot has the type of a request and nothing to establish.
LEMMA IdleOK == Idle \in Request /\ RequestOK(Idle)
  BY DEF Idle, Request, RequestOK

\* Each gateway starts with a ceremony of its own.
LEMMA InitIInv == Init => IInv
  <1> SUFFICES ASSUME Init PROVE IInv
    OBVIOUS
  <1>1. PICK first \in [Gateways -> Ceremonies] :
          /\ durable \in BOOLEAN
          /\ \A g, h \in Gateways : first[g] = first[h] => g = h
          /\ current = [g \in Gateways |-> [id |-> first[g], completed |-> 0]]
          /\ row = [c \in Ceremonies |->
                      IF durable /\ c \in {first[g] : g \in Gateways}
                        THEN 0 ELSE None]
          /\ ledger = [c \in Ceremonies |->
                         IF c \in {first[g] : g \in Gateways}
                           THEN <<>> ELSE None]
          /\ req = [r \in Requests |-> Idle]
    BY DEF Init
  <1>2. <<>> \in Seq(Accepted) /\ Len(<<>>) = 0 /\ <<>> # None
    BY EmptyLedger
  <1>3. TypeOK
    BY <1>1, <1>2, IdleOK, NoneApart DEF TypeOK, CeremonyState
  <1>4. RequestInv
    BY <1>1, IdleOK DEF RequestInv
  <1>5. \A g \in Gateways : /\ current[g].id = first[g]
                            /\ current[g].completed = 0
                            /\ ledger[first[g]] = <<>>
    BY <1>1
  <1>6. CurrentInv
    BY <1>1, <1>2, <1>5 DEF CurrentInv, Begun
  <1>7. ProgressCountsAdvances
    BY <1>1, <1>2, <1>5 DEF ProgressCountsAdvances
  <1> QED
    BY <1>3, <1>4, <1>6, <1>7 DEF IInv

\* A step of one request that touches nothing else.
LEMMA RequestStep ==
  ASSUME IInv, durable' = durable, NEW r \in Requests, NEW q \in Request, RequestOK(q),
         req' = [req EXCEPT ![r] = q], UNCHANGED <<row, current, ledger>>
  PROVE  IInv'
  <1>1. /\ req' \in [Requests -> Request]
        /\ \A s \in Requests : req'[s] = IF s = r THEN q ELSE req[s]
    BY DEF IInv, TypeOK
  <1>2. RequestInv'
    <2> SUFFICES ASSUME NEW s \in Requests PROVE RequestOK(req[s])'
      BY DEF RequestInv
    <2>1. RequestOK(req[s])
      BY DEF IInv, RequestInv
    <2> QED
      BY <1>1, <2>1 DEF RequestOK, Begun, Admissible
  <1>3. CurrentInv' /\ ProgressCountsAdvances'
    BY DEF IInv, CurrentInv, Begun, ProgressCountsAdvances
  <1> QED
    BY <1>1, <1>2, <1>3 DEF IInv, TypeOK

\* Deciding on a snapshot leads to an admissible write or to the answer.
LEMMA DecideStep ==
  ASSUME IInv, durable' = durable, NEW r \in Requests, NEW q \in Request, Decide(r, q),
         q.gateway \in Gateways, q.step \in Steps, Begun(q.id),
         q.completed \in 0..Total,
         UNCHANGED <<row, current, ledger>>
  PROVE  IInv'
  <1>1. CASE ~Admissible(q)
    BY <1>1, IdleOK, RequestStep DEF Decide
  <1>2. CASE Admissible(q)
    <2> DEFINE w == [q EXCEPT !.pc = "write"]
    <2>1. /\ w \in Request /\ w.pc = "write" /\ w.gateway = q.gateway
          /\ w.step = q.step /\ w.skip = q.skip /\ w.id = q.id
          /\ w.completed = q.completed
      BY DEF Request
    <2>2. req' = [req EXCEPT ![r] = w]
      BY <1>2 DEF Decide
    <2> HIDE DEF w
    <2>3. RequestOK(w)
      BY <1>2, <2>1 DEF RequestOK, Admissible
    <2> QED
      BY <2>1, <2>2, <2>3, RequestStep
  <1> QED
    BY <1>1, <1>2

\* An advance arrives.
LEMMA ReceiveAdvanceStep ==
  ASSUME IInv, durable' = durable, NEW r \in Requests, ReceiveAdvance(r)
  PROVE  IInv'
  <1>1. PICK g \in Gateways, s \in Steps, skip \in BOOLEAN :
          req' = [req EXCEPT ![r] =
                    [Idle EXCEPT !.pc = "snapshot", !.gateway = g,
                                 !.step = s, !.skip = skip]]
    BY DEF ReceiveAdvance
  <1> DEFINE q == [Idle EXCEPT !.pc = "snapshot", !.gateway = g,
                               !.step = s, !.skip = skip]
  <1>2. q \in Request /\ q.pc = "snapshot" /\ q.gateway = g /\ q.step = s
    BY DEF Idle, Request
  <1>3. RequestOK(q)
    BY <1>2 DEF RequestOK
  <1> QED
    BY <1>1, <1>2, <1>3, RequestStep DEF ReceiveAdvance

\* A reset arrives.
LEMMA ReceiveResetStep ==
  ASSUME IInv, durable' = durable, NEW r \in Requests, ReceiveReset(r)
  PROVE  IInv'
  <1>1. PICK g \in Gateways :
          req' = [req EXCEPT ![r] = [Idle EXCEPT !.pc = "reset", !.gateway = g]]
    BY DEF ReceiveReset
  <1> DEFINE q == [Idle EXCEPT !.pc = "reset", !.gateway = g]
  <1>2. q \in Request /\ q.pc = "reset" /\ q.gateway = g
    BY DEF Idle, Request
  <1>3. RequestOK(q)
    BY <1>2 DEF RequestOK
  <1> QED
    BY <1>1, <1>2, <1>3, RequestStep DEF ReceiveReset

\* The local snapshot.
LEMMA LocalCeremonyStep ==
  ASSUME IInv, durable' = durable, NEW r \in Requests, LocalCeremony(r)
  PROVE  IInv'
  <1> DEFINE local == current[req[r].gateway]
  <1>1. /\ req[r] \in Request /\ req[r].pc = "snapshot"
        /\ req[r].gateway \in Gateways /\ req[r].step \in Steps
    BY DEF LocalCeremony, IInv, TypeOK, RequestInv, RequestOK
  <1>2. local \in CeremonyState /\ Begun(local.id)
    BY <1>1 DEF IInv, TypeOK, CurrentInv
  <1>3. local.id \in Ceremonies /\ local.completed \in 0..Total
    BY <1>2 DEF CeremonyState
  <1> HIDE DEF local
  <1>4. CASE durable /\ req' = [req EXCEPT ![r].pc = "load", ![r].id = local.id]
    <2> DEFINE q == [[req[r] EXCEPT !.pc = "load"] EXCEPT !.id = local.id]
    <2>1. /\ q \in Request /\ q.pc = "load" /\ q.id = local.id
          /\ q.gateway = req[r].gateway /\ q.step = req[r].step
      BY <1>1, <1>3 DEF Request
    <2>2. req' = [req EXCEPT ![r] = q]
      BY <1>4 DEF IInv, TypeOK
    <2> HIDE DEF q
    <2>3. RequestOK(q)
      BY <1>1, <1>2, <1>4, <2>1 DEF RequestOK
    <2> QED
      BY <2>1, <2>2, <2>3, RequestStep DEF LocalCeremony
  <1>5. CASE Decide(r, [req[r] EXCEPT !.id = local.id,
                                      !.completed = local.completed])
    <2> DEFINE q == [req[r] EXCEPT !.id = local.id,
                                   !.completed = local.completed]
    <2>1. /\ q \in Request /\ q.id = local.id /\ q.completed = local.completed
          /\ q.gateway = req[r].gateway /\ q.step = req[r].step
      BY <1>1, <1>3 DEF Request
    <2>2. Decide(r, q)
      BY <1>5
    <2> HIDE DEF q
    <2> QED
      BY <1>1, <1>2, <1>3, <2>1, <2>2, DecideStep DEF LocalCeremony
  <1> QED
    BY <1>4, <1>5 DEF LocalCeremony, local

\* The row is read.
LEMMA LoadCeremonyStep ==
  ASSUME IInv, durable' = durable, NEW r \in Requests, LoadCeremony(r)
  PROVE  IInv'
  <1>1. /\ req[r] \in Request /\ req[r].pc = "load" /\ Begun(req[r].id) /\ durable
        /\ req[r].gateway \in Gateways /\ req[r].step \in Steps
    BY DEF LoadCeremony, IInv, TypeOK, RequestInv, RequestOK
  <1>2. row[req[r].id] \in 0..Total
    <2>1. req[r].id \in Ceremonies /\ ledger[req[r].id] # None
      BY <1>1 DEF Begun
    <2>2. ledger[req[r].id] \in Seq(Accepted)
      BY <2>1 DEF IInv, TypeOK
    <2>3. row[req[r].id] = Len(ledger[req[r].id]) /\ Len(ledger[req[r].id]) \in Nat
      BY <1>1, <2>1, <2>2 DEF IInv, ProgressCountsAdvances
    <2>4. None \notin Nat
      BY OnboardingAssumption
    <2> QED
      BY <2>1, <2>3, <2>4 DEF IInv, TypeOK
  <1> DEFINE q == [req[r] EXCEPT !.completed = row[req[r].id]]
  <1>3. /\ q \in Request /\ q.id = req[r].id /\ q.completed = row[req[r].id]
        /\ q.gateway = req[r].gateway /\ q.step = req[r].step
    BY <1>1, <1>2 DEF Request
  <1>4. Decide(r, q) /\ UNCHANGED <<row, current, ledger>>
    BY DEF LoadCeremony
  <1> HIDE DEF q
  <1> QED
    BY <1>1, <1>2, <1>3, <1>4, DecideStep
-----------------------------------------------------------------------------
\* A request that ends after a step in which ceremonies only begin or advance.
LEMMA AnswerStep ==
  ASSUME IInv, durable' = durable, NEW r \in Requests, Answer(r),
         \A c \in Ceremonies : Begun(c) => Begun(c)'
  PROVE  RequestInv' /\ req' \in [Requests -> Request]
  <1>1. /\ req' \in [Requests -> Request]
        /\ \A s \in Requests : req'[s] = IF s = r THEN Idle ELSE req[s]
    BY IdleOK DEF Answer, IInv, TypeOK
  <1>2. ASSUME NEW s \in Requests PROVE RequestOK(req[s])'
    <2>1. RequestOK(req[s])
      BY DEF IInv, RequestInv
    <2> QED
      BY <1>1, <2>1, IdleOK DEF RequestOK, Begun, Admissible, Idle
  <1> QED
    BY <1>1, <1>2 DEF RequestInv

\* The entry an accepted advance adds.
LEMMA RecordStep ==
  ASSUME IInv, NEW r \in Requests, Record(r), req[r].pc = "write"
  PROVE  /\ Begun(req[r].id)
         /\ ledger' \in [Ceremonies -> Seq(Accepted) \cup {None}]
         /\ ledger'[req[r].id] # None
         /\ Len(ledger[req[r].id]) \in Nat
         /\ Len(ledger'[req[r].id]) = Len(ledger[req[r].id]) + 1
         /\ \A c \in Ceremonies : c # req[r].id => ledger'[c] = ledger[c]
         /\ \A c \in Ceremonies : Begun(c) => Begun(c)'
  <1> DEFINE i == req[r].id
             entry == [step |-> req[r].step, skipped |-> req[r].skip]
  <1>1. Begun(i) /\ req[r].step \in Steps /\ req[r] \in Request
    BY DEF IInv, TypeOK, RequestInv, RequestOK
  <1>2. entry \in Accepted
    BY <1>1 DEF Accepted, Request
  <1>3. i \in Ceremonies /\ ledger[i] # None
    BY <1>1 DEF Begun
  <1>4. ledger[i] \in Seq(Accepted)
    BY <1>3 DEF IInv, TypeOK
  <1>5. ledger' = [ledger EXCEPT ![i] = Append(ledger[i], entry)]
    BY DEF Record
  <1> HIDE DEF entry, i
  <1>6. /\ Append(ledger[i], entry) \in Seq(Accepted)
        /\ Len(Append(ledger[i], entry)) = Len(ledger[i]) + 1
        /\ Len(ledger[i]) \in Nat
    BY <1>2, <1>4
  <1>7. Append(ledger[i], entry) # None
    BY <1>6, NoneApart
  <1>8. /\ ledger' \in [Ceremonies -> Seq(Accepted) \cup {None}]
        /\ ledger'[i] = Append(ledger[i], entry)
        /\ \A c \in Ceremonies : c # i => ledger'[c] = ledger[c]
    BY <1>3, <1>5, <1>6 DEF IInv, TypeOK
  <1>9. \A c \in Ceremonies : Begun(c) => Begun(c)'
    BY <1>7, <1>8 DEF Begun
  <1> QED
    BY <1>1, <1>6, <1>7, <1>8, <1>9 DEF i

\* The empty ledger of a ceremony that begins.
LEMMA BeginStep ==
  ASSUME IInv, NEW c \in Ceremonies, Begin(c)
  PROVE  /\ ledger' \in [Ceremonies -> Seq(Accepted) \cup {None}]
         /\ ledger'[c] # None
         /\ Len(ledger'[c]) = 0
         /\ \A b \in Ceremonies : b # c => ledger'[b] = ledger[b]
         /\ \A b \in Ceremonies : Begun(b) => Begun(b)'
  <1>1. /\ ledger' \in [Ceremonies -> Seq(Accepted) \cup {None}]
        /\ ledger'[c] = <<>>
        /\ \A b \in Ceremonies : b # c => ledger'[b] = ledger[b]
    BY EmptyLedger DEF Begin, IInv, TypeOK
  <1> QED
    BY <1>1, EmptyLedger DEF Begun

\* The optimistic write: the counter and the ledger grow together.
LEMMA AdvanceCeremonyStep ==
  ASSUME IInv, durable' = durable, NEW r \in Requests, AdvanceCeremony(r)
  PROVE  IInv'
  <1> DEFINE i == req[r].id
  <1>1. req[r].pc = "write" /\ durable /\ Answer(r) /\ current' = current
    BY DEF AdvanceCeremony
  <1>2. CASE UNCHANGED <<row, ledger>>
    BY <1>1, <1>2, IdleOK, RequestStep DEF Answer
  <1>3. CASE /\ row[i] = req[r].completed
             /\ row' = [row EXCEPT ![i] = req[r].completed + 1]
             /\ Record(r)
    <2>1. /\ Begun(i)
          /\ ledger' \in [Ceremonies -> Seq(Accepted) \cup {None}]
          /\ ledger'[i] # None
          /\ Len(ledger[i]) \in Nat
          /\ Len(ledger'[i]) = Len(ledger[i]) + 1
          /\ \A c \in Ceremonies : c # i => ledger'[c] = ledger[c]
          /\ \A c \in Ceremonies : Begun(c) => Begun(c)'
      BY <1>1, <1>3, RecordStep
    <2>2. req[r].completed \in 0..Total /\ req[r].completed < Total
      BY <1>1 DEF IInv, RequestInv, RequestOK, Admissible
    <2>3. i \in Ceremonies /\ row[i] = Len(ledger[i])
      BY <1>1, <2>1 DEF Begun, IInv, ProgressCountsAdvances
    <2> HIDE DEF i
    <2>4. /\ row'[i] = Len(ledger'[i])
          /\ row' \in [Ceremonies -> (0..Total) \cup {None}]
          /\ \A c \in Ceremonies : c # i => row'[c] = row[c]
      BY <1>3, <2>1, <2>2, <2>3, NoneApart DEF IInv, TypeOK
    <2>5. RequestInv' /\ req' \in [Requests -> Request]
      BY <1>1, <2>1, AnswerStep
    <2>6. TypeOK'
      BY <1>1, <2>1, <2>4, <2>5 DEF IInv, TypeOK
    <2>7. CurrentInv'
      <3>1. \A g \in Gateways : Begun(current[g].id) /\ current'[g] = current[g]
        BY <1>1 DEF IInv, CurrentInv
      <3>2. \A g \in Gateways : Begun(current[g].id)'
        BY <2>1, <3>1 DEF Begun
      <3> QED
        BY <1>1, <3>1, <3>2 DEF IInv, CurrentInv
    <2>8. ProgressCountsAdvances'
      BY <1>1, <2>1, <2>3, <2>4 DEF IInv, ProgressCountsAdvances
    <2> QED
      BY <2>5, <2>6, <2>7, <2>8 DEF IInv
  <1> QED
    BY <1>2, <1>3 DEF AdvanceCeremony

\* The comparison under the lock: the process and the ledger grow together.
LEMMA AdvanceLocalStep ==
  ASSUME IInv, durable' = durable, NEW r \in Requests, AdvanceLocal(r)
  PROVE  IInv'
  <1> DEFINE i == req[r].id
             g == req[r].gateway
  <1>1. req[r].pc = "write" /\ ~durable /\ Answer(r) /\ row' = row
    BY DEF AdvanceLocal
  <1>2. CASE UNCHANGED <<current, ledger>>
    BY <1>1, <1>2, IdleOK, RequestStep DEF Answer
  <1>3. CASE /\ Unchanged(r, current[g])
             /\ current' = [current EXCEPT ![g].completed = req[r].completed + 1]
             /\ Record(r)
    <2>1. /\ Begun(i)
          /\ ledger' \in [Ceremonies -> Seq(Accepted) \cup {None}]
          /\ ledger'[i] # None
          /\ Len(ledger[i]) \in Nat
          /\ Len(ledger'[i]) = Len(ledger[i]) + 1
          /\ \A c \in Ceremonies : c # i => ledger'[c] = ledger[c]
          /\ \A c \in Ceremonies : Begun(c) => Begun(c)'
      BY <1>1, <1>3, RecordStep
    <2>2. /\ req[r].completed \in 0..Total /\ req[r].completed < Total
          /\ g \in Gateways
      BY <1>1 DEF IInv, RequestInv, RequestOK, Admissible
    <2>3. current[g] \in CeremonyState /\ current[g].id = i
          /\ current[g].completed = req[r].completed
      BY <1>3, <2>2 DEF Unchanged, IInv, TypeOK
    <2> HIDE DEF i, g
    <2>4. /\ current'[g] = [current[g] EXCEPT !.completed = req[r].completed + 1]
          /\ \A h \in Gateways : h # g => current'[h] = current[h]
      BY <1>3, <2>2 DEF IInv, TypeOK
    <2>5. /\ current'[g].id = i
          /\ current'[g].completed = req[r].completed + 1
          /\ current'[g] \in CeremonyState
      BY <2>2, <2>3, <2>4, NoneApart DEF CeremonyState
    <2>6. current' \in [Gateways -> CeremonyState]
      BY <1>3, <2>4, <2>5 DEF IInv, TypeOK
    <2>7. RequestInv' /\ req' \in [Requests -> Request]
      BY <1>1, <2>1, AnswerStep
    <2>8. TypeOK'
      BY <1>1, <2>1, <2>6, <2>7 DEF IInv, TypeOK
    <2>9. \A h \in Gateways : current'[h].id = current[h].id
      BY <2>3, <2>4, <2>5
    <2>10. CurrentInv'
      <3>1. \A h \in Gateways : Begun(current[h].id)
        BY DEF IInv, CurrentInv
      <3>2. \A h \in Gateways : Begun(current[h].id)'
        BY <2>1, <2>9, <3>1 DEF Begun
      <3> QED
        BY <2>9, <3>2 DEF IInv, CurrentInv
    <2>11. ProgressCountsAdvances'
      <3> SUFFICES ASSUME NEW h \in Gateways
                   PROVE  /\ ledger'[current'[h].id] # None
                          /\ current'[h].completed = Len(ledger'[current'[h].id])
        BY <1>1 DEF ProgressCountsAdvances
      <3>1. /\ ledger[current[h].id] # None
            /\ current[h].completed = Len(ledger[current[h].id])
            /\ current[g].completed = Len(ledger[current[g].id])
        BY <1>1, <2>2 DEF IInv, ProgressCountsAdvances
      <3>2. CASE h = g
        BY <2>1, <2>3, <2>5, <3>1, <3>2
      <3>3. CASE h # g
        <4>1. current[h].id # i /\ current[h].id \in Ceremonies
          BY <1>1, <2>2, <2>3, <3>3 DEF IInv, CurrentInv, Begun
        <4> QED
          BY <2>1, <2>4, <3>1, <3>3, <4>1
      <3> QED
        BY <3>2, <3>3
    <2> QED
      BY <2>7, <2>8, <2>10, <2>11 DEF IInv
  <1> QED
    BY <1>2, <1>3 DEF AdvanceLocal

\* A ceremony begins: the counters and ledgers of the others stay.
LEMMA BeginKeeps ==
  ASSUME IInv, durable' = durable, NEW c \in Ceremonies, Fresh(c), Begin(c), EnsureCeremony(c)
  PROVE  /\ row' \in [Ceremonies -> (0..Total) \cup {None}]
         /\ durable => \A b \in Ceremonies :
              IF ledger'[b] = None THEN row'[b] = None
                                   ELSE row'[b] = Len(ledger'[b])
  <1>1. /\ row' \in [Ceremonies -> (0..Total) \cup {None}]
        /\ row'[c] = IF durable THEN 0 ELSE None
        /\ \A b \in Ceremonies : b # c => row'[b] = row[b]
    BY NoneApart DEF EnsureCeremony, IInv, TypeOK
  <1>2. ASSUME durable, NEW b \in Ceremonies
        PROVE  IF ledger'[b] = None THEN row'[b] = None
                                    ELSE row'[b] = Len(ledger'[b])
    <2>1. CASE b = c
      BY <1>1, <1>2, <2>1, BeginStep
    <2>2. CASE b # c
      BY <1>1, <1>2, <2>2, BeginStep DEF IInv, ProgressCountsAdvances
    <2> QED
      BY <2>1, <2>2
  <1> QED
    BY <1>1, <1>2

\* A gateway serves c from now on, which began no later than in this step.
LEMMA ServeStep ==
  ASSUME IInv, durable' = durable, NEW g \in Gateways, NEW c \in Ceremonies, Serve(g, c), Begun(c)',
         \A b \in Ceremonies : Begun(b) => Begun(b)',
         ~durable => Fresh(c) /\ Begin(c)
  PROVE  /\ current' \in [Gateways -> CeremonyState]
         /\ CurrentInv'
         /\ ~durable => ProgressCountsAdvances'
  <1> DEFINE new == [id |-> c, completed |-> 0]
  <1>1. new \in CeremonyState /\ new.id = c /\ new.completed = 0
    BY NoneApart DEF CeremonyState
  <1>2. current' = [current EXCEPT ![g] = new]
    BY DEF Serve
  <1> HIDE DEF new
  <1>3. /\ current' \in [Gateways -> CeremonyState]
        /\ current'[g] = new
        /\ \A h \in Gateways : h # g => current'[h] = current[h]
    BY <1>1, <1>2 DEF IInv, TypeOK
  <1>4. \A h \in Gateways : Begun(current[h].id)'
    <2> SUFFICES ASSUME NEW h \in Gateways PROVE Begun(current[h].id)'
      OBVIOUS
    <2>1. CASE h = g
      BY <1>1, <1>3, <2>1
    <2>2. CASE h # g
      <3>1. Begun(current[h].id) /\ current[h].id \in Ceremonies
        BY DEF IInv, CurrentInv, Begun
      <3> QED
        BY <1>3, <2>2, <3>1 DEF Begun
    <2> QED
      BY <2>1, <2>2
  <1>5. ASSUME ~durable, NEW h \in Gateways, h # g
        PROVE  current[h].id # c /\ current[h].id \in Ceremonies
    BY <1>5 DEF IInv, CurrentInv, Begun, Fresh
  <1>6. CurrentInv'
    BY <1>1, <1>3, <1>4, <1>5 DEF IInv, CurrentInv
  <1>7. ASSUME ~durable PROVE ProgressCountsAdvances'
    <2> SUFFICES ASSUME NEW h \in Gateways
                 PROVE  /\ ledger'[current'[h].id] # None
                        /\ current'[h].completed = Len(ledger'[current'[h].id])
      BY <1>7 DEF ProgressCountsAdvances
    <2>1. CASE h = g
      BY <1>1, <1>3, <1>7, <2>1, BeginStep
    <2>2. CASE h # g
      BY <1>3, <1>5, <1>7, <2>2, BeginStep DEF IInv, ProgressCountsAdvances
    <2> QED
      BY <2>1, <2>2
  <1> QED
    BY <1>3, <1>6, <1>7

\* A reset inserts its row.
LEMMA ResetStoredStep ==
  ASSUME IInv, durable' = durable, NEW r \in Requests, ResetStored(r)
  PROVE  IInv'
  <1>1. PICK c \in Ceremonies :
          /\ Fresh(c) /\ Begin(c) /\ EnsureCeremony(c)
          /\ req' = [req EXCEPT ![r].pc = "install", ![r].id = c]
    BY DEF ResetStored
  <1>2. req[r].pc = "reset" /\ durable /\ current' = current
    BY DEF ResetStored
  <1>3. req[r] \in Request /\ req[r].gateway \in Gateways
    BY <1>2 DEF IInv, TypeOK, RequestInv, RequestOK
  <1> DEFINE q == [[req[r] EXCEPT !.pc = "install"] EXCEPT !.id = c]
  <1>4. q \in Request /\ q.pc = "install" /\ q.id = c /\ q.gateway = req[r].gateway
    BY <1>3 DEF Request
  <1>5. req' = [req EXCEPT ![r] = q]
    BY <1>1 DEF IInv, TypeOK
  <1> HIDE DEF q
  <1>6. /\ req' \in [Requests -> Request]
        /\ \A s \in Requests : req'[s] = IF s = r THEN q ELSE req[s]
    BY <1>4, <1>5 DEF IInv, TypeOK
  <1>7. Begun(c)' /\ \A b \in Ceremonies : Begun(b) => Begun(b)'
    BY <1>1, BeginStep DEF Begun
  <1>8. RequestInv'
    <2> SUFFICES ASSUME NEW s \in Requests PROVE RequestOK(req[s])'
      BY DEF RequestInv
    <2>1. CASE s = r
      BY <1>2, <1>3, <1>4, <1>6, <1>7, <2>1 DEF RequestOK
    <2>2. CASE s # r
      <3>1. RequestOK(req[s]) /\ req'[s] = req[s]
        BY <1>6, <2>2 DEF IInv, RequestInv
      <3> QED
        BY <1>7, <3>1 DEF RequestOK, Begun, Admissible
    <2> QED
      BY <2>1, <2>2
  <1>9. TypeOK'
    BY <1>1, <1>2, <1>6, BeginStep, BeginKeeps DEF IInv, TypeOK
  <1>10. CurrentInv'
    BY <1>2, <1>7 DEF IInv, CurrentInv, Begun
  <1>11. ProgressCountsAdvances'
    BY <1>1, <1>2, BeginKeeps DEF ProgressCountsAdvances
  <1> QED
    BY <1>8, <1>9, <1>10, <1>11 DEF IInv

\* A reset installs the ceremony whose row it inserted.
LEMMA InstallCeremonyStep ==
  ASSUME IInv, durable' = durable, NEW r \in Requests, InstallCeremony(r)
  PROVE  IInv'
  <1>1. /\ req[r].pc = "install" /\ Serve(req[r].gateway, req[r].id) /\ Answer(r)
        /\ UNCHANGED <<row, ledger>>
    BY DEF InstallCeremony
  <1>2. req[r].gateway \in Gateways /\ Begun(req[r].id) /\ durable
    BY <1>1 DEF IInv, RequestInv, RequestOK
  <1>3. \A b \in Ceremonies : Begun(b) => Begun(b)'
    BY <1>1 DEF Begun
  <1>4. current' \in [Gateways -> CeremonyState] /\ CurrentInv'
    BY <1>1, <1>2, <1>3, ServeStep DEF Begun
  <1>5. RequestInv' /\ req' \in [Requests -> Request]
    BY <1>1, <1>3, AnswerStep
  <1>6. ProgressCountsAdvances'
    BY <1>1, <1>2 DEF IInv, ProgressCountsAdvances
  <1> QED
    BY <1>1, <1>4, <1>5, <1>6 DEF IInv, TypeOK

\* A reset without a database.
LEMMA ResetLocalStep ==
  ASSUME IInv, durable' = durable, NEW r \in Requests, ResetLocal(r)
  PROVE  IInv'
  <1>1. PICK c \in Ceremonies : Fresh(c) /\ Begin(c) /\ Serve(req[r].gateway, c)
    BY DEF ResetLocal
  <1>2. req[r].pc = "reset" /\ ~durable /\ Answer(r) /\ row' = row
    BY DEF ResetLocal
  <1>3. req[r].gateway \in Gateways
    BY <1>2 DEF IInv, RequestInv, RequestOK
  <1>4. Begun(c)' /\ \A b \in Ceremonies : Begun(b) => Begun(b)'
    BY <1>1, BeginStep DEF Begun
  <1>5. /\ current' \in [Gateways -> CeremonyState] /\ CurrentInv'
        /\ ProgressCountsAdvances'
    BY <1>1, <1>2, <1>3, <1>4, ServeStep
  <1>6. RequestInv' /\ req' \in [Requests -> Request]
    BY <1>2, <1>4, AnswerStep
  <1> QED
    BY <1>1, <1>2, <1>5, <1>6, BeginStep DEF IInv, TypeOK

\* A gateway starts again.
LEMMA RestartStep ==
  ASSUME IInv, durable' = durable, NEW g \in Gateways, Restart(g)
  PROVE  IInv'
  <1>1. PICK c \in Ceremonies :
          Fresh(c) /\ Begin(c) /\ EnsureCeremony(c) /\ Serve(g, c)
    BY DEF Restart
  <1>2. /\ req' \in [Requests -> Request]
        /\ \A s \in Requests : req'[s] = Idle \/ req'[s] = req[s]
    BY IdleOK DEF Restart, IInv, TypeOK
  <1>3. Begun(c)' /\ \A b \in Ceremonies : Begun(b) => Begun(b)'
    BY <1>1, BeginStep DEF Begun
  <1>4. RequestInv'
    <2> SUFFICES ASSUME NEW s \in Requests PROVE RequestOK(req[s])'
      BY DEF RequestInv
    <2>1. CASE req'[s] = Idle
      BY <2>1 DEF RequestOK, Idle
    <2>2. CASE req'[s] = req[s]
      <3>1. RequestOK(req[s])
        BY DEF IInv, RequestInv
      <3> QED
        BY <1>3, <2>2, <3>1 DEF RequestOK, Begun, Admissible
    <2> QED
      BY <1>2, <2>1, <2>2
  <1>5. /\ current' \in [Gateways -> CeremonyState] /\ CurrentInv'
        /\ ~durable => ProgressCountsAdvances'
    BY <1>1, <1>3, ServeStep
  <1>6. durable => ProgressCountsAdvances'
    BY <1>1, BeginKeeps DEF ProgressCountsAdvances
  <1>7. TypeOK'
    BY <1>1, <1>2, <1>5, BeginStep, BeginKeeps DEF IInv, TypeOK
  <1> QED
    BY <1>4, <1>5, <1>6, <1>7 DEF IInv

\* IInv is preserved by every step of the specification.
LEMMA IInvStep == IInv /\ [Next]_vars => IInv'
  <1> SUFFICES ASSUME IInv, [Next]_vars PROVE IInv'
    OBVIOUS
  <1>1. ASSUME NEW r \in Requests,
               \/ ReceiveAdvance(r) \/ LocalCeremony(r) \/ LoadCeremony(r)
               \/ AdvanceCeremony(r) \/ AdvanceLocal(r)
               \/ ReceiveReset(r) \/ ResetStored(r) \/ InstallCeremony(r)
               \/ ResetLocal(r) \/ Fail(r),
               durable' = durable
        PROVE  IInv'
    <2>1. CASE Fail(r)
      BY <1>1, <2>1, IdleOK, RequestStep DEF Fail, Answer
    <2> QED
      BY <1>1, <2>1, ReceiveAdvanceStep, LocalCeremonyStep, LoadCeremonyStep,
         AdvanceCeremonyStep, AdvanceLocalStep, ReceiveResetStep,
         ResetStoredStep, InstallCeremonyStep, ResetLocalStep
  <1>2. ASSUME NEW g \in Gateways, Restart(g), durable' = durable
        PROVE  IInv'
    BY <1>2, RestartStep
  <1>3. CASE UNCHANGED vars
    BY <1>3 DEF vars, IInv, TypeOK, RequestInv, RequestOK, Begun, Admissible,
                CurrentInv, ProgressCountsAdvances
  <1> QED
    BY <1>1, <1>2, <1>3 DEF Next

\* IInv is inductive.
LEMMA InductiveInvariant == Spec => []IInv
  BY InitIInv, IInvStep, PTL DEF Spec
-----------------------------------------------------------------------------
\* The table, the processes and the requests have their types.
THEOREM TypeCorrect == Spec => []TypeOK
  <1>1. IInv => TypeOK
    BY DEF IInv
  <1> QED
    BY <1>1, InductiveInvariant, PTL

\* The progress shown is the number of advances accepted.
THEOREM ProgressExact == Spec => []ProgressCountsAdvances
  <1>1. IInv => ProgressCountsAdvances
    BY DEF IInv
  <1> QED
    BY <1>1, InductiveInvariant, PTL

\* Every step of the gateways is one of the checklist or a stutter.
LEMMA StepImplements == IInv /\ [Next]_vars => [Promise!Next]_ledger
  <1> SUFFICES ASSUME IInv, [Next]_vars, ledger' # ledger
               PROVE  Promise!Next
    OBVIOUS
  <1>1. ASSUME NEW c \in Ceremonies, Fresh(c), Begin(c) PROVE Promise!Next
    <2>1. Promise!Begin(c)
      BY <1>1 DEF Fresh, Begin, Promise!Begin
    <2> QED
      BY <2>1 DEF Promise!Next
  <1>2. ASSUME NEW r \in Requests, req[r].pc = "write", Record(r),
               req[r].completed = Len(ledger[req[r].id])
        PROVE  Promise!Next
    <2>1. /\ Begun(req[r].id) /\ Admissible(req[r])
          /\ req[r].skip \in BOOLEAN
      BY <1>2 DEF IInv, TypeOK, RequestInv, RequestOK, Request
    <2>2. Promise!Complete(req[r].id, req[r].skip)
      BY <1>2, <2>1 DEF Begun, Admissible, Record, Promise!Complete
    <2> QED
      BY <2>1, <2>2 DEF Begun, Promise!Next
  <1>3. ASSUME NEW r \in Requests, AdvanceCeremony(r) PROVE Promise!Next
    <2>1. /\ req[r].pc = "write" /\ durable /\ Record(r)
          /\ row[req[r].id] = req[r].completed
      BY <1>3 DEF AdvanceCeremony
    <2>2. Begun(req[r].id)
      BY <2>1 DEF IInv, RequestInv, RequestOK
    <2>3. req[r].completed = Len(ledger[req[r].id])
      BY <2>1, <2>2 DEF Begun, IInv, ProgressCountsAdvances
    <2> QED
      BY <1>2, <2>1, <2>3
  <1>4. ASSUME NEW r \in Requests, AdvanceLocal(r) PROVE Promise!Next
    <2>1. /\ req[r].pc = "write" /\ ~durable /\ Record(r)
          /\ Unchanged(r, current[req[r].gateway])
      BY <1>4 DEF AdvanceLocal
    <2>2. req[r].gateway \in Gateways
      BY <2>1 DEF IInv, RequestInv, RequestOK
    <2>3. req[r].completed = Len(ledger[req[r].id])
      BY <2>1, <2>2 DEF Unchanged, IInv, ProgressCountsAdvances
    <2> QED
      BY <1>2, <2>1, <2>3
  <1>5. ASSUME NEW r \in Requests, ResetStored(r) \/ ResetLocal(r)
        PROVE  Promise!Next
    BY <1>1, <1>5 DEF ResetStored, ResetLocal
  <1>6. ASSUME NEW g \in Gateways, Restart(g) PROVE Promise!Next
    BY <1>1, <1>6 DEF Restart
  <1> QED
    BY <1>3, <1>4, <1>5, <1>6
       DEF Next, vars, ReceiveAdvance, LocalCeremony, LoadCeremony,
           ReceiveReset, InstallCeremony, Fail

\* Accepted advances work through a checklist.
THEOREM Implements == Spec => ImplementsCeremony
  <1>1. Init => Promise!Init
    <2> SUFFICES ASSUME Init PROVE Promise!Init
      OBVIOUS
    <2>1. PICK first \in [Gateways -> Ceremonies] :
            ledger = [c \in Ceremonies |->
                        IF c \in {first[g] : g \in Gateways} THEN <<>> ELSE None]
      BY DEF Init
    <2>2. {first[g] : g \in Gateways} \in SUBSET Ceremonies
      OBVIOUS
    <2> QED
      BY <2>1, <2>2 DEF Promise!Init
  <1> QED
    BY <1>1, StepImplements, InductiveInvariant, PTL
       DEF Spec, ImplementsCeremony, Promise!Spec

\* What a step may do to a ledger.
AdvancesCurrent ==
  \A c \in Ceremonies :
    ~durable /\ ledger[c] # None /\ ledger'[c] # ledger[c]
      => \E g \in Gateways : current[g].id = c

\* Without a database an advance is of the ceremony its gateway serves.
LEMMA LocalAdvances == IInv /\ [Next]_vars => AdvancesCurrent
  <1> SUFFICES ASSUME IInv, [Next]_vars, NEW c \in Ceremonies,
                      ~durable, ledger[c] # None, ledger'[c] # ledger[c]
               PROVE  \E g \in Gateways : current[g].id = c
    BY DEF AdvancesCurrent
  <1>1. ASSUME NEW b \in Ceremonies, Fresh(b), Begin(b) PROVE FALSE
    BY <1>1, BeginStep DEF Fresh
  <1>2. ASSUME NEW r \in Requests, AdvanceLocal(r)
        PROVE  \E g \in Gateways : current[g].id = c
    <2>1. /\ req[r].pc = "write" /\ Record(r)
          /\ Unchanged(r, current[req[r].gateway])
      BY <1>2 DEF AdvanceLocal
    <2>2. req[r].gateway \in Gateways
      BY <2>1 DEF IInv, RequestInv, RequestOK
    <2>3. req[r].id = c
      BY <2>1, RecordStep
    <2> QED
      BY <2>1, <2>2, <2>3 DEF Unchanged
  <1> QED
    BY <1>1, <1>2
       DEF Next, vars, ReceiveAdvance, LocalCeremony, LoadCeremony, ReceiveReset,
           InstallCeremony, Fail, AdvanceCeremony, ResetStored, ResetLocal, Restart

\* A reset is never overtaken by an advance of what it replaced.
THEOREM AdvancesAreCurrent == Spec => AcceptedAdvanceIsCurrent
  <1>1. IInv /\ [Next]_vars =>
          [\A c \in Ceremonies :
             ~durable /\ ledger[c] # None /\ ledger'[c] # ledger[c]
               => \E g \in Gateways : current[g].id = c]_vars
    BY LocalAdvances DEF AdvancesCurrent
  <1> QED
    BY <1>1, InductiveInvariant, PTL DEF Spec, AcceptedAdvanceIsCurrent
-----------------------------------------------------------------------------
\* The requests that have read which ceremony to advance, and still serve it.
ReadCeremonyIsServed ==
  \A r \in Requests :
    req[r].pc \in {"load", "write"} => req[r].id = current[req[r].gateway].id

\* No gateway turns to another ceremony while an advance of its own has read
\* the one it served.
NoResetUnderAdvance ==
  [][\A g \in Gateways : current'[g].id # current[g].id =>
       \A r \in Requests :
         req'[r].gateway = g => req'[r].pc \notin {"load", "write"}]_vars

\* How a request comes to have read its ceremony: from the process of its
\* gateway, or by keeping what it had read from there.
LEMMA ReadFromProcess ==
  ASSUME IInv, [Next]_vars, NEW r \in Requests, req'[r].pc \in {"load", "write"}
  PROVE  /\ req'[r].gateway = req[r].gateway
         /\ \/ req'[r].id = current[req[r].gateway].id
            \/ req'[r].id = req[r].id /\ req[r].pc \in {"load", "write"}
  <1> DEFINE Goal ==
        /\ req'[r].gateway = req[r].gateway
        /\ \/ req'[r].id = current[req[r].gateway].id
           \/ req'[r].id = req[r].id /\ req[r].pc \in {"load", "write"}
  <1>1. req \in [Requests -> Request] /\ current \in [Gateways -> CeremonyState]
    BY DEF IInv, TypeOK
  <1>2. ASSUME req'[r] = req[r] PROVE Goal
    BY <1>2
  <1>3. ASSUME NEW q \in Request, Decide(r, q)
        PROVE  req'[r].gateway = q.gateway /\ req'[r].id = q.id
    BY <1>1, <1>3 DEF Decide, Request, Idle
  <1>4. CASE LocalCeremony(r)
    <2>1. PICK g \in Gateways : g = req[r].gateway
      BY <1>4 DEF LocalCeremony, IInv, RequestInv, RequestOK
    <2>2. current[g].id \in Ceremonies /\ current[g].completed \in 0..Total
      BY <1>1 DEF CeremonyState
    <2>3. CASE req' = [req EXCEPT ![r].pc = "load", ![r].id = current[g].id]
      BY <1>1, <2>1, <2>3 DEF Request
    <2>4. CASE Decide(r, [req[r] EXCEPT !.id = current[g].id,
                                        !.completed = current[g].completed])
      <3> DEFINE q == [req[r] EXCEPT !.id = current[g].id,
                                     !.completed = current[g].completed]
      <3>1. q \in Request /\ q.id = current[g].id /\ q.gateway = req[r].gateway
        BY <1>1, <2>2 DEF Request
      <3>2. Decide(r, q)
        BY <2>4
      <3> HIDE DEF q
      <3> QED
        BY <1>3, <2>1, <3>1, <3>2
    <2> QED
      BY <1>4, <2>1, <2>3, <2>4 DEF LocalCeremony
  <1>5. CASE LoadCeremony(r)
    <2> DEFINE q == [req[r] EXCEPT !.completed = row[req[r].id]]
    <2>1. /\ q.id = req[r].id /\ q.gateway = req[r].gateway
          /\ Decide(r, q) /\ req[r].pc = "load"
      BY <1>1, <1>5 DEF LoadCeremony, Request
    <2>2. req'[r].id = q.id /\ req'[r].gateway = q.gateway
      BY <1>1, <2>1 DEF Decide, Request, Idle
    <2> QED
      BY <2>1, <2>2
  <1>6. CASE ReceiveAdvance(r) \/ ReceiveReset(r) \/ ResetStored(r)
    BY <1>1, <1>6 DEF ReceiveAdvance, ReceiveReset, ResetStored, Request, Idle
  <1>7. CASE \/ AdvanceCeremony(r) \/ AdvanceLocal(r) \/ InstallCeremony(r)
             \/ ResetLocal(r) \/ Fail(r)
    BY <1>1, <1>7
       DEF AdvanceCeremony, AdvanceLocal, InstallCeremony, ResetLocal, Fail,
           Answer, Idle
  <1>8. ASSUME NEW s \in Requests, s # r,
               \/ ReceiveAdvance(s) \/ LocalCeremony(s) \/ LoadCeremony(s)
               \/ AdvanceCeremony(s) \/ AdvanceLocal(s)
               \/ ReceiveReset(s) \/ ResetStored(s) \/ InstallCeremony(s)
               \/ ResetLocal(s) \/ Fail(s)
        PROVE  Goal
    <2>1. req'[r] = req[r]
      BY <1>1, <1>8
         DEF ReceiveAdvance, LocalCeremony, LoadCeremony, AdvanceCeremony,
             AdvanceLocal, ReceiveReset, ResetStored, InstallCeremony,
             ResetLocal, Fail, Decide, Answer
    <2> QED
      BY <1>2, <2>1
  <1>9. CASE \E g \in Gateways : Restart(g)
    <2>1. req'[r] \in {req[r], Idle}
      BY <1>9 DEF Restart
    <2> QED
      BY <1>2, <2>1 DEF Idle
  <1>10. CASE UNCHANGED vars
    BY <1>2, <1>10 DEF vars
  <1> QED
    BY <1>4, <1>5, <1>6, <1>7, <1>8, <1>9, <1>10 DEF Next

\* What was read stays what is served, by the assumption on the step.
LEMMA ServedStep ==
  ASSUME IInv, ReadCeremonyIsServed, [Next]_vars,
         \A g \in Gateways : current'[g].id # current[g].id =>
           \A r \in Requests :
             req'[r].gateway = g => req'[r].pc \notin {"load", "write"}
  PROVE  ReadCeremonyIsServed'
  <1> SUFFICES ASSUME NEW r \in Requests, req'[r].pc \in {"load", "write"}
               PROVE  req'[r].id = current'[req'[r].gateway].id
    BY DEF ReadCeremonyIsServed
  <1>1. req'[r].gateway \in Gateways
    BY IInvStep DEF IInv, RequestInv, RequestOK
  <1>2. current'[req'[r].gateway].id = current[req'[r].gateway].id
    BY <1>1
  <1>3. req'[r].id = current[req'[r].gateway].id
    BY ReadFromProcess DEF ReadCeremonyIsServed
  <1> QED
    BY <1>2, <1>3

\* The ledger of a ceremony that has begun grows by the write of a request
\* that has read its id.
LEMMA OnlyWritesRecord ==
  ASSUME IInv, [Next]_vars, NEW c \in Ceremonies,
         ledger[c] # None, ledger'[c] # ledger[c]
  PROVE  \E r \in Requests :
           req[r].pc = "write" /\ req[r].id = c /\ req[r].gateway \in Gateways
  <1>1. ASSUME NEW b \in Ceremonies, Fresh(b), Begin(b) PROVE FALSE
    BY <1>1, BeginStep DEF Fresh
  <1>2. ASSUME NEW r \in Requests, req[r].pc = "write", Record(r)
        PROVE  req[r].id = c /\ req[r].gateway \in Gateways
    BY <1>2, RecordStep DEF IInv, RequestInv, RequestOK
  <1> QED
    BY <1>1, <1>2
       DEF Next, vars, ReceiveAdvance, LocalCeremony, LoadCeremony, ReceiveReset,
           InstallCeremony, Fail, AdvanceCeremony, AdvanceLocal, ResetStored,
           ResetLocal, Restart

\* Why the database leaves a gap that memory does not: if no gateway turns to
\* another ceremony under an advance of its own, then with a database too every
\* accepted advance is of a ceremony that is served.  The reset that comes
\* between the read of the id and the write is the only way around it.
THEOREM AdvancesAreCurrentButForResets ==
  Spec /\ NoResetUnderAdvance =>
    [][\A c \in Ceremonies : ledger[c] # None /\ ledger'[c] # ledger[c]
         => \E g \in Gateways : current[g].id = c]_vars
  <1>1. Init => ReadCeremonyIsServed
    BY DEF Init, ReadCeremonyIsServed, Idle
  <1>2. IInv /\ ReadCeremonyIsServed /\ [Next]_vars
          /\ [\A g \in Gateways : current'[g].id # current[g].id =>
                \A r \in Requests :
                  req'[r].gateway = g => req'[r].pc \notin {"load", "write"}]_vars
          => ReadCeremonyIsServed'
    <2>1. UNCHANGED vars /\ ReadCeremonyIsServed => ReadCeremonyIsServed'
      BY DEF vars, ReadCeremonyIsServed
    <2> QED
      BY <2>1, ServedStep
  <1>3. IInv /\ ReadCeremonyIsServed /\ [Next]_vars =>
          [\A c \in Ceremonies : ledger[c] # None /\ ledger'[c] # ledger[c]
             => \E g \in Gateways : current[g].id = c]_vars
    BY OnlyWritesRecord DEF ReadCeremonyIsServed
  <1> QED
    BY <1>1, <1>2, <1>3, InductiveInvariant, PTL DEF Spec, NoResetUnderAdvance
-----------------------------------------------------------------------------
(* What the checklist promises carries over to the program.  These facts are *)
(* about the abstract steps alone.                                           *)

\* A ledger holds the first steps of the template in order, the required ones
\* not skipped.
InOrder(l) ==
  \A i \in 1..Len(l) :
    l[i].step = i - 1 /\ l[i].skipped \in BOOLEAN
      /\ (l[i].skipped => i - 1 \notin Required)

LedgersInOrder ==
  \A c \in Ceremonies : ledger[c] # None =>
    ledger[c] \in Seq(Accepted) /\ Len(ledger[c]) <= Total /\ InOrder(ledger[c])

LEMMA ChecklistStep ==
  ASSUME LedgersInOrder, Promise!Next,
         \A c \in Ceremonies : c \in DOMAIN ledger
  PROVE  LedgersInOrder'
  <1> SUFFICES ASSUME NEW b \in Ceremonies, ledger'[b] # None
               PROVE  /\ ledger'[b] \in Seq(Accepted)
                      /\ Len(ledger'[b]) <= Total /\ InOrder(ledger'[b])
    BY DEF LedgersInOrder, InOrder
  <1>1. PICK c \in Ceremonies :
          Promise!Begin(c) \/ \E skipped \in BOOLEAN : Promise!Complete(c, skipped)
    BY DEF Promise!Next
  <1>2. CASE ledger'[b] = ledger[b]
    BY <1>2 DEF LedgersInOrder, InOrder
  <1>3. CASE Promise!Begin(c)
    <2>1. ledger'[b] = ledger[b] \/ ledger'[b] = <<>>
      BY <1>3 DEF Promise!Begin
    <2>2. <<>> \in Seq(Accepted) /\ Len(<<>>) <= Total /\ InOrder(<<>>)
      BY EmptyLedger, NoneApart DEF InOrder
    <2> QED
      BY <1>2, <2>1, <2>2
  <1>4. ASSUME NEW skipped \in BOOLEAN, Promise!Complete(c, skipped), b = c
        PROVE  /\ ledger'[b] \in Seq(Accepted)
               /\ Len(ledger'[b]) <= Total /\ InOrder(ledger'[b])
    <2> DEFINE l == ledger[c]
               e == [step |-> Len(l), skipped |-> skipped]
    <2>1. /\ l # None /\ Len(l) < Total
          /\ skipped => Len(l) \notin Required
          /\ ledger'[c] = Append(l, e)
      BY <1>4 DEF Promise!Complete
    <2>2. l \in Seq(Accepted) /\ InOrder(l) /\ Len(l) \in Nat
      BY <2>1 DEF LedgersInOrder
    <2>3. e \in Accepted /\ e.step = Len(l) /\ e.skipped = skipped
      BY <2>1, <2>2, NoneApart DEF Accepted, Steps
    <2> HIDE DEF l, e
    <2>4. /\ Append(l, e) \in Seq(Accepted)
          /\ Len(Append(l, e)) = Len(l) + 1
          /\ Append(l, e)[Len(l) + 1] = e
          /\ \A i \in 1..Len(l) : Append(l, e)[i] = l[i]
      BY <2>2, <2>3
    <2>5. ASSUME NEW i \in 1..(Len(l) + 1)
          PROVE  /\ Append(l, e)[i].step = i - 1
                 /\ Append(l, e)[i].skipped \in BOOLEAN
                 /\ Append(l, e)[i].skipped => i - 1 \notin Required
      <3>1. CASE i = Len(l) + 1
        BY <2>1, <2>2, <2>3, <2>4, <3>1
      <3>2. CASE i \in 1..Len(l)
        BY <2>2, <2>4, <3>2 DEF InOrder
      <3> QED
        BY <2>2, <3>1, <3>2
    <2>6. Len(Append(l, e)) <= Total
      BY <2>1, <2>2, <2>4, NoneApart
    <2> QED
      BY <1>4, <2>1, <2>4, <2>5, <2>6 DEF InOrder
  <1>5. ASSUME NEW skipped \in BOOLEAN, Promise!Complete(c, skipped), b # c
        PROVE  ledger'[b] = ledger[b]
    BY <1>5 DEF Promise!Complete
  <1> QED
    BY <1>1, <1>2, <1>3, <1>4, <1>5

\* A full ledger in order holds every required step, not skipped.
LEMMA FullLedgerHasRequired ==
  ASSUME NEW l \in Seq(Accepted), InOrder(l), Len(l) = Total, NEW s \in Required
  PROVE  \E i \in 1..Len(l) : l[i] = [step |-> s, skipped |-> FALSE]
  <1>1. s \in 0..(Total - 1) /\ Total \in Nat
    BY OnboardingAssumption
  <1>2. s + 1 \in 1..Len(l) /\ (s + 1) - 1 = s
    BY <1>1
  <1>3. l[s + 1] \in Accepted /\ l[s + 1].step = s /\ ~l[s + 1].skipped
    BY <1>2 DEF InOrder
  <1>4. l[s + 1] = [step |-> s, skipped |-> FALSE]
    BY <1>3 DEF Accepted
  <1> QED
    BY <1>2, <1>4

\* A ceremony shown as completed has had every required step: the counter is
\* the length of a ledger that is in order.
THEOREM RequiredStepsAreDone == Spec => []CompletedCeremonyIsDone
  <1>1. Init => LedgersInOrder
    <2>1. <<>> \in Seq(Accepted) /\ Len(<<>>) <= Total /\ InOrder(<<>>)
      BY EmptyLedger, NoneApart DEF InOrder
    <2> QED
      BY <2>1 DEF Init, LedgersInOrder
  <1>2. IInv /\ LedgersInOrder /\ [Next]_vars => LedgersInOrder'
    <2>1. IInv => DOMAIN ledger = Ceremonies
      BY DEF IInv, TypeOK
    <2>2. UNCHANGED ledger /\ LedgersInOrder => LedgersInOrder'
      BY DEF LedgersInOrder, InOrder
    <2> QED
      BY <2>1, <2>2, StepImplements, ChecklistStep
  <1>3. IInv /\ LedgersInOrder => CompletedCeremonyIsDone
    <2> SUFFICES ASSUME IInv, LedgersInOrder,
                        NEW c \in Ceremonies, ShownCompleted(c)
                 PROVE  ledger[c] # None /\ Len(ledger[c]) = Total
      BY FullLedgerHasRequired DEF LedgersInOrder, CompletedCeremonyIsDone
    <2>1. CASE durable
      BY <2>1, NoneApart, OnboardingAssumption
         DEF ShownCompleted, IInv, ProgressCountsAdvances
    <2>2. CASE ~durable
      BY <2>2 DEF ShownCompleted, IInv, ProgressCountsAdvances
    <2> QED
      BY <2>1, <2>2
  <1> QED
    BY <1>1, <1>2, <1>3, InitIInv, IInvStep, PTL DEF Spec

\* How far a ceremony is shown to be never goes back, in its row or in the
\* process that goes on serving it: only a reset or a restart, which serve
\* another ceremony, start from nothing.
THEOREM ProgressOnlyGrows ==
  Spec => [][/\ \A c \in Ceremonies :
                  durable /\ row[c] # None => row'[c] \in {row[c], row[c] + 1}
             /\ \A g \in Gateways :
                  ~durable /\ current'[g].id = current[g].id =>
                    current'[g].completed \in {current[g].completed,
                                               current[g].completed + 1}]_vars
  <1>1. ASSUME IInv, IInv', [Promise!Next]_ledger, NEW c \in Ceremonies,
               ledger[c] # None
        PROVE  /\ ledger'[c] # None /\ Len(ledger[c]) \in Nat
               /\ Len(ledger'[c]) \in {Len(ledger[c]), Len(ledger[c]) + 1}
    <2>1. ledger[c] \in Seq(Accepted) /\ Len(ledger[c]) \in Nat
      BY <1>1 DEF IInv, TypeOK
    <2>2. CASE ledger'[c] = ledger[c]
      BY <1>1, <2>1, <2>2
    <2>3. ASSUME NEW b \in Ceremonies, Promise!Begin(b)
          PROVE  ledger'[c] = ledger[c]
      BY <1>1, <2>3 DEF Promise!Begin
    <2>4. ASSUME NEW b \in Ceremonies, NEW skipped \in BOOLEAN,
                 Promise!Complete(b, skipped), ledger'[c] # ledger[c]
          PROVE  /\ Len(ledger'[c]) = Len(ledger[c]) + 1
                 /\ ledger'[c] # None
      <3>1. PICK e : ledger'[c] = Append(ledger[c], e) /\ e \in Accepted
        <4> DEFINE e == [step |-> Len(ledger[c]), skipped |-> skipped]
        <4>1. ledger'[c] = Append(ledger[c], e) /\ Len(ledger[c]) < Total
          BY <2>4 DEF Promise!Complete
        <4>2. e \in Accepted
          BY <2>1, <4>1, NoneApart DEF Accepted, Steps
        <4> QED
          BY <4>1, <4>2
      <3>2. ledger'[c] \in Seq(Accepted) /\ Len(ledger'[c]) = Len(ledger[c]) + 1
        BY <2>1, <3>1
      <3> QED
        BY <3>2, NoneApart
    <2> QED
      BY <1>1, <2>1, <2>2, <2>3, <2>4 DEF Promise!Next
  <1>2. ASSUME IInv, IInv', [Next]_vars, durable, NEW c \in Ceremonies,
               row[c] # None
        PROVE  row'[c] \in {row[c], row[c] + 1}
    <2>1. durable' = durable
      BY <1>2 DEF Next, vars
    <2>2. ledger[c] # None /\ row[c] = Len(ledger[c])
      BY <1>2 DEF IInv, ProgressCountsAdvances
    <2>3. ledger'[c] # None
            /\ Len(ledger'[c]) \in {Len(ledger[c]), Len(ledger[c]) + 1}
      BY <1>1, <1>2, <2>2, StepImplements
    <2>4. row'[c] = Len(ledger'[c])
      BY <1>2, <2>1, <2>3 DEF IInv, ProgressCountsAdvances
    <2> QED
      BY <2>2, <2>3, <2>4
  <1>3. ASSUME IInv, IInv', [Next]_vars, ~durable, NEW g \in Gateways,
               current'[g].id = current[g].id
        PROVE  current'[g].completed \in {current[g].completed,
                                          current[g].completed + 1}
    <2>1. durable' = durable
      BY <1>3 DEF Next, vars
    <2> DEFINE c == current[g].id
    <2>2. /\ c \in Ceremonies /\ ledger[c] # None
          /\ current[g].completed = Len(ledger[c])
      BY <1>3 DEF IInv, ProgressCountsAdvances, CurrentInv, Begun
    <2>3. current'[g].completed = Len(ledger'[c])
      BY <1>3, <2>1 DEF IInv, ProgressCountsAdvances
    <2> HIDE DEF c
    <2>4. Len(ledger'[c]) \in {Len(ledger[c]), Len(ledger[c]) + 1}
      BY <1>1, <1>3, <2>2, StepImplements
    <2> QED
      BY <2>2, <2>3, <2>4
  <1>4. IInv /\ IInv' /\ [Next]_vars =>
          [/\ \A c \in Ceremonies :
                durable /\ row[c] # None => row'[c] \in {row[c], row[c] + 1}
           /\ \A g \in Gateways :
                ~durable /\ current'[g].id = current[g].id =>
                  current'[g].completed \in {current[g].completed,
                                             current[g].completed + 1}]_vars
    BY <1>2, <1>3
  <1> QED
    BY <1>4, InductiveInvariant, PTL DEF Spec
=============================================================================
