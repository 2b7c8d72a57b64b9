------------------------- MODULE VaultServiceProofs -------------------------
(***************************************************************************)
(* Theorems about VaultService for every set of users, items, key          *)
(* versions, instances and concurrent requests.                            *)
(***************************************************************************)
EXTENDS VaultService, TLAPS

\* Every instance can decrypt under the key any other one encrypts under.
RingInv ==
  \A n, m \in Nodes : ring[n].active \in ring[m].keys

\* An envelope made under the active key of a ring, for item i of user u.
FreshFor(e, k, u, i) ==
  /\ e \in Envelope
  /\ e.version = k.active
  /\ e.wrap = k.active
  /\ e.dek = e.sealed
  /\ e.bound = <<u, i>>

\* A request in progress holds an envelope of the key its instance encrypts
\* under; a create has its item id for itself, a rotation an item of its user.
RequestInv ==
  \A r \in Requests : req[r].pc # "idle" =>
    /\ req[r].node \in Nodes
    /\ req[r].user \in Identities
    /\ req[r].item \in Items
    /\ FreshFor(req[r].envelope, ring[req[r].node], req[r].user,
                req[r].item)
    /\ req[r].pc = "insert" =>
         /\ item[req[r].item] = NoRow
         /\ \A q \in Requests \ {r} :
              req[q].pc # "idle" => req[q].item # req[r].item
    /\ req[r].pc = "update" => item[req[r].item].owner = req[r].user

\* A row is empty or holds a whole envelope that its columns describe.
RowInv ==
  \A i \in Items :
    \/ item[i] = NoRow
    \/ /\ item[i].state \in {"active", "deleted"}
       /\ item[i].owner \in Identities
       /\ item[i].envelope \in Envelope
       /\ item[i].key_version = item[i].envelope.version
       /\ item[i].envelope.wrap = item[i].envelope.version
       /\ item[i].envelope.dek = item[i].envelope.sealed
       /\ item[i].envelope.bound = <<item[i].owner, i>>

\* No active row names a version that some ring lacks.
KeysKept ==
  \A i \in Items, n \in Nodes :
    item[i].state = "active" => item[i].key_version \in ring[n].keys

\* The inductive invariant.
IInv == TypeOK /\ RingInv /\ RequestInv /\ RowInv /\ KeysKept
-----------------------------------------------------------------------------
\* The empty table, one key and no requests.
LEMMA InitIInv == Init => IInv
  <1> SUFFICES ASSUME Init PROVE IInv
    OBVIOUS
  <1>1. TypeOK
    <2>1. NoRow \in Row
      BY DEF NoRow, Row
    <2>2. Idle \in Request
      BY DEF Idle, Request
    <2>3. ring \in [Nodes -> KeyRing]
      BY DEF Init, KeyRing
    <2> QED
      BY <2>1, <2>2, <2>3 DEF Init, TypeOK
  <1>2. RingInv /\ KeysKept
    BY DEF Init, RingInv, KeysKept, NoRow
  <1>3. RequestInv /\ RowInv
    BY DEF Init, RequestInv, RowInv, Idle
  <1> QED
    BY <1>1, <1>2, <1>3 DEF IInv

\* A request that ends leaves the others as they are.
LEMMA AnswerKeeps ==
  ASSUME IInv, NEW r \in Requests, Answer(r)
  PROVE  /\ req' \in [Requests -> Request]
         /\ \A q \in Requests : req'[q] = req[q] \/ req'[q].pc = "idle"
         /\ req'[r] = Idle
         /\ \A q \in Requests \ {r} : req'[q] = req[q]
  <1>1. Idle \in Request
    BY DEF Idle, Request
  <1> QED
    BY <1>1 DEF Answer, IInv, TypeOK, Idle

\* A create holds a fresh envelope for an id nobody uses.
LEMMA ReceiveCreateStep ==
  ASSUME IInv, NEW r \in Requests, ReceiveCreate(r)
  PROVE  IInv'
  <1>1. PICK n \in Nodes, u \in Identities, i \in Items :
          /\ item[i].state = "none"
          /\ \A q \in Requests : req[q].item # i
          /\ req' = [req EXCEPT ![r] =
               [pc |-> "insert", node |-> n, user |-> u, item |-> i,
                expected |-> None, envelope |-> Encrypt(ring[n], u, i)]]
    BY DEF ReceiveCreate
  <1>2. ring[n].active \in Versions
    BY DEF IInv, TypeOK, KeyRing
  <1>3. FreshFor(Encrypt(ring[n], u, i), ring[n], u, i)
    BY <1>2 DEF FreshFor, Encrypt, Envelope
  <1>4. item[i] = NoRow
    BY <1>1 DEF IInv, RowInv
  <1>5. UNCHANGED <<item, ring>>
    BY DEF ReceiveCreate
  <1> DEFINE new == [pc |-> "insert", node |-> n, user |-> u, item |-> i,
                     expected |-> None, envelope |-> Encrypt(ring[n], u, i)]
  <1>6. new \in Request
    BY <1>3 DEF FreshFor, Request
  <1>7. /\ req'[r] = new
        /\ \A q \in Requests \ {r} : req'[q] = req[q]
        /\ req' \in [Requests -> Request]
    BY <1>1, <1>6 DEF IInv, TypeOK
  <1>8. /\ new.pc = "insert" /\ new.node = n /\ new.user = u /\ new.item = i
        /\ new.envelope = Encrypt(ring[n], u, i)
    OBVIOUS
  <1> HIDE DEF new
  <1>9. RequestInv'
    BY <1>1, <1>3, <1>4, <1>5, <1>7, <1>8 DEF IInv, RequestInv, FreshFor
  <1> QED
    BY <1>5, <1>7, <1>9 DEF IInv, TypeOK, RingInv, RowInv, KeysKept

\* A rotation holds the same data key under the active key.
LEMMA ReceiveRotateStep ==
  ASSUME IInv, NEW r \in Requests, ReceiveRotate(r)
  PROVE  IInv'
  <1>1. PICK n \in Nodes, u \in Identities, i \in Items :
          /\ OwnActive(u, i)
          /\ req' = [req EXCEPT ![r] =
               [pc |-> "update", node |-> n, user |-> u, item |-> i,
                expected |-> item[i].key_version,
                envelope |-> Rewrap(ring[n], item[i].envelope)]]
    BY DEF ReceiveRotate
  <1>2. ring[n].active \in Versions
    BY DEF IInv, TypeOK, KeyRing
  <1>3. /\ item[i].owner = u
        /\ item[i].state = "active"
        /\ item[i].envelope \in Envelope
        /\ item[i].key_version \in Versions
        /\ item[i].envelope.dek = item[i].envelope.sealed
        /\ item[i].envelope.bound = <<u, i>>
    BY <1>1 DEF OwnActive, IInv, RowInv, NoRow, Envelope
  <1>4. FreshFor(Rewrap(ring[n], item[i].envelope), ring[n], u, i)
    BY <1>2, <1>3 DEF FreshFor, Rewrap, Envelope
  <1>5. UNCHANGED <<item, ring>>
    BY DEF ReceiveRotate
  <1> DEFINE new == [pc |-> "update", node |-> n, user |-> u, item |-> i,
                     expected |-> item[i].key_version,
                     envelope |-> Rewrap(ring[n], item[i].envelope)]
  <1>6. new \in Request
    BY <1>3, <1>4 DEF FreshFor, Request
  <1>7. /\ req'[r] = new
        /\ \A q \in Requests \ {r} : req'[q] = req[q]
        /\ req' \in [Requests -> Request]
    BY <1>1, <1>6 DEF IInv, TypeOK
  <1>8. /\ new.pc = "update" /\ new.node = n /\ new.user = u /\ new.item = i
        /\ new.envelope = Rewrap(ring[n], item[i].envelope)
    OBVIOUS
  <1> HIDE DEF new
  <1>9. RequestInv'
    BY <1>3, <1>4, <1>5, <1>7, <1>8 DEF IInv, RequestInv, FreshFor, NoRow
  <1> QED
    BY <1>5, <1>7, <1>9 DEF IInv, TypeOK, RingInv, RowInv, KeysKept

\* The row an insert or an update writes, from the request that holds it.
LEMMA WriteStep ==
  ASSUME IInv, NEW r \in Requests, req[r].pc # "idle", Answer(r), ring' = ring,
         item' \in [Items -> Row],
         \A j \in Items : j # req[r].item => item'[j] = item[j],
         item'[req[r].item].state = "active",
         item'[req[r].item].owner = req[r].user,
         item'[req[r].item].envelope = req[r].envelope,
         item'[req[r].item].key_version = req[r].envelope.version,
         \A q \in Requests \ {r} :
           req[q].pc # "idle" /\ req[q].item = req[r].item =>
             req[q].pc = "update" /\ req[q].user = req[r].user
  PROVE  IInv'
  <1> DEFINE i == req[r].item
  <1>1. /\ i \in Items /\ req[r].node \in Nodes /\ req[r].user \in Identities
        /\ FreshFor(req[r].envelope, ring[req[r].node], req[r].user,
                    req[r].item)
    BY DEF IInv, RequestInv
  <1>2. /\ \A j \in Items : j # i => item'[j] = item[j]
        /\ item'[i].state = "active"
        /\ item'[i].owner = req[r].user
        /\ item'[i].envelope = req[r].envelope
        /\ item'[i].key_version = req[r].envelope.version
    OBVIOUS
  <1>3. TypeOK'
    BY <1>2, AnswerKeeps DEF IInv, TypeOK
  <1>4. RowInv'
    BY <1>1, <1>2 DEF IInv, RowInv, FreshFor
  <1>5. KeysKept'
    <2> SUFFICES ASSUME NEW j \in Items, NEW n \in Nodes, item'[j].state = "active"
                 PROVE  item'[j].key_version \in ring'[n].keys
      BY DEF KeysKept
    <2>1. CASE j = i
      BY <1>1, <1>2, <2>1 DEF IInv, RingInv, FreshFor
    <2>2. CASE j # i
      BY <1>2, <2>2 DEF IInv, KeysKept
    <2> QED
      BY <2>1, <2>2
  <1>6. RequestInv'
    <2> SUFFICES ASSUME NEW q \in Requests, req'[q].pc # "idle"
                 PROVE  (/\ req[q].node \in Nodes
                         /\ req[q].user \in Identities
                         /\ req[q].item \in Items
                         /\ FreshFor(req[q].envelope, ring[req[q].node], req[q].user,
                                     req[q].item)
                         /\ req[q].pc = "insert" =>
                              /\ item[req[q].item] = NoRow
                              /\ \A p \in Requests \ {q} :
                                   req[p].pc # "idle" => req[p].item # req[q].item
                         /\ req[q].pc = "update" =>
                              item[req[q].item].owner = req[q].user)'
      BY DEF RequestInv
    <2>1. q # r /\ req'[q] = req[q]
      BY AnswerKeeps DEF Idle
    <2>2. /\ req[q].node \in Nodes
          /\ req[q].user \in Identities
          /\ req[q].item \in Items
          /\ FreshFor(req[q].envelope, ring[req[q].node], req[q].user,
                      req[q].item)
      BY <2>1 DEF IInv, RequestInv
    <2>3. CASE req[q].item = i
      BY <1>2, <2>1, <2>2, <2>3 DEF FreshFor
    <2>4. CASE req[q].item # i
      <3>1. item'[req[q].item] = item[req[q].item]
        BY <1>2, <2>2, <2>4
      <3>2. \A p \in Requests : req'[p].pc # "idle" => req'[p] = req[p]
        BY AnswerKeeps
      <3> QED
        BY <2>1, <2>2, <3>1, <3>2 DEF IInv, RequestInv, FreshFor
    <2> QED
      BY <2>3, <2>4
  <1>7. RingInv'
    BY DEF IInv, RingInv
  <1> QED
    BY <1>3, <1>4, <1>5, <1>6, <1>7 DEF IInv

\* A request that ends without a write.
LEMMA EndStep ==
  ASSUME IInv, NEW r \in Requests, Answer(r), UNCHANGED <<item, ring>>
  PROVE  IInv'
  <1>1. TypeOK'
    BY AnswerKeeps DEF IInv, TypeOK
  <1>2. \A q \in Requests : req'[q].pc # "idle" => req'[q] = req[q]
    BY AnswerKeeps
  <1>3. RequestInv'
    BY <1>2 DEF IInv, RequestInv, FreshFor
  <1> QED
    BY <1>1, <1>3 DEF IInv, RingInv, RowInv, KeysKept

\* The insert of a create.
LEMMA InsertItemStep ==
  ASSUME IInv, NEW r \in Requests, InsertItem(r)
  PROVE  IInv'
  <1> DEFINE row == [state |-> "active", owner |-> req[r].user,
                     key_version |-> req[r].envelope.version,
                     envelope |-> req[r].envelope]
  <1>1. /\ req[r].pc = "insert" /\ Answer(r) /\ ring' = ring
        /\ item' = [item EXCEPT ![req[r].item] = row]
    BY DEF InsertItem, CreateVaultItem
  <1>2. row \in Row
    BY <1>1 DEF IInv, RequestInv, FreshFor, Row, Envelope
  <1>3. \A q \in Requests \ {r} :
          req[q].pc # "idle" => req[q].item # req[r].item
    BY <1>1 DEF IInv, RequestInv
  <1>4. /\ row.state = "active" /\ row.owner = req[r].user
        /\ row.envelope = req[r].envelope
        /\ row.key_version = req[r].envelope.version
    OBVIOUS
  <1> HIDE DEF row
  <1>5. req[r].item \in Items
    BY <1>1 DEF IInv, RequestInv
  <1>6. /\ item' \in [Items -> Row]
        /\ \A j \in Items : j # req[r].item => item'[j] = item[j]
        /\ item'[req[r].item] = row
    BY <1>1, <1>2, <1>5 DEF IInv, TypeOK
  <1> QED
    BY <1>1, <1>3, <1>4, <1>6, WriteStep

\* The optimistic write of a rotation.
LEMMA UpdateItemStep ==
  ASSUME IInv, NEW r \in Requests, UpdateItem(r)
  PROVE  IInv'
  <1> DEFINE i == req[r].item
  <1>1. CASE Updatable(req[r].user, i, req[r].expected)
    <2>1. /\ req[r].pc = "update" /\ Answer(r) /\ ring' = ring
          /\ item' = [item EXCEPT ![i].envelope = req[r].envelope,
                                  ![i].key_version = req[r].envelope.version]
      BY <1>1 DEF UpdateItem, UpdateVaultEnvelope
    <2>2. /\ i \in Items
          /\ FreshFor(req[r].envelope, ring[req[r].node], req[r].user,
                      req[r].item)
      BY <2>1 DEF IInv, RequestInv
    <2>3. item[i].state = "active" /\ item[i].owner = req[r].user
      BY <1>1 DEF Updatable, OwnActive
    <2>4. item[i] \in Row
      BY <2>2 DEF IInv, TypeOK
    <2>5. /\ \A j \in Items : j # i => item'[j] = item[j]
          /\ item'[i] = [[item[i] EXCEPT !.envelope = req[r].envelope]
                          EXCEPT !.key_version = req[r].envelope.version]
      BY <2>1, <2>2 DEF IInv, TypeOK
    <2>6. /\ item'[i].state = "active"
          /\ item'[i].owner = req[r].user
          /\ item'[i].envelope = req[r].envelope
          /\ item'[i].key_version = req[r].envelope.version
          /\ item'[i] \in Row
      BY <2>2, <2>3, <2>4, <2>5 DEF Row, FreshFor, Envelope
    <2>7. item' \in [Items -> Row]
      BY <2>1, <2>5, <2>6 DEF IInv, TypeOK
    <2>8. ASSUME NEW q \in Requests \ {r}, req[q].pc # "idle", req[q].item = i
          PROVE  req[q].pc = "update" /\ req[q].user = req[r].user
      <3>1. req[q].pc # "insert"
        BY <2>3, <2>8 DEF IInv, RequestInv, NoRow
      <3>2. req[q].pc = "update"
        BY <2>8, <3>1 DEF IInv, TypeOK, Request
      <3> QED
        BY <2>3, <2>8, <3>2 DEF IInv, RequestInv
    <2>9. req[r].pc # "idle"
      BY <2>1
    <2> QED
      BY <2>1, <2>5, <2>6, <2>7, <2>8, <2>9, WriteStep
  <1>2. CASE ~Updatable(req[r].user, i, req[r].expected)
    BY <1>2, EndStep DEF UpdateItem
  <1> QED
    BY <1>1, <1>2

\* A delete marks the row and leaves the rest of it.
LEMMA DeleteItemStep ==
  ASSUME IInv, DeleteItem
  PROVE  IInv'
  <1>1. PICK u \in Identities, i \in Items :
          OwnActive(u, i) /\ item' = [item EXCEPT ![i].state = "deleted"]
    BY DEF DeleteItem, DeleteVaultItem
  <1>2. UNCHANGED <<ring, req>>
    BY DEF DeleteItem
  <1>3. /\ item[i] \in Row /\ item[i].state = "active"
        /\ item'[i] = [item[i] EXCEPT !.state = "deleted"]
        /\ \A j \in Items \ {i} : item'[j] = item[j]
    BY <1>1 DEF OwnActive, IInv, TypeOK
  <1>4. /\ item'[i] \in Row
        /\ item'[i].state = "deleted"
        /\ item'[i].owner = item[i].owner
        /\ item'[i].envelope = item[i].envelope
        /\ item'[i].key_version = item[i].key_version
    BY <1>3 DEF Row
  <1>5. TypeOK'
    BY <1>1, <1>2, <1>4 DEF IInv, TypeOK
  <1>6. RowInv'
    <2> SUFFICES ASSUME NEW j \in Items
                 PROVE  (\/ item[j] = NoRow
                         \/ /\ item[j].state \in {"active", "deleted"}
                            /\ item[j].owner \in Identities
                            /\ item[j].envelope \in Envelope
                            /\ item[j].key_version = item[j].envelope.version
                            /\ item[j].envelope.wrap = item[j].envelope.version
                            /\ item[j].envelope.dek = item[j].envelope.sealed
                            /\ item[j].envelope.bound = <<item[j].owner, j>>)'
      BY DEF RowInv
    <2>1. item[i] # NoRow
      BY <1>3 DEF NoRow
    <2>2. CASE j = i
      BY <1>4, <2>1, <2>2 DEF IInv, RowInv
    <2>3. CASE j # i
      BY <1>3, <2>3 DEF IInv, RowInv
    <2> QED
      BY <2>2, <2>3
  <1>7. KeysKept'
    BY <1>2, <1>3, <1>4 DEF IInv, KeysKept
  <1>8. RequestInv'
    <2>1. item[i] # NoRow
      BY <1>3 DEF NoRow
    <2>2. \A j \in Items : /\ item[j] = NoRow => item'[j] = NoRow
                           /\ item'[j].owner = item[j].owner
      BY <1>3, <1>4, <2>1
    <2> QED
      BY <1>2, <2>2 DEF IInv, RequestInv, FreshFor, NoRow
  <1> QED
    BY <1>2, <1>5, <1>6, <1>7, <1>8 DEF IInv, RingInv

\* A new ring keeps every key in use.
LEMMA RedeployStep ==
  ASSUME IInv, NEW n \in Nodes, Redeploy(n)
  PROVE  IInv'
  <1>1. PICK k \in KeyRing : SafeRollout(n, k) /\ ring' = [ring EXCEPT ![n] = k]
    BY DEF Redeploy
  <1>2. UNCHANGED <<item, req>> /\ \A r \in Requests : req[r].node # n
    BY DEF Redeploy
  <1>3. /\ ring'[n] = k
        /\ \A m \in Nodes \ {n} : ring'[m] = ring[m]
        /\ ring' \in [Nodes -> KeyRing]
    BY <1>1 DEF IInv, TypeOK
  <1>4. RingInv'
    BY <1>1, <1>3 DEF IInv, RingInv, SafeRollout, ValidRing
  <1>5. KeysKept'
    <2> SUFFICES ASSUME NEW i \in Items, NEW m \in Nodes, item[i].state = "active"
                 PROVE  item[i].key_version \in ring'[m].keys
      BY <1>2 DEF KeysKept
    <2>1. item[i].key_version \in Versions
      BY DEF IInv, RowInv, NoRow, Envelope
    <2>2. Referenced(item[i].key_version)
      BY DEF Referenced
    <2> QED
      BY <1>1, <1>3, <2>1, <2>2 DEF IInv, KeysKept, SafeRollout
  <1>6. RequestInv'
    BY <1>2, <1>3 DEF IInv, RequestInv, FreshFor
  <1> QED
    BY <1>2, <1>3, <1>4, <1>5, <1>6 DEF IInv, TypeOK, RowInv

\* IInv is preserved by every step of the specification.
LEMMA IInvStep == IInv /\ [Next]_vars => IInv'
  <1> SUFFICES ASSUME IInv, [Next]_vars PROVE IInv'
    OBVIOUS
  <1>1. ASSUME NEW r \in Requests,
               \/ ReceiveCreate(r) \/ InsertItem(r) \/ ReceiveRotate(r)
               \/ UpdateItem(r) \/ Fail(r)
        PROVE  IInv'
    <2>1. CASE Fail(r)
      BY <2>1, EndStep DEF Fail
    <2> QED
      BY <1>1, <2>1, ReceiveCreateStep, InsertItemStep, ReceiveRotateStep,
         UpdateItemStep
  <1>2. CASE DeleteItem
    BY <1>2, DeleteItemStep
  <1>3. ASSUME NEW n \in Nodes, Redeploy(n)
        PROVE  IInv'
    BY <1>3, RedeployStep
  <1>4. CASE UNCHANGED vars
    BY <1>4 DEF vars, IInv, TypeOK, RingInv, RequestInv, FreshFor, RowInv, KeysKept
  <1> QED
    BY <1>1, <1>2, <1>3, <1>4 DEF Next

\* IInv is inductive.
LEMMA InductiveInvariant == Spec => []IInv
  BY InitIInv, IInvStep, PTL DEF Spec
-----------------------------------------------------------------------------
\* The table, the rings and the requests have their types.
THEOREM TypeCorrect == Spec => []TypeOK
  <1>1. IInv => TypeOK
    BY DEF IInv
  <1> QED
    BY <1>1, InductiveInvariant, PTL

\* In a reachable state an active row can be decrypted with every ring.
LEMMA ActiveOpens ==
  ASSUME IInv, NEW i \in Items, item[i].state = "active"
  PROVE  \A n \in Nodes : Decrypts(ring[n], i)
  BY DEF IInv, RowInv, KeysKept, NoRow, Decrypts, Unwraps

\* No interleaving leaves an item some instance cannot decrypt.
THEOREM ItemsOpen == Spec => []EveryItemOpensEverywhere
  <1>1. IInv => EveryItemOpensEverywhere
    BY ActiveOpens DEF EveryItemOpensEverywhere
  <1> QED
    BY <1>1, InductiveInvariant, PTL
-----------------------------------------------------------------------------
(* The steps of the table, for the action property and the refinement. *)

\* Row i gets the key some instance encrypts under.
WrittenUnderActive(i) ==
  /\ item'[i].state = "active"
  /\ \E n \in Nodes : item'[i].key_version = ring[n].active

\* What a step does to row i, the only one it writes.
RowChange(i) ==
  /\ \A j \in Items : j # i => item'[j] = item[j]
  /\ \/ /\ item[i] = NoRow
        /\ item'[i].owner \in Identities
        /\ WrittenUnderActive(i)
     \/ /\ item[i].state = "active"
        /\ item'[i].owner = item[i].owner
        /\ WrittenUnderActive(i)
     \/ /\ item[i].state = "active"
        /\ item'[i].state = "deleted"
        /\ item'[i].owner = item[i].owner

\* An insert fills an empty row.
LEMMA InsertChanges ==
  ASSUME IInv, NEW r \in Requests, InsertItem(r)
  PROVE  \E i \in Items : RowChange(i)
  <1> DEFINE i == req[r].item
             row == [state |-> "active", owner |-> req[r].user,
                     key_version |-> req[r].envelope.version,
                     envelope |-> req[r].envelope]
  <1>1. req[r].pc = "insert" /\ item' = [item EXCEPT ![i] = row]
    BY DEF InsertItem, CreateVaultItem
  <1>2. /\ i \in Items /\ item[i] = NoRow
        /\ req[r].user \in Identities /\ req[r].node \in Nodes
        /\ req[r].envelope.version = ring[req[r].node].active
    BY <1>1 DEF IInv, RequestInv, FreshFor
  <1>3. /\ row.state = "active" /\ row.owner = req[r].user
        /\ row.key_version = req[r].envelope.version
    OBVIOUS
  <1> HIDE DEF row
  <1>4. item'[i] = row /\ \A j \in Items : j # i => item'[j] = item[j]
    BY <1>1, <1>2 DEF IInv, TypeOK
  <1>5. RowChange(i)
    BY <1>2, <1>3, <1>4 DEF RowChange, WrittenUnderActive
  <1> QED
    BY <1>2, <1>5

\* An update changes a row or finds none.
LEMMA UpdateChanges ==
  ASSUME IInv, NEW r \in Requests, UpdateItem(r)
  PROVE  item' = item \/ \E i \in Items : RowChange(i)
  <1> DEFINE i == req[r].item
  <1>1. CASE Updatable(req[r].user, i, req[r].expected)
    <2>1. /\ req[r].pc = "update"
          /\ item' = [item EXCEPT ![i].envelope = req[r].envelope,
                                  ![i].key_version = req[r].envelope.version]
      BY <1>1 DEF UpdateItem, UpdateVaultEnvelope
    <2>2. /\ i \in Items /\ req[r].node \in Nodes
          /\ req[r].envelope.version = ring[req[r].node].active
      BY <2>1 DEF IInv, RequestInv, FreshFor
    <2>3. item[i].state = "active"
      BY <1>1 DEF Updatable, OwnActive
    <2>4. item[i] \in Row
      BY <2>2 DEF IInv, TypeOK
    <2>5. /\ \A j \in Items : j # i => item'[j] = item[j]
          /\ item'[i] = [[item[i] EXCEPT !.envelope = req[r].envelope]
                          EXCEPT !.key_version = req[r].envelope.version]
      BY <2>1, <2>2 DEF IInv, TypeOK
    <2>6. /\ item'[i].state = "active"
          /\ item'[i].owner = item[i].owner
          /\ item'[i].key_version = req[r].envelope.version
      BY <2>3, <2>4, <2>5 DEF Row
    <2>7. RowChange(i)
      BY <2>2, <2>3, <2>5, <2>6 DEF RowChange, WrittenUnderActive
    <2> QED
      BY <2>2, <2>7
  <1>2. CASE ~Updatable(req[r].user, i, req[r].expected)
    BY <1>2 DEF UpdateItem
  <1> QED
    BY <1>1, <1>2

\* A delete changes an active row.
LEMMA DeleteChanges ==
  ASSUME IInv, DeleteItem
  PROVE  \E i \in Items : RowChange(i)
  <1>1. PICK u \in Identities, i \in Items :
          OwnActive(u, i) /\ item' = [item EXCEPT ![i].state = "deleted"]
    BY DEF DeleteItem, DeleteVaultItem
  <1>2. /\ item[i] \in Row /\ item[i].state = "active"
        /\ item'[i] = [item[i] EXCEPT !.state = "deleted"]
        /\ \A j \in Items : j # i => item'[j] = item[j]
    BY <1>1 DEF OwnActive, IInv, TypeOK
  <1>3. item'[i].state = "deleted" /\ item'[i].owner = item[i].owner
    BY <1>2 DEF Row
  <1>4. RowChange(i)
    BY <1>2, <1>3 DEF RowChange
  <1> QED
    BY <1>4

\* A step leaves the table alone or changes one row.
LEMMA StepChanges ==
  ASSUME IInv, [Next]_vars
  PROVE  item' = item \/ \E i \in Items : RowChange(i)
  <1>1. ASSUME NEW r \in Requests,
               \/ ReceiveCreate(r) \/ InsertItem(r) \/ ReceiveRotate(r)
               \/ UpdateItem(r) \/ Fail(r)
        PROVE  item' = item \/ \E i \in Items : RowChange(i)
    <2>1. CASE ReceiveCreate(r) \/ ReceiveRotate(r) \/ Fail(r)
      BY <2>1 DEF ReceiveCreate, ReceiveRotate, Fail
    <2> QED
      BY <1>1, <2>1, InsertChanges, UpdateChanges
  <1>2. CASE \E n \in Nodes : Redeploy(n)
    BY <1>2 DEF Redeploy
  <1>3. CASE UNCHANGED vars
    BY <1>3 DEF vars
  <1> QED
    BY <1>1, <1>2, <1>3, DeleteChanges DEF Next

\* What one step may do to the use of a version.
KeyStaysRetired ==
  \A v \in Versions :
    ~Referenced(v) /\ (\A n \in Nodes : ring[n].active # v) => ~Referenced(v)'

\* No request brings back a version that is neither named nor active.
LEMMA RetiredStep == IInv /\ [Next]_vars => KeyStaysRetired
  <1> SUFFICES ASSUME IInv, [Next]_vars, NEW v \in Versions,
                      \A n \in Nodes : ring[n].active # v, Referenced(v)'
               PROVE  Referenced(v)
    BY DEF KeyStaysRetired
  <1>1. PICK i \in Items : item'[i].state = "active" /\ item'[i].key_version = v
    BY DEF Referenced
  <1>2. CASE item'[i] = item[i]
    BY <1>1, <1>2 DEF Referenced
  <1>3. CASE item'[i] # item[i]
    <2>1. RowChange(i)
      BY <1>3, StepChanges DEF RowChange
    <2> QED
      BY <1>1, <2>1 DEF RowChange, WrittenUnderActive
  <1> QED
    BY <1>2, <1>3

\* A key the operator found unused stays unused.
THEOREM RetiredKeys == Spec => RetiredKeysStayUnused
  <1>1. IInv /\ [Next]_vars => [KeyStaysRetired]_vars
    BY RetiredStep
  <1>2. [KeyStaysRetired]_vars =>
          [\A v \in Versions :
             ~Referenced(v) /\ (\A n \in Nodes : ring[n].active # v)
               => ~Referenced(v)']_vars
    BY DEF KeyStaysRetired
  <1> QED
    BY <1>1, <1>2, InductiveInvariant, PTL DEF Spec, RetiredKeysStayUnused
-----------------------------------------------------------------------------
(* The refinement. *)

\* Every item is absent, readable or deleted.
SecretsSeen ==
  \A i \in Items :
    \/ item[i] = NoRow /\ SecretOf(i) = Promise!Absent
    \/ /\ item[i].state = "active"
       /\ SecretOf(i) = [state |-> "readable", owner |-> item[i].owner]
    \/ /\ item[i].state = "deleted"
       /\ SecretOf(i) = [state |-> "deleted", owner |-> item[i].owner]

\* No item of a reachable state is lost.
LEMMA SecretView == IInv => SecretsSeen
  <1> SUFFICES ASSUME IInv, NEW i \in Items
               PROVE  \/ item[i] = NoRow /\ SecretOf(i) = Promise!Absent
                      \/ /\ item[i].state = "active"
                         /\ SecretOf(i) = [state |-> "readable",
                                           owner |-> item[i].owner]
                      \/ /\ item[i].state = "deleted"
                         /\ SecretOf(i) = [state |-> "deleted",
                                           owner |-> item[i].owner]
    BY DEF SecretsSeen
  <1>1. CASE item[i] = NoRow
    BY <1>1 DEF SecretOf, NoRow, Promise!Absent
  <1>2. CASE item[i].state = "active"
    BY <1>2, ActiveOpens DEF SecretOf
  <1>3. CASE item[i].state = "deleted"
    BY <1>3 DEF SecretOf
  <1> QED
    BY <1>1, <1>2, <1>3 DEF IInv, RowInv

\* The refinement mapping.
Secrets == [i \in Items |-> SecretOf(i)]

\* A change of one row is a step of the abstract specification or a stutter.
LEMMA ChangeImplements ==
  ASSUME SecretsSeen, SecretsSeen', NEW i \in Items, RowChange(i), IInv
  PROVE  [Promise!Next]_Secrets
  <1>1. Secrets' = [Secrets EXCEPT ![i] = SecretOf(i)']
    <2>1. ASSUME NEW j \in Items, j # i
          PROVE  SecretOf(j)' = SecretOf(j)
      <3>1. item'[j] = item[j]
        BY <2>1 DEF RowChange
      <3> QED
        BY <3>1 DEF SecretsSeen, NoRow
    <2> QED
      BY <2>1 DEF Secrets
  <1>2. CASE /\ item[i] = NoRow
             /\ item'[i].state = "active" /\ item'[i].owner \in Identities
    <2>1. SecretOf(i) = Promise!Absent
      BY <1>2 DEF SecretsSeen, NoRow
    <2>2. SecretOf(i)' = [state |-> "readable", owner |-> item'[i].owner]
      BY <1>2 DEF SecretsSeen, NoRow
    <2>3. Promise!Store(item'[i].owner, i)
      BY <1>1, <2>1, <2>2 DEF Promise!Store, Promise!Absent, Secrets
    <2> QED
      BY <1>2, <2>3 DEF Promise!Next
  <1>3. CASE /\ item[i].state = "active" /\ item'[i].state = "active"
             /\ item'[i].owner = item[i].owner
    <2>1. SecretOf(i)' = SecretOf(i)
      BY <1>3 DEF SecretsSeen, NoRow
    <2> QED
      BY <1>1, <2>1 DEF Secrets
  <1>4. CASE /\ item[i].state = "active" /\ item'[i].state = "deleted"
             /\ item'[i].owner = item[i].owner
    <2>1. item[i].owner \in Identities
      BY <1>4 DEF IInv, RowInv, NoRow
    <2>2. SecretOf(i) = [state |-> "readable", owner |-> item[i].owner]
      BY <1>4 DEF SecretsSeen, NoRow
    <2>3. SecretOf(i)' = [state |-> "deleted", owner |-> item[i].owner]
      BY <1>4 DEF SecretsSeen, NoRow
    <2>4. Promise!Delete(item[i].owner, i)
      BY <1>1, <2>2, <2>3 DEF Promise!Delete, Secrets
    <2> QED
      BY <2>1, <2>4 DEF Promise!Next
  <1> QED
    BY <1>2, <1>3, <1>4 DEF RowChange, WrittenUnderActive

\* Every step of the service is one of the abstract specification or a stutter.
LEMMA StepImplements ==
  IInv /\ SecretsSeen /\ SecretsSeen' /\ [Next]_vars => [Promise!Next]_Secrets
  <1> SUFFICES ASSUME IInv, SecretsSeen, SecretsSeen', [Next]_vars
               PROVE  [Promise!Next]_Secrets
    OBVIOUS
  <1>1. CASE item' = item
    <2>1. \A i \in Items : SecretOf(i)' = SecretOf(i)
      BY <1>1 DEF SecretsSeen, NoRow
    <2> QED
      BY <2>1 DEF Secrets
  <1>2. CASE \E i \in Items : RowChange(i)
    BY <1>2, ChangeImplements
  <1> QED
    BY <1>1, <1>2, StepChanges

\* The service implements SecretStore.
THEOREM Implements == Spec => ImplementsSecretStore
  <1>1. Init => Promise!Init
    BY DEF Init, NoRow, SecretOf, Promise!Init, Promise!Absent
  <1>2. [Promise!Next]_Secrets => [Promise!Next]_[i \in Items |-> SecretOf(i)]
    BY DEF Secrets
  <1> QED
    BY <1>1, <1>2, StepImplements, SecretView, InductiveInvariant, PTL
       DEF Spec, ImplementsSecretStore, Promise!Spec
-----------------------------------------------------------------------------
(* The life of one item. *)

\* Who has stored an item, and that it is deleted, is never taken back.
LEMMA ItemStep ==
  ASSUME IInv, [Next]_vars, NEW i \in Items, item[i] # NoRow
  PROVE  /\ item'[i] # NoRow /\ item'[i].owner = item[i].owner
         /\ item[i].state = "deleted" => item'[i].state = "deleted"
  <1>1. CASE item'[i] = item[i]
    BY <1>1
  <1>2. ASSUME NEW j \in Items, RowChange(j)
        PROVE  /\ item'[i] # NoRow /\ item'[i].owner = item[i].owner
               /\ item[i].state = "deleted" => item'[i].state = "deleted"
    <2>1. CASE j # i
      BY <1>2, <2>1 DEF RowChange
    <2>2. CASE j = i
      BY <1>2, <2>2 DEF RowChange, WrittenUnderActive, NoRow
    <2> QED
      BY <2>1, <2>2
  <1> QED
    BY <1>1, <1>2, StepChanges

\* From its creation to its deletion the owner of an item can read it from
\* every instance, whatever is rotated, rolled over or lost in between; from
\* its deletion on nobody can.
THEOREM StoredSecretsStay ==
  ASSUME NEW u \in Identities, NEW i \in Items
  PROVE  Spec =>
    /\ [](OwnActive(u, i) =>
            [](\/ OwnActive(u, i) /\ \A n \in Nodes : Decrypts(ring[n], i)
               \/ item[i].state = "deleted" /\ item[i].owner = u))
    /\ [](item[i].state = "deleted" => []~OwnActive(u, i))
  <1> DEFINE Own     == OwnActive(u, i)
             Stored  == item[i] # NoRow /\ item[i].owner = u
             Deleted == item[i] # NoRow /\ item[i].state = "deleted"
             Kept == \/ OwnActive(u, i) /\ \A n \in Nodes : Decrypts(ring[n], i)
                     \/ item[i].state = "deleted" /\ item[i].owner = u
             Gone == item[i].state = "deleted"
  <1>1. Own => Stored
    BY DEF OwnActive, NoRow
  <1>2. Gone => Deleted
    BY DEF NoRow
  <1>3. Deleted => ~Own
    BY DEF OwnActive
  <1>4. IInv /\ Stored => Kept
    BY ActiveOpens DEF IInv, RowInv, OwnActive
  <1>5. IInv /\ [Next]_vars /\ Stored => Stored'
    BY ItemStep
  <1>6. IInv /\ [Next]_vars /\ Deleted => Deleted'
    BY ItemStep
  <1>7. Spec => []IInv
    BY InductiveInvariant
  <1>8. Spec => [][Next]_vars
    BY PTL DEF Spec
  <1> HIDE DEF Own, Stored, Deleted, Kept, Gone
  <1>9. Spec => [](Own => []Kept) /\ [](Gone => []~Own)
    BY <1>1, <1>2, <1>3, <1>4, <1>5, <1>6, <1>7, <1>8, PTL
  <1> QED
    BY <1>9 DEF Own, Kept, Gone
=============================================================================
