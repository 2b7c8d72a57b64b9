---------------------------- MODULE VaultService ----------------------------
(***************************************************************************)
(* The vault service (services/vault), the envelopes and key rings of      *)
(* crates/authlink-vault and the vault_item table.  Several instances of   *)
(* the service run while the operator rolls master keys over: each has the *)
(* key ring of the environment it was started with.                        *)
(*                                                                         *)
(* get_item and list_items only read: Decrypts says what a get answers.    *)
(* A request that authorize refuses has no effect and is left out.         *)
(***************************************************************************)
CONSTANTS
  Identities,   \* users
  Items,        \* vault item ids (UUIDv7, never reused)
  Versions,     \* master-key versions; a version names one key
  Nodes,        \* running instances of the service
  Requests,     \* concurrent requests
  None

ASSUME VaultAssumption == None \notin Identities \cup Items \cup Versions

VARIABLES
  item,   \* authlink.vault_item
  ring,   \* the key ring of each instance
  req     \* the requests in progress

vars == <<item, ring, req>>

KeyRing == [active : Versions, keys : SUBSET Versions]

\* version: the key version the envelope names; wrap: the master key that
\* wraps its data key; dek: that data key; sealed: the data key its payload is
\* encrypted with; bound: the owner and item in its associated data.
Envelope ==
  [version : Versions, wrap : Versions, dek : Items, sealed : Items,
   bound : Identities \X Items]

Row ==
  [state : {"none", "active", "deleted"}, owner : Identities \cup {None},
   key_version : Versions \cup {None}, envelope : Envelope \cup {None}]

Request ==
  [pc : {"idle", "insert", "update"}, node : Nodes \cup {None},
   user : Identities \cup {None}, item : Items \cup {None},
   expected : Versions \cup {None}, envelope : Envelope \cup {None}]

NoRow == [state |-> "none", owner |-> None, key_version |-> None,
          envelope |-> None]

Idle == [pc |-> "idle", node |-> None, user |-> None, item |-> None,
         expected |-> None, envelope |-> None]

\* KeyRing::new: the active version is one of the keys.
ValidRing(k) == k.active \in k.keys

Init ==
  /\ item = [i \in Items |-> NoRow]
  /\ \E v \in Versions : ring = [n \in Nodes |-> [active |-> v, keys |-> {v}]]
  /\ req = [r \in Requests |-> Idle]

\* The type of the table, the rings and the requests.
TypeOK ==
  /\ item \in [Items -> Row]
  /\ ring \in [Nodes -> KeyRing]
  /\ req \in [Requests -> Request]
-----------------------------------------------------------------------------
(* Envelopes. *)

\* Defect variant: wrapped under the first key of the map.
EncryptFirstKey(k, u, i) ==
  LET v == CHOOSE v \in k.keys : TRUE IN
  [version |-> v, wrap |-> v, dek |-> i, sealed |-> i,
   bound |-> <<u, i>>]

\* encrypt: a fresh data key, wrapped by the active master key.  The data key
\* is named by the item it was made for.
Encrypt(k, u, i) ==
  [version |-> k.active, wrap |-> k.active, dek |-> i, sealed |-> i,
   bound |-> <<u, i>>]

\* The ring has the key an envelope names, and that key unwraps its data key
\* for the binding, which is taken from row i.
Unwraps(k, i) ==
  LET e == item[i].envelope IN
  e.version \in k.keys /\ e.wrap = e.version /\ e.bound = <<item[i].owner, i>>

\* decrypt: that data key opens the payload.
Decrypts(k, i) ==
  Unwraps(k, i) /\ item[i].envelope.dek = item[i].envelope.sealed

\* Defect variant: the payload's data key is replaced, its ciphertext is not.
RewrapFreshKey(k, e) ==
  [e EXCEPT !.version = k.active, !.wrap = k.active,
            !.dek = CHOOSE i \in Items : i # e.dek]

\* rewrap: the same data key under the active master key.
Rewrap(k, e) == [e EXCEPT !.version = k.active, !.wrap = k.active]
-----------------------------------------------------------------------------
(* The statements on vault_item. *)

\* The WHERE clause of load_vault_item and of delete_vault_item.
OwnActive(u, i) == item[i].state = "active" /\ item[i].owner = u

CreateVaultItem(u, i, e) ==
  item' = [item EXCEPT ![i] = [state |-> "active", owner |-> u,
                               key_version |-> e.version, envelope |-> e]]

\* The WHERE clause of update_vault_envelope.
Updatable(u, i, v) == OwnActive(u, i) /\ item[i].key_version = v

\* Defect variant: the column keeps the version the item was created with.
UpdateEnvelopeOnly(i, e) == item' = [item EXCEPT ![i].envelope = e]

UpdateVaultEnvelope(i, e) ==
  item' = [item EXCEPT ![i].envelope = e, ![i].key_version = e.version]

\* Defect variant: a state the table's check constraint does not know.
DeleteAsRemoved(i) == item' = [item EXCEPT ![i].state = "removed"]

DeleteVaultItem(i) == item' = [item EXCEPT ![i].state = "deleted"]
-----------------------------------------------------------------------------
Answer(r) == req' = [req EXCEPT ![r] = Idle]

\* create_item: the payload is encrypted under the ring of the instance, for
\* an id nobody has used.
ReceiveCreate(r) ==
  /\ req[r].pc = "idle"
  /\ \E n \in Nodes, u \in Identities, i \in Items :
       /\ item[i].state = "none"
       /\ \A q \in Requests : req[q].item # i
       /\ req' = [req EXCEPT ![r] =
            [pc |-> "insert", node |-> n, user |-> u, item |-> i,
             expected |-> None, envelope |-> Encrypt(ring[n], u, i)]]
  /\ UNCHANGED <<item, ring>>

InsertItem(r) ==
  /\ req[r].pc = "insert"
  /\ CreateVaultItem(req[r].user, req[r].item, req[r].envelope)
  /\ Answer(r)
  /\ UNCHANGED ring

\* rotate_item: the row is read and its envelope rewrapped in memory.  An item
\* at the active version is answered already-current, one whose key the ring
\* lacks VAULT_ROTATION_FAILED, without effect.
ReceiveRotate(r) ==
  /\ req[r].pc = "idle"
  /\ \E n \in Nodes, u \in Identities, i \in Items :
       /\ OwnActive(u, i)
       /\ item[i].key_version # ring[n].active
       /\ Unwraps(ring[n], i)
       /\ req' = [req EXCEPT ![r] =
            [pc |-> "update", node |-> n, user |-> u, item |-> i,
             expected |-> item[i].key_version,
             envelope |-> Rewrap(ring[n], item[i].envelope)]]
  /\ UNCHANGED <<item, ring>>

\* The optimistic write; VAULT_ITEM_CHANGED when the clause finds no row.
UpdateItem(r) ==
  LET i == req[r].item IN
  /\ req[r].pc = "update"
  /\ \/ /\ Updatable(req[r].user, i, req[r].expected)
        /\ UpdateVaultEnvelope(i, req[r].envelope)
     \/ /\ ~Updatable(req[r].user, i, req[r].expected)
        /\ UNCHANGED item
  /\ Answer(r)
  /\ UNCHANGED ring

\* delete_item is one statement.
DeleteItem ==
  /\ \E u \in Identities, i \in Items : OwnActive(u, i) /\ DeleteVaultItem(i)
  /\ UNCHANGED <<ring, req>>

\* A failed call, a cancelled handler or the stop of its instance.
Fail(r) ==
  /\ req[r].pc # "idle"
  /\ Answer(r)
  /\ UNCHANGED <<item, ring>>
-----------------------------------------------------------------------------
(* The operator. *)

\* What an operator can query: a version some active row names.
Referenced(v) ==
  \E i \in Items : item[i].state = "active" /\ item[i].key_version = v

(***************************************************************************)
(* The rollout of keys: a key is on every instance before one encrypts     *)
(* under it, and leaves a ring only when no active row names its version   *)
(* and no other instance encrypts under it.  The service checks only that  *)
(* the ring is valid; the rest is the operator's part.                     *)
(***************************************************************************)
SafeRollout(n, k) ==
  /\ ValidRing(k)
  /\ \A v \in Versions : Referenced(v) => v \in k.keys
  /\ \A m \in Nodes \ {n} : ring[m].active \in k.keys /\ k.active \in ring[m].keys

\* An instance has stopped, its requests with it, and starts with ring k.
Redeploy(n) ==
  /\ \A r \in Requests : req[r].node # n
  /\ \E k \in KeyRing : SafeRollout(n, k) /\ ring' = [ring EXCEPT ![n] = k]
  /\ UNCHANGED <<item, req>>

Next ==
  \/ \E r \in Requests : \/ ReceiveCreate(r) \/ InsertItem(r)
                         \/ ReceiveRotate(r) \/ UpdateItem(r)
                         \/ Fail(r)
  \/ DeleteItem
  \/ \E n \in Nodes : Redeploy(n)

Spec == Init /\ [][Next]_vars
-----------------------------------------------------------------------------
(* What the vault promises. *)

\* No interleaving of creates, rotations, deletes and key rollovers leaves an
\* active item that some instance cannot decrypt: a get by its owner never
\* answers VAULT_DECRYPTION_FAILED.
EveryItemOpensEverywhere ==
  \A i \in Items, n \in Nodes :
    item[i].state = "active" => Decrypts(ring[n], i)

\* A version no active row names and no instance encrypts under stays unused
\* until an instance is started with it: no request in progress brings it back
\* after the operator has found that its key can be removed.
RetiredKeysStayUnused ==
  [][\A v \in Versions :
       ~Referenced(v) /\ (\A n \in Nodes : ring[n].active # v)
         => ~Referenced(v)']_vars

\* An item as its owner sees it: lost when some instance cannot decrypt it.
SecretOf(i) ==
  [state |-> IF item[i].state = "none" THEN "absent"
             ELSE IF item[i].state = "deleted" THEN "deleted"
             ELSE IF \A n \in Nodes : Decrypts(ring[n], i) THEN "readable"
             ELSE "lost",
   owner |-> item[i].owner]

Promise == INSTANCE SecretStore WITH secret <- [i \in Items |-> SecretOf(i)]

\* The service implements SecretStore: rotations and rollovers are invisible,
\* deletes are final, no secret is lost and none changes hands.
ImplementsSecretStore == Promise!Spec
=============================================================================
