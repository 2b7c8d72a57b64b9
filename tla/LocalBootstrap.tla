--------------------------- MODULE LocalBootstrap ---------------------------
(***************************************************************************)
(* The local installation: scripts/bootstrap-local.mjs writes .env.local   *)
(* and prepares OpenFGA, scripts/dev-local.mjs starts the vault from that  *)
(* file, the vault stores items under the ring it was started with, and a  *)
(* developer edits the ring, resets the containers and changes the model.  *)
(*                                                                         *)
(* The two programs parse a key ring each in its own way.  An entry is its *)
(* version number, how that number is written, whether its base64 carries  *)
(* its padding, and the key.  Of .env.local only the ring and the OpenFGA  *)
(* ids are kept; the other values play no part in what is promised.  One   *)
(* run of the script at a time.                                            *)
(***************************************************************************)
EXTENDS Integers, FiniteSets

CONSTANTS
  Keys,      \* master keys, 32 random bytes each: a bound on how many are drawn
  Versions,  \* the version numbers a developer writes
  Texts,     \* the ways a developer writes them
  Paddings,  \* whether what a developer writes has its base64 padding
  MaxU32,    \* the largest number the vault parses
  Stores,    \* OpenFGA store ids
  Models,    \* OpenFGA authorization model ids
  Hashes,    \* contents of infra/openfga/model.json
  None

\* "1", "01", "+1" and " 1" are the number one.
VersionTexts == {"plain", "zeros", "plus", "spaced"}

ASSUME BoundsAssumption ==
  /\ Versions \subseteq Nat
  /\ Texts \subseteq VersionTexts
  /\ Paddings \subseteq BOOLEAN
  /\ MaxU32 \in Nat \ {0}

ASSUME NoneAssumption ==
  /\ None \notin Stores \cup Models \cup Hashes
  /\ None \notin [ring : SUBSET [version : Nat, text : VersionTexts,
                                 padded : BOOLEAN, key : Keys],
                  active : [version : Nat, text : VersionTexts],
                  store : Stores \cup {None}, model : Models \cup {None},
                  hash : Hashes \cup {None}]
  /\ None \notin [version : Nat, ring : SUBSET (Nat \X Keys), store : Stores]

VARIABLES
  file,      \* .env.local; None when missing or empty
  pc,        \* the next step of the script
  env,       \* the values the script holds in memory
  source,    \* the content of model.json
  store,     \* OpenFGA: the life of every store id
  model,     \* OpenFGA: the store and content of every model id
  vault,     \* the ring and OpenFGA store of the running vault, or None
  items,     \* the <<version, key>> pairs stored items are wrapped under
  drawn,     \* history: the keys that were ever drawn
  mishaps    \* history: what went wrong around the script

vars == <<file, pc, env, source, store, model, vault, items, drawn, mishaps>>

Entry  == [version : Nat, text : VersionTexts, padded : BOOLEAN, key : Keys]
Active == [version : Nat, text : VersionTexts]
EnvFile == [ring : SUBSET Entry, active : Active, store : Stores \cup {None},
            model : Models \cup {None}, hash : Hashes \cup {None}]
Ring == [version : Nat, ring : SUBSET (Nat \X Keys), store : Stores]

PCs == {"idle", "write_env", "writing_env", "check_store", "create_store",
        "model", "create_model", "write_fga", "writing_fga", "ready"}

Mishaps == {"bad_ring", "odd_ring", "torn", "overlap", "store_refused"}

Init ==
  /\ file = None /\ pc = "idle" /\ env = None /\ source \in Hashes
  /\ store = [s \in Stores |-> "unused"]
  /\ model = [m \in Models |-> [store |-> None, hash |-> None]]
  /\ vault = None /\ items = {} /\ drawn = {} /\ mishaps = {}
-----------------------------------------------------------------------------
(* The two parsers. *)

\* Defect variant: an off-by-one at the smallest version.
IsVersionAboveOne(x) == x.text \in {"plain", "zeros"} /\ x.version > 1

\* /^\d+$/ and Number(...) >= 1.
IsVersion(x) == x.text \in {"plain", "zeros"} /\ x.version >= 1

\* validVaultKeys of the script: versions are compared as they are written,
\* padding is optional, numbers have no upper limit and may repeat.
ValidVaultKeys(f) ==
  /\ IsVersion(f.active)
  /\ f.ring # {}
  /\ \A e \in f.ring : IsVersion(e)
  /\ \E e \in f.ring : e.version = f.active.version /\ e.text = f.active.text

\* KeyRing::from_encoded and KeyRing::new: an entry is trimmed, its version
\* parsed as a u32, its key decoded with padding; versions do not repeat.
KeyRingParses(f) ==
  /\ f.ring # {}
  /\ \A e \in f.ring : e.padded /\ e.version <= MaxU32
  /\ \A e, g \in f.ring : e.version = g.version => e = g
  /\ \E e \in f.ring : e.version = f.active.version

\* Defect variant: the ring of the file is used unchecked.
VaultStartsUnchecked(f) == f.ring # {}

\* The vault starts: the active version is a positive u32 (not trimmed).
VaultStarts(f) ==
  /\ f.active.text # "spaced"
  /\ f.active.version \in 1..MaxU32
  /\ KeyRingParses(f)

\* A ring written the way the script itself writes one.
Canonical(f) ==
  /\ VaultStarts(f)
  /\ f.active.text = "plain"
  /\ \A e \in f.ring : e.text = "plain" /\ e.version >= 1

Pairs(f) == {<<e.version, e.key>> : e \in f.ring}

\* How a ring found in the file counts for the history.
Judge(f) ==
  IF f = None \/ Canonical(f) THEN {}
  ELSE IF VaultStarts(f) THEN {"odd_ring"} ELSE {"bad_ring"}
-----------------------------------------------------------------------------
(* The script. *)

\* Defect variant: the active version of a replaced ring is kept.
FreshRingKeepsActive(f, k) ==
  [f EXCEPT !.ring = {[version |-> 1, text |-> "plain", padded |-> TRUE,
                       key |-> k]}]

\* A new ring with one random key.
FreshRing(f, k) ==
  [f EXCEPT !.ring = {[version |-> 1, text |-> "plain", padded |-> TRUE,
                       key |-> k]},
            !.active = [version |-> 1, text |-> "plain"]]

Defaults == [ring |-> {}, active |-> [version |-> 1, text |-> "plain"],
             store |-> None, model |-> None, hash |-> None]

\* ensureEnv reads the file and fills in what is missing; a ring that is not
\* valid is replaced.
ReadEnv ==
  /\ pc = "idle"
  /\ LET found == IF file = None THEN Defaults ELSE file IN
     IF ValidVaultKeys(found)
     THEN env' = found /\ UNCHANGED drawn
     ELSE \E k \in Keys \ drawn :
            env' = FreshRing(found, k) /\ drawn' = drawn \cup {k}
  /\ mishaps' = mishaps \cup Judge(file)
  /\ pc' = "write_env"
  /\ UNCHANGED <<file, source, store, model, vault, items>>

Writing == pc \in {"writing_env", "writing_fga"}

\* writeFileSync opens the file, which empties it...
TruncateFile ==
  /\ \/ pc = "write_env" /\ pc' = "writing_env"
     \/ pc = "write_fga" /\ pc' = "writing_fga"
  /\ file' = None
  /\ UNCHANGED <<env, source, store, model, vault, items, drawn, mishaps>>

\* ...and writes it.  In mode `env' the script ends here.
WriteFile ==
  /\ \/ pc = "writing_env" /\ pc' \in {"check_store", "idle"}
     \/ pc = "writing_fga" /\ pc' = "ready"
  /\ file' = env
  /\ env' = IF pc' = "idle" THEN None ELSE env
  /\ UNCHANGED <<source, store, model, vault, items, drawn, mishaps>>

\* bootstrapOpenFga asks for the store it knows.  Whatever the failure, the
\* script goes on without that store.
CheckStore ==
  /\ pc = "check_store"
  /\ \/ /\ env.store = None
        /\ pc' = "create_store" /\ UNCHANGED mishaps
     \/ /\ env.store # None /\ store[env.store] = "live"
        /\ pc' = "model" /\ UNCHANGED mishaps
     \/ /\ env.store # None
        /\ pc' = "create_store" /\ mishaps' = mishaps \cup {"store_refused"}
  /\ UNCHANGED <<file, env, source, store, model, vault, items, drawn>>

CreateStore ==
  /\ pc = "create_store"
  /\ \E s \in Stores :
       /\ store[s] = "unused"
       /\ store' = [store EXCEPT ![s] = "live"]
       /\ env' = [env EXCEPT !.store = s]
  /\ pc' = "model"
  /\ UNCHANGED <<file, source, model, vault, items, drawn, mishaps>>

\* Defect variant: an existing model is kept whatever model.json holds.
NeedsModelIfMissing == env.model = None

NeedsModel == env.model = None \/ env.hash # source

\* model.json is read and compared with the hash of the last run.
ReadModel ==
  /\ pc = "model"
  /\ pc' = IF NeedsModel THEN "create_model" ELSE "write_fga"
  /\ env' = [env EXCEPT !.hash = source]
  /\ UNCHANGED <<file, source, store, model, vault, items, drawn, mishaps>>

CreateModel ==
  /\ pc = "create_model"
  /\ store[env.store] = "live"
  /\ \E m \in Models :
       /\ model[m].store = None
       /\ model' = [model EXCEPT ![m] = [store |-> env.store,
                                         hash |-> env.hash]]
       /\ env' = [env EXCEPT !.model = m]
  /\ pc' = "write_fga"
  /\ UNCHANGED <<file, source, store, vault, items, drawn, mishaps>>

\* The script ends: its last line, a failed call, a wait that timed out, or a
\* kill at any point.
Stop ==
  /\ pc # "idle"
  /\ pc' = "idle" /\ env' = None
  /\ mishaps' = IF Writing THEN mishaps \cup {"torn"} ELSE mishaps
  /\ UNCHANGED <<file, source, store, model, vault, items, drawn>>
-----------------------------------------------------------------------------
(* The vault. *)

\* dev-local.mjs wants a complete file; the vault refuses what it cannot parse.
StartVault ==
  /\ vault = None /\ file # None
  /\ file.store # None /\ file.model # None
  /\ VaultStarts(file)
  /\ vault' = [version |-> file.active.version, ring |-> Pairs(file),
               store |-> file.store]
  /\ UNCHANGED <<file, pc, env, source, store, model, items, drawn, mishaps>>

StopVault ==
  /\ vault # None
  /\ vault' = None
  /\ UNCHANGED <<file, pc, env, source, store, model, items, drawn, mishaps>>

\* authorize asks the store the vault was started with, before any effect.
Serving == vault # None /\ store[vault.store] = "live"

\* The pairs the running vault writes new envelopes under.
ActivePairs ==
  IF Serving THEN {p \in vault.ring : p[1] = vault.version} ELSE {}

StoreItem ==
  /\ \E p \in ActivePairs : items' = items \cup {p}
  /\ UNCHANGED <<file, pc, env, source, store, model, vault, drawn, mishaps>>

\* The last item under a key is deleted, or rewrapped under the active one
\* when the vault still opens it.
DropItem ==
  /\ Serving
  /\ \E p \in items :
       \/ items' = items \ {p}
       \/ /\ p \in vault.ring
          /\ \E q \in ActivePairs : items' = (items \ {p}) \cup {q}
  /\ UNCHANGED <<file, pc, env, source, store, model, vault, drawn, mishaps>>
-----------------------------------------------------------------------------
(* The developer. *)

\* A developer keeps every key something is, or is about to be, stored under.
Needed == items \cup ActivePairs

Edit(f) ==
  /\ file' = f
  /\ Needed \cap Pairs(file) \subseteq Pairs(f)
  /\ mishaps' = IF pc = "idle" THEN mishaps ELSE mishaps \cup {"overlap"}
  /\ UNCHANGED <<pc, env, source, store, model, vault, items>>

AddKey ==
  /\ file # None
  /\ \E v \in Versions, t \in Texts, b \in Paddings, k \in Keys \ drawn :
       /\ Edit([file EXCEPT !.ring = @ \cup
                  {[version |-> v, text |-> t, padded |-> b, key |-> k]}])
       /\ drawn' = drawn \cup {k}

RetireKey ==
  /\ file # None
  /\ \E e \in file.ring : Edit([file EXCEPT !.ring = @ \ {e}])
  /\ UNCHANGED drawn

ActivateKey ==
  /\ file # None
  /\ \E v \in Versions, t \in Texts :
       Edit([file EXCEPT !.active = [version |-> v, text |-> t]])
  /\ UNCHANGED drawn

EditModel ==
  /\ source' \in Hashes
  /\ UNCHANGED <<file, pc, env, store, model, vault, items, drawn, mishaps>>

\* just infra-reset: the volumes go, and with them the tables of the vault and
\* of OpenFGA, then .env.local, unless the recipe is stopped between the two.
ResetInfra ==
  /\ store' = [s \in Stores |-> IF store[s] = "live" THEN "lost" ELSE store[s]]
  /\ items' = {}
  /\ file' \in {file, None}
  /\ UNCHANGED <<pc, env, source, model, vault, drawn, mishaps>>

Script ==
  \/ ReadEnv \/ TruncateFile \/ WriteFile \/ CheckStore \/ CreateStore
  \/ ReadModel \/ CreateModel \/ Stop

Vault == StartVault \/ StopVault \/ StoreItem \/ DropItem

Developer == AddKey \/ RetireKey \/ ActivateKey \/ EditModel \/ ResetInfra

Next == Script \/ Vault \/ Developer

Spec == Init /\ [][Next]_vars
-----------------------------------------------------------------------------
(* What the bootstrap promises. *)

\* The type of every variable; a running vault has a ring it could parse.
TypeOK ==
  /\ file \in EnvFile \cup {None}
  /\ pc \in PCs
  /\ IF pc = "idle" THEN env = None ELSE env \in EnvFile
  /\ source \in Hashes
  /\ store \in [Stores -> {"unused", "live", "lost"}]
  /\ model \in [Models -> [store : Stores \cup {None},
                           hash : Hashes \cup {None}]]
  /\ vault \in Ring \cup {None}
  /\ vault # None => \E k \in Keys : <<vault.version, k>> \in vault.ring
  /\ items \subseteq Nat \X Keys
  /\ drawn \subseteq Keys
  /\ mishaps \subseteq Mishaps

\* The values the next start of anything will find: while the file is being
\* written, the ones the script is about to write.
Kept == IF Writing THEN env ELSE file

KeptPairs == IF Kept = None THEN {} ELSE Pairs(Kept)

(***************************************************************************)
(* The key of a stored item is lost in four ways only: the script found a  *)
(* ring that is not written the way it writes one (one the vault refuses,  *)
(* or one it accepts), it was killed inside a write, or the file was       *)
(* edited while a run was under way.  Starts, stops, failures, rollovers,  *)
(* resets and refused stores in any order lose none (ensureEnv and         *)
(* bootstrapOpenFga of the script, KeyRing::from_encoded of the vault).    *)
(***************************************************************************)
KeysSurvive ==
  mishaps \cap {"bad_ring", "odd_ring", "torn", "overlap"} = {} =>
    Needed \subseteq KeptPairs

(***************************************************************************)
(* The running vault opens every stored item, unless one of the same four  *)
(* happened: whatever the developer did to the file since the vault        *)
(* started, and with whatever ring it was started again (StartVault,       *)
(* KeyRing::decrypt).                                                      *)
(***************************************************************************)
VaultOpensItems ==
  vault # None /\ mishaps \cap {"bad_ring", "odd_ring", "torn", "overlap"} = {}
    => items \subseteq vault.ring

\* After a complete run the vault starts, unless the ring has an entry without
\* padding, a number too large or a number used twice: those three the script
\* does not see (validVaultKeys against KeyRing::from_encoded).
ReadyVaultStarts ==
  [][pc = "writing_fga" /\ pc' = "ready" =>
       \/ VaultStarts(file')
       \/ \E e \in file'.ring : ~e.padded \/ e.version > MaxU32
       \/ \E e, g \in file'.ring : e # g /\ e.version = g.version]_vars

\* The model the file names lies in the store the file names and has the
\* content the file says, unless a lookup of the store the file named failed.
ModelBelongsToStore ==
  "store_refused" \notin mishaps /\ file # None =>
    (file.model # None =>
       model[file.model] = [store |-> file.store, hash |-> file.hash])

\* README.md: the bootstrap preserves an existing valid key ring, so starting
\* again does not silently replace the key of stored items.  Valid for the
\* vault is not valid for the script.
ValidRingsKeepItems ==
  mishaps \cap {"bad_ring", "torn", "overlap"} = {} =>
    items \subseteq KeptPairs

\* README.md and the script's last word on OpenFGA: when it says ready, the
\* store it names has the model it names.
ReadyStoreHasItsModel ==
  pc = "ready" => model[env.model].store = env.store
=============================================================================
