------------------------ MODULE LocalBootstrapProofs ------------------------
(***************************************************************************)
(* Proofs about LocalBootstrap: for every set of keys, versions, spellings *)
(* and OpenFGA ids, the file the script leaves keeps the keys, the model   *)
(* and a ring the vault starts with, but for the mishaps that are named.   *)
(***************************************************************************)
EXTENDS LocalBootstrap, TLAPS

-----------------------------------------------------------------------------
(* The two parsers. *)

\* A ring written the way the script writes one is valid for the script.
LEMMA CanonicalIsValid ==
  ASSUME NEW f \in EnvFile, Canonical(f)
  PROVE  ValidVaultKeys(f)
  BY BoundsAssumption
  DEF Canonical, VaultStarts, KeyRingParses, ValidVaultKeys, IsVersion,
      EnvFile, Entry, Active, VersionTexts

\* The ring the script draws is valid, and well formed.
LEMMA FreshRingIsValid ==
  ASSUME NEW f \in EnvFile, NEW k \in Keys
  PROVE  FreshRing(f, k) \in EnvFile /\ ValidVaultKeys(FreshRing(f, k))
<1> DEFINE e == [version |-> 1, text |-> "plain", padded |-> TRUE, key |-> k]
           a == [version |-> 1, text |-> "plain"]
           g == FreshRing(f, k)
<1>1. e \in Entry /\ a \in Active
  BY DEF Entry, Active, VersionTexts
<1>2. g.ring = {e} /\ g.active = a /\ g \in EnvFile
  BY <1>1 DEF FreshRing, EnvFile
<1>3. ValidVaultKeys(g)
  <2>1. IsVersion(e) /\ IsVersion(a)
    BY DEF IsVersion
  <2> QED
    BY <1>2, <2>1 DEF ValidVaultKeys
<1> QED
  BY <1>2, <1>3

\* What is valid for the script starts the vault, but for three things the
\* script does not look at.
LEMMA ValidStartsVault ==
  ASSUME NEW f \in EnvFile, ValidVaultKeys(f),
         \A e \in f.ring : e.padded /\ e.version <= MaxU32,
         \A e, g \in f.ring : e.version = g.version => e = g
  PROVE  VaultStarts(f)
<1>1. f.active \in Active /\ f.ring \subseteq Entry
  BY DEF EnvFile
<1>2. PICK e \in f.ring : e.version = f.active.version
  BY DEF ValidVaultKeys
<1>3. f.active.version \in 1..MaxU32 /\ f.active.text # "spaced"
  BY <1>1, <1>2, BoundsAssumption DEF ValidVaultKeys, IsVersion, Active, Entry
<1> QED
  BY <1>2, <1>3 DEF VaultStarts, KeyRingParses, ValidVaultKeys
-----------------------------------------------------------------------------
(* Type correctness. *)

LEMMA DefaultsType == Defaults \in EnvFile
  BY DEF Defaults, EnvFile, Entry, Active, VersionTexts

LEMMA EnvIsNotNone == None \notin EnvFile
  BY NoneAssumption DEF EnvFile, Entry, Active

\* The script replaces a ring or keeps the values it found.
LEMMA ReadEnvKeepsOrDraws ==
  ASSUME TypeOK, ReadEnv
  PROVE  /\ env' \in EnvFile
         /\ ValidVaultKeys(env')
         /\ drawn' \subseteq Keys
         /\ file # None =>
              /\ env'.store = file.store
              /\ env'.model = file.model
              /\ env'.hash = file.hash
              /\ ValidVaultKeys(file) => env' = file
         /\ file = None => env'.model = None
<1> DEFINE found == IF file = None THEN Defaults ELSE file
<1>1. found \in EnvFile
  BY DefaultsType DEF TypeOK
<1>2. file # None => found = file
  OBVIOUS
<1>3. file = None => found.model = None
  BY DEF Defaults
<1>4. IF ValidVaultKeys(found)
      THEN env' = found /\ UNCHANGED drawn
      ELSE \E k \in Keys \ drawn :
             env' = FreshRing(found, k) /\ drawn' = drawn \cup {k}
  BY DEF ReadEnv
<1>5. drawn \subseteq Keys
  BY DEF TypeOK
<1> HIDE DEF found
<1>6. CASE ValidVaultKeys(found)
  BY <1>1, <1>2, <1>3, <1>4, <1>5, <1>6
<1>7. CASE ~ValidVaultKeys(found)
  <2>1. PICK k \in Keys \ drawn :
          env' = FreshRing(found, k) /\ drawn' = drawn \cup {k}
    BY <1>4, <1>7
  <2>2. env' \in EnvFile /\ ValidVaultKeys(env')
    BY <1>1, <2>1, FreshRingIsValid
  <2>3. env'.store = found.store /\ env'.model = found.model
          /\ env'.hash = found.hash
    BY <1>1, <2>1 DEF FreshRing, EnvFile
  <2> QED
    BY <1>2, <1>3, <1>5, <1>7, <2>1, <2>2, <2>3
<1> QED
  BY <1>6, <1>7

\* What a developer may leave in the file is a file.
LEMMA EditsAreFiles ==
  ASSUME TypeOK, file # None
  PROVE  /\ \A v \in Versions, t \in Texts, b \in Paddings, k \in Keys :
              [file EXCEPT !.ring = @ \cup
                 {[version |-> v, text |-> t, padded |-> b, key |-> k]}]
                \in EnvFile
         /\ \A e : [file EXCEPT !.ring = @ \ {e}] \in EnvFile
         /\ \A v \in Versions, t \in Texts :
              [file EXCEPT !.active = [version |-> v, text |-> t]] \in EnvFile
<1>1. file \in EnvFile
  BY DEF TypeOK
<1>2. ASSUME NEW v \in Versions, NEW t \in Texts, NEW b \in Paddings,
             NEW k \in Keys
      PROVE  [version |-> v, text |-> t, padded |-> b, key |-> k] \in Entry
  BY BoundsAssumption DEF Entry
<1>3. ASSUME NEW v \in Versions, NEW t \in Texts
      PROVE  [version |-> v, text |-> t] \in Active
  BY BoundsAssumption DEF Active
<1> QED
  BY <1>1, <1>2, <1>3 DEF EnvFile

\* Only a step of the developer that edits the ring, and writes of the
\* script, change the file.
LEMMA DeveloperType ==
  ASSUME TypeOK, AddKey \/ RetireKey \/ ActivateKey
  PROVE  TypeOK'
<1>1. /\ file' \in EnvFile
      /\ drawn' \subseteq Keys
      /\ mishaps' \subseteq Mishaps
      /\ UNCHANGED <<pc, env, source, store, model, vault, items>>
  <2>1. CASE AddKey
    <3>1. PICK v \in Versions, t \in Texts, b \in Paddings, k \in Keys \ drawn :
            /\ Edit([file EXCEPT !.ring = @ \cup
                  {[version |-> v, text |-> t, padded |-> b, key |-> k]}])
            /\ drawn' = drawn \cup {k}
      BY <2>1 DEF AddKey
    <3>2. file # None
      BY <2>1 DEF AddKey
    <3> DEFINE f == [file EXCEPT !.ring = @ \cup
                  {[version |-> v, text |-> t, padded |-> b, key |-> k]}]
    <3>3. f \in EnvFile /\ Edit(f)
      BY <3>1, <3>2, EditsAreFiles
    <3> HIDE DEF f
    <3> QED
      BY <3>1, <3>3 DEF Edit, TypeOK, Mishaps
  <2>2. CASE RetireKey
    <3>1. PICK e \in file.ring : Edit([file EXCEPT !.ring = @ \ {e}])
      BY <2>2 DEF RetireKey
    <3>2. file # None /\ drawn' = drawn
      BY <2>2 DEF RetireKey
    <3> DEFINE f == [file EXCEPT !.ring = @ \ {e}]
    <3>3. f \in EnvFile /\ Edit(f)
      BY <3>1, <3>2, EditsAreFiles
    <3> HIDE DEF f
    <3> QED
      BY <3>2, <3>3 DEF Edit, TypeOK, Mishaps
  <2>3. CASE ActivateKey
    <3>1. PICK v \in Versions, t \in Texts :
            Edit([file EXCEPT !.active = [version |-> v, text |-> t]])
      BY <2>3 DEF ActivateKey
    <3>2. file # None /\ drawn' = drawn
      BY <2>3 DEF ActivateKey
    <3> DEFINE f == [file EXCEPT !.active = [version |-> v, text |-> t]]
    <3>3. f \in EnvFile /\ Edit(f)
      BY <3>1, <3>2, EditsAreFiles
    <3> HIDE DEF f
    <3> QED
      BY <3>2, <3>3 DEF Edit, TypeOK, Mishaps
  <2> QED
    BY <2>1, <2>2, <2>3
<1> QED
  BY <1>1 DEF TypeOK

\* A step of the script keeps the types.
LEMMA ScriptType ==
  ASSUME TypeOK, Script
  PROVE  TypeOK'
<1>1. CASE ReadEnv
  <2>1. mishaps' \subseteq Mishaps
    BY <1>1 DEF ReadEnv, TypeOK, Judge, Mishaps
  <2> QED
    BY <1>1, <2>1, ReadEnvKeepsOrDraws DEF ReadEnv, TypeOK, PCs
<1>2. CASE TruncateFile
  BY <1>2 DEF TruncateFile, TypeOK, PCs
<1>3. CASE WriteFile
  <2>1. env \in EnvFile
    BY <1>3 DEF WriteFile, TypeOK
  <2> QED
    BY <1>3, <2>1 DEF WriteFile, TypeOK, PCs
<1>4. CASE CheckStore
  BY <1>4 DEF CheckStore, TypeOK, PCs, Mishaps
<1>5. CASE CreateStore
  <2>1. PICK s \in Stores : /\ store' = [store EXCEPT ![s] = "live"]
                            /\ env' = [env EXCEPT !.store = s]
    BY <1>5 DEF CreateStore
  <2>2. env \in EnvFile
    BY <1>5 DEF CreateStore, TypeOK
  <2>3. env' \in EnvFile
    BY <2>1, <2>2 DEF EnvFile
  <2>4. store' \in [Stores -> {"unused", "live", "lost"}]
    BY <2>1 DEF TypeOK
  <2> QED
    BY <1>5, <2>3, <2>4 DEF CreateStore, TypeOK, PCs
<1>6. CASE ReadModel
  <2>1. env \in EnvFile /\ source \in Hashes
    BY <1>6 DEF ReadModel, TypeOK
  <2>2. env' \in EnvFile
    BY <1>6, <2>1 DEF ReadModel, EnvFile
  <2> QED
    BY <1>6, <2>2 DEF ReadModel, TypeOK, PCs
<1>7. CASE CreateModel
  <2>1. PICK m \in Models :
          /\ model' = [model EXCEPT ![m] = [store |-> env.store,
                                            hash |-> env.hash]]
          /\ env' = [env EXCEPT !.model = m]
    BY <1>7 DEF CreateModel
  <2>2. env \in EnvFile
    BY <1>7 DEF CreateModel, TypeOK
  <2>3. env' \in EnvFile
    BY <2>1, <2>2 DEF EnvFile
  <2>4. model' \in [Models -> [store : Stores \cup {None},
                               hash : Hashes \cup {None}]]
    BY <2>1, <2>2 DEF TypeOK, EnvFile
  <2> QED
    BY <1>7, <2>3, <2>4 DEF CreateModel, TypeOK, PCs
<1>8. CASE Stop
  BY <1>8 DEF Stop, TypeOK, PCs, Mishaps
<1> QED
  BY <1>1, <1>2, <1>3, <1>4, <1>5, <1>6, <1>7, <1>8 DEF Script

\* The pairs of a file are versions and keys.
LEMMA PairsType ==
  ASSUME NEW f \in EnvFile
  PROVE  Pairs(f) \subseteq Nat \X Keys
  BY DEF Pairs, EnvFile, Entry

\* The vault stores under pairs of its ring.
LEMMA ActivePairsType ==
  ASSUME TypeOK
  PROVE  ActivePairs \subseteq Nat \X Keys
  BY DEF ActivePairs, Serving, TypeOK, Ring

LEMMA VaultType ==
  ASSUME TypeOK, Vault
  PROVE  TypeOK'
<1>1. CASE StartVault
  <2>1. file \in EnvFile /\ file # None
    BY <1>1 DEF StartVault, TypeOK
  <2>2. PICK e \in file.ring : e.version = file.active.version
    BY <1>1 DEF StartVault, VaultStarts, KeyRingParses
  <2>3. e.key \in Keys /\ <<e.version, e.key>> \in Pairs(file)
    BY <2>1, <2>2 DEF EnvFile, Entry, Pairs
  <2>4. file.active.version \in Nat
    BY <2>1 DEF EnvFile, Active
  <2>5. vault' = [version |-> file.active.version, ring |-> Pairs(file),
                  store |-> file.store]
    BY <1>1 DEF StartVault
  <2>6. vault' \in Ring
    <3>1. file.store \in Stores
      BY <1>1, <2>1 DEF StartVault, EnvFile
    <3> QED
      BY <2>1, <2>4, <2>5, <3>1, PairsType DEF Ring
  <2>7. \E k \in Keys : <<vault'.version, k>> \in vault'.ring
    BY <2>2, <2>3, <2>5
  <2>8. UNCHANGED <<file, pc, env, source, store, model, items, drawn, mishaps>>
    BY <1>1 DEF StartVault
  <2> QED
    BY <2>6, <2>7, <2>8 DEF TypeOK
<1>2. CASE StopVault
  BY <1>2 DEF StopVault, TypeOK
<1>3. CASE StoreItem
  <2>1. items' \subseteq Nat \X Keys
    BY <1>3, ActivePairsType DEF StoreItem, TypeOK
  <2> QED
    BY <1>3, <2>1 DEF StoreItem, TypeOK
<1>4. CASE DropItem
  <2>1. items' \subseteq Nat \X Keys
    BY <1>4, ActivePairsType DEF DropItem, TypeOK
  <2> QED
    BY <1>4, <2>1 DEF DropItem, TypeOK
<1> QED
  BY <1>1, <1>2, <1>3, <1>4 DEF Vault

LEMMA TypeStep == TypeOK /\ [Next]_vars => TypeOK'
<1> SUFFICES ASSUME TypeOK, [Next]_vars PROVE TypeOK'
  OBVIOUS
<1>1. CASE Script
  BY <1>1, ScriptType
<1>2. CASE Vault
  BY <1>2, VaultType
<1>3. CASE AddKey \/ RetireKey \/ ActivateKey
  BY <1>3, DeveloperType
<1>4. CASE EditModel
  BY <1>4 DEF EditModel, TypeOK
<1>5. CASE ResetInfra
  BY <1>5 DEF ResetInfra, TypeOK, Mishaps
<1>6. CASE UNCHANGED vars
  BY <1>6 DEF vars, TypeOK
<1> QED
  BY <1>1, <1>2, <1>3, <1>4, <1>5, <1>6 DEF Next, Developer

LEMMA InitType == Init => TypeOK
  BY DEF Init, TypeOK, PCs

\* Every variable keeps its type, for all values of the constants.
THEOREM Typing == Spec => []TypeOK
  BY InitType, TypeStep, PTL DEF Spec
-----------------------------------------------------------------------------
(* The keys. *)

KeyMishaps == {"bad_ring", "odd_ring", "torn", "overlap"}

NoKeyMishap == mishaps \cap KeyMishaps = {}

\* Between two of its writes the script holds what the file says, and while
\* it writes the file is empty.
MemoryMatches ==
  /\ Writing => file = None
  /\ NoKeyMishap /\ pc # "idle" /\ file # None => Pairs(env) = Pairs(file)

\* A store id anything holds has been given out.
StoresAreUsed ==
  /\ file # None /\ file.store # None => store[file.store] # "unused"
  /\ pc # "idle" /\ env.store # None => store[env.store] # "unused"
  /\ vault # None => store[vault.store] # "unused"

KeysInv == TypeOK /\ StoresAreUsed /\ MemoryMatches /\ KeysSurvive

LEMMA StoresStep ==
  ASSUME TypeOK, StoresAreUsed, [Next]_vars
  PROVE  StoresAreUsed'
<1> USE DEF StoresAreUsed
<1>1. CASE ReadEnv
  <2>1. pc' # "idle" /\ UNCHANGED <<file, store, vault>>
    BY <1>1 DEF ReadEnv
  <2>2. CASE file # None
    BY <1>1, <2>1, <2>2, ReadEnvKeepsOrDraws
  <2>3. CASE file = None
    <3>1. Defaults \in EnvFile /\ Defaults.store = None
      BY DefaultsType DEF Defaults
    <3>2. ASSUME NEW k \in Keys PROVE FreshRing(Defaults, k).store = None
      BY <3>1 DEF FreshRing, EnvFile
    <3>3. env'.store = None
      BY <1>1, <2>3, <3>1, <3>2 DEF ReadEnv
    <3> QED
      BY <2>1, <2>3, <3>3
  <2> QED
    BY <2>2, <2>3
<1>2. CASE CreateStore
  <2>1. PICK s \in Stores : /\ store' = [store EXCEPT ![s] = "live"]
                            /\ env' = [env EXCEPT !.store = s]
    BY <1>2 DEF CreateStore
  <2>2. env \in EnvFile /\ UNCHANGED <<file, vault>>
    BY <1>2 DEF CreateStore, TypeOK
  <2>3. env'.store = s
    BY <2>1, <2>2 DEF EnvFile
  <2>4. store'[s] = "live" /\ \A t \in Stores : store[t] # "unused" =>
          store'[t] # "unused"
    BY <2>1 DEF TypeOK
  <2>5. file # None => file.store \in Stores \cup {None}
    BY DEF TypeOK, EnvFile
  <2>6. vault # None => vault.store \in Stores
    BY DEF TypeOK, Ring
  <2> QED
    BY <2>2, <2>3, <2>4, <2>5, <2>6
<1>3. CASE ReadModel \/ CreateModel
  <2>1. env \in EnvFile /\ pc # "idle" /\ UNCHANGED <<file, store, vault>>
    BY <1>3 DEF ReadModel, CreateModel, TypeOK
  <2>2. env'.store = env.store
    BY <1>3, <2>1 DEF ReadModel, CreateModel, EnvFile
  <2> QED
    BY <2>1, <2>2
<1>4. CASE TruncateFile \/ WriteFile \/ CheckStore \/ Stop
  <2>1. /\ pc # "idle" /\ (pc' # "idle" => env' = env)
        /\ file' \in {file, None, env}
        /\ UNCHANGED <<store, vault>>
    BY <1>4 DEF TruncateFile, WriteFile, CheckStore, Stop
  <2> QED
    BY <2>1
<1>5. CASE StartVault
  <2>1. /\ UNCHANGED <<file, pc, env, store>>
        /\ file # None /\ file.store # None /\ vault'.store = file.store
    BY <1>5 DEF StartVault
  <2> QED
    BY <2>1
<1>6. CASE StopVault \/ StoreItem \/ DropItem \/ EditModel \/ UNCHANGED vars
  <2>1. UNCHANGED <<file, pc, env, store>> /\ vault' \in {vault, None}
    BY <1>6 DEF StopVault, StoreItem, DropItem, EditModel, vars
  <2> QED
    BY <2>1
<1>7. CASE AddKey \/ RetireKey \/ ActivateKey
  <2>1. file # None /\ file \in EnvFile /\ UNCHANGED <<pc, env, store, vault>>
    BY <1>7 DEF AddKey, RetireKey, ActivateKey, Edit, TypeOK
  <2>2. file'.store = file.store
    BY <1>7, <2>1 DEF AddKey, RetireKey, ActivateKey, Edit, EnvFile
  <2> QED
    BY <2>1, <2>2
<1>8. CASE ResetInfra
  <2>1. /\ UNCHANGED <<pc, env, vault>> /\ file' \in {file, None}
        /\ store' = [s \in Stores |->
                       IF store[s] = "live" THEN "lost" ELSE store[s]]
    BY <1>8 DEF ResetInfra
  <2>2. \A t \in Stores : store[t] # "unused" => store'[t] # "unused"
    BY <2>1
  <2>3. /\ file # None => file.store \in Stores \cup {None}
        /\ pc # "idle" => env.store \in Stores \cup {None}
        /\ vault # None => vault.store \in Stores
    BY DEF TypeOK, EnvFile, Ring
  <2> QED
    BY <2>1, <2>2, <2>3
<1> QED
  BY <1>1, <1>2, <1>3, <1>4, <1>5, <1>6, <1>7, <1>8
  DEF Next, Script, Vault, Developer

\* Before a write of the script the keys that are needed are in its memory.
LEMMA TruncateKeepsKeys ==
  ASSUME KeysInv, TruncateFile
  PROVE  MemoryMatches' /\ KeysSurvive'
<1>1. /\ file' = None /\ UNCHANGED <<env, items, store, vault, mishaps>>
      /\ Writing' /\ ~Writing /\ pc # "idle"
      /\ env \in EnvFile
  BY DEF TruncateFile, Writing, KeysInv, TypeOK
<1>2. Kept' = env /\ Kept = file
  BY <1>1 DEF Kept, Writing
<1>3. KeptPairs' = Pairs(env)
  BY <1>1, <1>2, EnvIsNotNone DEF KeptPairs, Pairs
<1>4. Needed' = Needed
  BY <1>1 DEF Needed, ActivePairs, Serving
<1>5. ASSUME NoKeyMishap PROVE Needed \subseteq Pairs(env)
  <2>1. Needed \subseteq KeptPairs
    BY <1>5 DEF KeysInv, KeysSurvive, NoKeyMishap, KeyMishaps
  <2>2. CASE file = None
    BY <1>2, <2>1, <2>2 DEF KeptPairs
  <2>3. CASE file # None
    <3>1. Pairs(env) = Pairs(file)
      BY <1>1, <1>5, <2>3 DEF KeysInv, MemoryMatches
    <3> QED
      BY <1>2, <2>1, <2>3, <3>1 DEF KeptPairs
  <2> QED
    BY <2>2, <2>3
<1> QED
  BY <1>1, <1>3, <1>4, <1>5
  DEF MemoryMatches, KeysSurvive, NoKeyMishap, KeyMishaps

\* The script keeps a ring it finds valid; one that is written its way is.
LEMMA ReadEnvKeepsKeys ==
  ASSUME KeysInv, ReadEnv
  PROVE  MemoryMatches' /\ KeysSurvive'
<1>1. /\ UNCHANGED <<file, items, store, vault>>
      /\ ~Writing' /\ ~Writing
      /\ mishaps' = mishaps \cup Judge(file)
  BY DEF ReadEnv, Writing
<1>2. TypeOK
  BY DEF KeysInv
<1>3. Needed' = Needed /\ KeptPairs' = KeptPairs
  BY <1>1 DEF Needed, ActivePairs, Serving, Kept, KeptPairs, Pairs
<1>4. ASSUME NoKeyMishap', file # None PROVE env' = file
  <2>1. file \in EnvFile
    BY <1>2, <1>4 DEF TypeOK
  <2>2. Canonical(file)
    BY <1>1, <1>4 DEF NoKeyMishap, KeyMishaps, Judge
  <2> QED
    BY <1>2, <1>4, <2>1, <2>2, CanonicalIsValid, ReadEnvKeepsOrDraws
<1>5. MemoryMatches'
  BY <1>1, <1>4 DEF MemoryMatches, Pairs
<1>6. KeysSurvive'
  BY <1>1, <1>3 DEF KeysInv, KeysSurvive
<1> QED
  BY <1>5, <1>6

\* The other steps of the script leave the keys it holds alone.
LEMMA ScriptKeepsKeys ==
  ASSUME KeysInv, Script
  PROVE  MemoryMatches' /\ KeysSurvive'
<1> USE DEF KeyMishaps, NoKeyMishap
<1>1. CASE ReadEnv
  BY <1>1, ReadEnvKeepsKeys
<1>2. CASE TruncateFile
  BY <1>2, TruncateKeepsKeys
<1>3. CASE WriteFile
  <2>1. /\ Writing /\ ~Writing' /\ file' = env
        /\ UNCHANGED <<store, vault, items, mishaps>>
        /\ pc' # "idle" => env' = env
        /\ env \in EnvFile
    BY <1>3 DEF WriteFile, Writing, KeysInv, TypeOK
  <2>2. KeptPairs' = KeptPairs
    BY <2>1 DEF KeptPairs, Kept, Pairs
  <2>3. Needed' = Needed
    BY <2>1 DEF Needed, ActivePairs, Serving
  <2> QED
    BY <2>1, <2>2, <2>3 DEF KeysInv, KeysSurvive, MemoryMatches, Pairs
<1>4. CASE CheckStore \/ CreateStore \/ ReadModel \/ CreateModel
  <2>1. /\ UNCHANGED <<file, vault, items>>
        /\ ~Writing /\ ~Writing'
        /\ pc # "idle" /\ pc' # "idle"
        /\ env \in EnvFile
        /\ mishaps \subseteq mishaps'
    BY <1>4
    DEF CheckStore, CreateStore, ReadModel, CreateModel, Writing, KeysInv,
        TypeOK
  <2>2. env'.ring = env.ring
    BY <1>4, <2>1
    DEF CheckStore, CreateStore, ReadModel, CreateModel, EnvFile
  <2>3. Pairs(env') = Pairs(env) /\ KeptPairs' = KeptPairs
    BY <2>1, <2>2 DEF Pairs, KeptPairs, Kept
  <2>4. Needed' = Needed
    <3>1. vault # None => /\ vault.store \in Stores
                          /\ store[vault.store] # "unused"
      BY DEF KeysInv, StoresAreUsed, TypeOK, Ring
    <3>2. vault # None => store'[vault.store] = store[vault.store]
      BY <1>4, <3>1
      DEF CheckStore, CreateStore, ReadModel, CreateModel, KeysInv, TypeOK
    <3> QED
      BY <2>1, <3>2 DEF Needed, ActivePairs, Serving
  <2>5. MemoryMatches'
    BY <2>1, <2>3 DEF KeysInv, MemoryMatches, Pairs
  <2> QED
    BY <2>1, <2>3, <2>4, <2>5 DEF KeysInv, KeysSurvive
<1>5. CASE Stop
  <2>1. /\ UNCHANGED <<file, store, vault, items>> /\ ~Writing' /\ pc' = "idle"
        /\ mishaps' = IF Writing THEN mishaps \cup {"torn"} ELSE mishaps
    BY <1>5 DEF Stop, Writing
  <2>2. ~Writing => KeptPairs' = KeptPairs
    BY <2>1 DEF KeptPairs, Kept, Pairs
  <2>3. Needed' = Needed
    BY <2>1 DEF Needed, ActivePairs, Serving
  <2> QED
    BY <2>1, <2>2, <2>3 DEF KeysInv, KeysSurvive, MemoryMatches
<1> QED
  BY <1>1, <1>2, <1>3, <1>4, <1>5 DEF Script

\* The vault stores under keys of the file it was started with.
LEMMA VaultKeepsKeys ==
  ASSUME KeysInv, Vault
  PROVE  MemoryMatches' /\ KeysSurvive'
<1>1. /\ UNCHANGED <<file, pc, env, mishaps>>
  BY DEF Vault, StartVault, StopVault, StoreItem, DropItem
<1>2. MemoryMatches' /\ KeptPairs' = KeptPairs
  BY <1>1
  DEF KeysInv, MemoryMatches, Writing, NoKeyMishap, KeptPairs, Kept, Pairs
<1>3. CASE StartVault
  <2>1. Kept = file /\ KeptPairs = Pairs(file)
    BY <1>3 DEF StartVault, KeysInv, MemoryMatches, Kept, KeptPairs
  <2>2. ActivePairs' \subseteq Pairs(file) /\ items' = items
    BY <1>3 DEF StartVault, ActivePairs, Serving
  <2> QED
    BY <1>1, <1>2, <2>1, <2>2 DEF KeysInv, KeysSurvive, Needed
<1>4. CASE StopVault
  <2>1. ActivePairs' = {} /\ items' = items
    BY <1>4 DEF StopVault, ActivePairs, Serving
  <2> QED
    BY <1>1, <1>2, <2>1 DEF KeysInv, KeysSurvive, Needed
<1>5. CASE StoreItem \/ DropItem
  <2>1. ActivePairs' = ActivePairs /\ items' \subseteq items \cup ActivePairs
    BY <1>5 DEF StoreItem, DropItem, ActivePairs, Serving
  <2> QED
    BY <1>1, <1>2, <2>1 DEF KeysInv, KeysSurvive, Needed
<1> QED
  BY <1>3, <1>4, <1>5 DEF Vault

\* An edit keeps what is needed, or overlaps with a run of the script.
LEMMA EditKeepsKeys ==
  ASSUME KeysInv, file # None, NEW f \in EnvFile, Edit(f)
  PROVE  MemoryMatches' /\ KeysSurvive'
<1>1. /\ file' = f /\ UNCHANGED <<pc, env, store, vault, items>>
      /\ Needed \cap Pairs(file) \subseteq Pairs(f)
      /\ ~Writing /\ ~Writing'
  BY DEF Edit, KeysInv, MemoryMatches, Writing
<1>2. Needed' = Needed /\ KeptPairs' = Pairs(f) /\ KeptPairs = Pairs(file)
  BY <1>1, EnvIsNotNone DEF Needed, ActivePairs, Serving, KeptPairs, Kept, Pairs
<1>3. CASE pc = "idle"
  <2>1. mishaps' = mishaps
    BY <1>3 DEF Edit
  <2> QED
    BY <1>1, <1>2, <1>3, <2>1 DEF KeysInv, KeysSurvive, MemoryMatches
<1>4. CASE pc # "idle"
  <2>1. "overlap" \in mishaps'
    BY <1>4 DEF Edit
  <2> QED
    BY <1>1, <2>1 DEF KeysSurvive, MemoryMatches, NoKeyMishap, KeyMishaps
<1> QED
  BY <1>3, <1>4

LEMMA DeveloperKeepsKeys ==
  ASSUME KeysInv, Developer
  PROVE  MemoryMatches' /\ KeysSurvive'
<1>1. TypeOK
  BY DEF KeysInv
<1>2. CASE AddKey
  <2>1. file # None
    BY <1>2 DEF AddKey
  <2>2. PICK v \in Versions, t \in Texts, b \in Paddings, k \in Keys \ drawn :
          Edit([file EXCEPT !.ring = @ \cup
                {[version |-> v, text |-> t, padded |-> b, key |-> k]}])
    BY <1>2 DEF AddKey
  <2> QED
    BY <1>1, <2>1, <2>2, EditsAreFiles, EditKeepsKeys
<1>3. CASE RetireKey
  <2>1. file # None
    BY <1>3 DEF RetireKey
  <2>2. PICK e \in file.ring : Edit([file EXCEPT !.ring = @ \ {e}])
    BY <1>3 DEF RetireKey
  <2> QED
    BY <1>1, <2>1, <2>2, EditsAreFiles, EditKeepsKeys
<1>4. CASE ActivateKey
  <2>1. file # None
    BY <1>4 DEF ActivateKey
  <2>2. PICK v \in Versions, t \in Texts :
          Edit([file EXCEPT !.active = [version |-> v, text |-> t]])
    BY <1>4 DEF ActivateKey
  <2> QED
    BY <1>1, <2>1, <2>2, EditsAreFiles, EditKeepsKeys
<1>5. CASE EditModel
  BY <1>5
  DEF EditModel, KeysInv, KeysSurvive, MemoryMatches, Writing, NoKeyMishap,
      Needed, ActivePairs, Serving, KeptPairs, Kept, Pairs
<1>6. CASE ResetInfra
  <2>1. /\ UNCHANGED <<pc, env, vault>> /\ file' \in {file, None}
        /\ items' = {} /\ mishaps \subseteq mishaps'
        /\ store' = [s \in Stores |->
                       IF store[s] = "live" THEN "lost" ELSE store[s]]
    BY <1>6 DEF ResetInfra
  <2>2. vault # None => store'[vault.store] # "live"
    BY <1>1, <2>1 DEF TypeOK, Ring
  <2>3. Needed' = {}
    BY <2>1, <2>2 DEF Needed, ActivePairs, Serving
  <2>4. MemoryMatches'
    BY <2>1 DEF KeysInv, MemoryMatches, Writing, NoKeyMishap, Pairs
  <2> QED
    BY <2>3, <2>4 DEF KeysSurvive
<1> QED
  BY <1>2, <1>3, <1>4, <1>5, <1>6 DEF Developer

LEMMA KeysStep == KeysInv /\ [Next]_vars => KeysInv'
<1> SUFFICES ASSUME KeysInv, [Next]_vars PROVE KeysInv'
  OBVIOUS
<1>1. TypeOK' /\ StoresAreUsed'
  BY TypeStep, StoresStep DEF KeysInv
<1>2. MemoryMatches' /\ KeysSurvive'
  <2>1. CASE Next
    BY <2>1, ScriptKeepsKeys, VaultKeepsKeys, DeveloperKeepsKeys DEF Next
  <2>2. CASE UNCHANGED vars
    BY <2>2
    DEF vars, KeysInv, KeysSurvive, MemoryMatches, Writing, NoKeyMishap,
        Needed, ActivePairs, Serving, KeptPairs, Kept, Pairs
  <2> QED
    BY <2>1, <2>2
<1> QED
  BY <1>1, <1>2 DEF KeysInv

LEMMA InitKeys == Init => KeysInv
<1> SUFFICES ASSUME Init PROVE KeysInv
  OBVIOUS
<1>1. TypeOK
  BY InitType
<1>2. Needed = {}
  BY DEF Init, Needed, ActivePairs, Serving
<1> QED
  BY <1>1, <1>2
  DEF Init, KeysInv, KeysSurvive, MemoryMatches, StoresAreUsed, Writing

\* No key of a stored item is lost but by one of the four mishaps.
THEOREM KeysAreKept == Spec => []KeysSurvive
<1>1. KeysInv => KeysSurvive
  BY DEF KeysInv
<1> QED
  BY <1>1, InitKeys, KeysStep, PTL DEF Spec

LEMMA OpensStep == KeysInv /\ VaultOpensItems /\ [Next]_vars => VaultOpensItems'
<1> SUFFICES ASSUME KeysInv, VaultOpensItems, [Next]_vars,
                    vault' # None, NoKeyMishap'
             PROVE  items' \subseteq vault'.ring
  BY DEF VaultOpensItems, NoKeyMishap, KeyMishaps
<1>1. NoKeyMishap
  <2>1. mishaps \subseteq mishaps'
    BY DEF Next, Script, ReadEnv, TruncateFile, WriteFile, CheckStore,
           CreateStore, ReadModel, CreateModel, Stop, Vault, StartVault,
           StopVault, StoreItem, DropItem, Developer, AddKey, RetireKey,
           ActivateKey, EditModel, ResetInfra, Edit, vars
  <2> QED
    BY <2>1 DEF NoKeyMishap
<1>2. vault # None => items \subseteq vault.ring
  BY <1>1 DEF VaultOpensItems, NoKeyMishap, KeyMishaps
<1>3. CASE StartVault
  <2>1. /\ file # None /\ ~Writing
        /\ vault'.ring = Pairs(file) /\ items' = items
    BY <1>3 DEF StartVault, KeysInv, MemoryMatches
  <2>2. items \subseteq KeptPairs
    BY <1>1 DEF KeysInv, KeysSurvive, Needed, NoKeyMishap, KeyMishaps
  <2> QED
    BY <2>1, <2>2 DEF KeptPairs, Kept
<1>4. CASE StoreItem \/ DropItem
  <2>1. vault' = vault /\ ActivePairs \subseteq vault.ring
    BY <1>4 DEF StoreItem, DropItem, ActivePairs, Serving
  <2>2. items' \subseteq items \cup ActivePairs
    BY <1>4 DEF StoreItem, DropItem
  <2> QED
    BY <1>2, <2>1, <2>2
<1>5. CASE StopVault
  BY <1>5 DEF StopVault
<1>6. CASE Script \/ Developer \/ UNCHANGED vars
  <2>1. vault' = vault /\ items' \subseteq items
    BY <1>6
    DEF Script, ReadEnv, TruncateFile, WriteFile, CheckStore, CreateStore,
        ReadModel, CreateModel, Stop, Developer, AddKey, RetireKey,
        ActivateKey, EditModel, ResetInfra, Edit, vars
  <2> QED
    BY <1>2, <2>1
<1> QED
  BY <1>3, <1>4, <1>5, <1>6 DEF Next, Vault

\* The running vault opens every stored item but after the same four mishaps:
\* the ring it was started with held every key that was needed then, and what
\* it has stored since is under that ring.
THEOREM VaultOpens == Spec => []VaultOpensItems
<1>1. Init => VaultOpensItems
  BY DEF Init, VaultOpensItems
<1> QED
  BY <1>1, InitKeys, KeysStep, OpensStep, PTL DEF Spec
-----------------------------------------------------------------------------
(* The ring a run leaves. *)

\* From its first step on, the script holds a ring it finds valid.
MemoryValid == pc # "idle" => ValidVaultKeys(env)

\* Validity is about the ring and its active version alone.
LEMMA ValidityDependsOnRing ==
  ASSUME NEW f \in EnvFile, NEW g \in EnvFile,
         f.ring = g.ring, f.active = g.active, ValidVaultKeys(f)
  PROVE  ValidVaultKeys(g)
  BY DEF ValidVaultKeys

LEMMA ValidStep == TypeOK /\ MemoryValid /\ [Next]_vars => MemoryValid'
<1> SUFFICES ASSUME TypeOK, MemoryValid, [Next]_vars PROVE MemoryValid'
  OBVIOUS
<1>1. CASE ReadEnv
  BY <1>1, ReadEnvKeepsOrDraws DEF MemoryValid
<1>2. CASE CreateStore \/ ReadModel \/ CreateModel
  <2>1. env \in EnvFile /\ env' \in EnvFile /\ pc # "idle"
    BY <1>2, ScriptType
    DEF Script, CreateStore, ReadModel, CreateModel, TypeOK
  <2>2. env'.ring = env.ring /\ env'.active = env.active
    BY <1>2, <2>1 DEF CreateStore, ReadModel, CreateModel, EnvFile
  <2> QED
    BY <2>1, <2>2, ValidityDependsOnRing DEF MemoryValid
<1>3. CASE UNCHANGED <<pc, env>>
  BY <1>3 DEF MemoryValid, ValidVaultKeys
<1>4. CASE TruncateFile \/ WriteFile \/ CheckStore \/ Stop
  <2>1. pc # "idle" /\ (pc' # "idle" => env' = env)
    BY <1>4 DEF TruncateFile, WriteFile, CheckStore, Stop
  <2> QED
    BY <2>1 DEF MemoryValid
<1>5. CASE Vault \/ Developer \/ UNCHANGED vars
  <2>1. UNCHANGED <<pc, env>>
    BY <1>5
    DEF Vault, StartVault, StopVault, StoreItem, DropItem, Developer, AddKey,
        RetireKey, ActivateKey, EditModel, ResetInfra, Edit, vars
  <2> QED
    BY <1>3, <2>1
<1> QED
  BY <1>1, <1>2, <1>4, <1>5 DEF Next, Script

LEMMA ReadyStep ==
  ASSUME TypeOK, MemoryValid, [Next]_vars,
         pc = "writing_fga", pc' = "ready"
  PROVE  \/ VaultStarts(file')
         \/ \E e \in file'.ring : ~e.padded \/ e.version > MaxU32
         \/ \E e, g \in file'.ring : e # g /\ e.version = g.version
<1>1. WriteFile
  BY DEF Next, Script, ReadEnv, TruncateFile, WriteFile, CheckStore,
         CreateStore, ReadModel, CreateModel, Stop, Vault, StartVault,
         StopVault, StoreItem, DropItem, Developer, AddKey, RetireKey,
         ActivateKey, EditModel, ResetInfra, Edit, vars
<1>2. file' = env /\ env \in EnvFile /\ ValidVaultKeys(env)
  BY <1>1 DEF WriteFile, TypeOK, MemoryValid
<1>3. env.ring \subseteq Entry
  BY <1>2 DEF EnvFile
<1>4. \A e \in env.ring : e.version \in Nat
  BY <1>3 DEF Entry
<1>5. CASE \A e \in env.ring : e.padded /\ e.version <= MaxU32
  BY <1>2, <1>5, ValidStartsVault
<1>6. CASE \E e \in env.ring : ~e.padded \/ ~(e.version <= MaxU32)
  BY <1>2, <1>4, <1>6, BoundsAssumption
<1> QED
  BY <1>5, <1>6

\* After a complete run the vault starts, but for the three things the script
\* does not look at.
THEOREM ReadyVaultsStart == Spec => ReadyVaultStarts
<1>1. Init => TypeOK /\ MemoryValid
  BY InitType DEF Init, MemoryValid
<1>2. TypeOK /\ MemoryValid /\ [Next]_vars =>
        (TypeOK /\ MemoryValid)'
  BY TypeStep, ValidStep
<1>3. TypeOK /\ MemoryValid /\ [Next]_vars =>
        [pc = "writing_fga" /\ pc' = "ready" =>
           \/ VaultStarts(file')
           \/ \E e \in file'.ring : ~e.padded \/ e.version > MaxU32
           \/ \E e, g \in file'.ring : e # g /\ e.version = g.version]_vars
  BY ReadyStep
<1> QED
  BY <1>1, <1>2, <1>3, PTL DEF Spec, ReadyVaultStarts
-----------------------------------------------------------------------------
(* The model. *)

NoStoreMishap == "store_refused" \notin mishaps

\* The ids of f name a model of its store, with its content.
Consistent(f) ==
  /\ f.store = None => f.model = None
  /\ f.model # None =>
       model[f.model] = [store |-> f.store, hash |-> f.hash]

\* What the script holds is consistent too, but for the content of the model
\* it is about to replace; it creates a store when it knows of none.
MemoryConsistent ==
  /\ pc \notin {"idle", "create_model"} => Consistent(env)
  /\ pc = "create_store" => env.store = None
  /\ pc \in {"model", "create_model", "write_fga", "writing_fga", "ready"} =>
       env.store # None

ModelInv ==
  /\ TypeOK
  /\ NoStoreMishap =>
       /\ file # None => Consistent(file)
       /\ MemoryConsistent

\* A fresh model id leaves the models a file names alone.
LEMMA FreshModelKeeps ==
  ASSUME TypeOK, NEW f \in EnvFile, Consistent(f),
         NEW m \in Models, model[m].store = None,
         NEW h, NEW s,
         model' = [model EXCEPT ![m] = [store |-> s, hash |-> h]]
  PROVE  /\ f.store = None => f.model = None
         /\ f.model # None =>
              model'[f.model] = [store |-> f.store, hash |-> f.hash]
<1>1. CASE f.model = None
  BY <1>1
<1>2. CASE f.model # None
  <2>1. f.model \in Models /\ f.store # None
    BY <1>2 DEF EnvFile, Consistent
  <2>2. f.model # m
    BY <1>2, <2>1 DEF Consistent
  <2> QED
    BY <1>2, <2>1, <2>2 DEF Consistent, TypeOK
<1> QED
  BY <1>1, <1>2

LEMMA ScriptKeepsModel ==
  ASSUME ModelInv, Script, NoStoreMishap'
  PROVE  (file # None => Consistent(file))' /\ MemoryConsistent'
<1>1. NoStoreMishap
  BY DEF Script, ReadEnv, TruncateFile, WriteFile, CheckStore, CreateStore,
         ReadModel, CreateModel, Stop, NoStoreMishap
<1>2. TypeOK /\ (file # None => Consistent(file)) /\ MemoryConsistent
  BY <1>1 DEF ModelInv
<1>3. CASE ReadEnv
  <2>1. UNCHANGED <<file, model>> /\ pc' = "write_env"
    BY <1>3 DEF ReadEnv
  <2> QED
    BY <1>2, <1>3, <2>1, ReadEnvKeepsOrDraws DEF Consistent, MemoryConsistent
<1>4. CASE TruncateFile
  BY <1>2, <1>4 DEF TruncateFile, Consistent, MemoryConsistent
<1>5. CASE WriteFile
  BY <1>2, <1>5 DEF WriteFile, Consistent, MemoryConsistent
<1>6. CASE CheckStore
  <2>1. UNCHANGED <<file, env, model>> /\ pc = "check_store"
    BY <1>6 DEF CheckStore
  <2>2. pc' = "create_store" => env.store = None
    BY <1>6 DEF CheckStore, NoStoreMishap
  <2>3. pc' = "model" => env.store # None
    BY <1>6 DEF CheckStore
  <2>4. pc' \in {"create_store", "model"}
    BY <1>6 DEF CheckStore
  <2> QED
    BY <1>2, <2>1, <2>2, <2>3, <2>4 DEF Consistent, MemoryConsistent
<1>7. CASE CreateStore
  <2>1. PICK s \in Stores : env' = [env EXCEPT !.store = s]
    BY <1>7 DEF CreateStore
  <2>2. UNCHANGED <<file, model>> /\ pc = "create_store" /\ pc' = "model"
    BY <1>7 DEF CreateStore
  <2>3. env \in EnvFile /\ env.model = None
    BY <1>2, <2>2 DEF TypeOK, MemoryConsistent, Consistent
  <2>4. env'.store = s /\ env'.model = None
    BY <2>1, <2>3 DEF EnvFile
  <2>5. s # None
    BY NoneAssumption
  <2> QED
    BY <1>2, <2>2, <2>4, <2>5 DEF Consistent, MemoryConsistent
<1>8. CASE ReadModel
  <2>1. UNCHANGED <<file, model>> /\ pc = "model"
        /\ pc' = (IF NeedsModel THEN "create_model" ELSE "write_fga")
        /\ env' = [env EXCEPT !.hash = source]
    BY <1>8 DEF ReadModel
  <2>2. env \in EnvFile
    BY <1>2, <2>1 DEF TypeOK
  <2>3. /\ env'.store = env.store /\ env'.model = env.model
        /\ env'.hash = source
    BY <2>1, <2>2 DEF EnvFile
  <2>4. ~NeedsModel => env'.hash = env.hash
    BY <2>3 DEF NeedsModel
  <2> QED
    BY <1>2, <2>1, <2>3, <2>4 DEF Consistent, MemoryConsistent
<1>9. CASE CreateModel
  <2>1. PICK m \in Models :
          /\ model[m].store = None
          /\ model' = [model EXCEPT ![m] = [store |-> env.store,
                                            hash |-> env.hash]]
          /\ env' = [env EXCEPT !.model = m]
    BY <1>9 DEF CreateModel
  <2>2. UNCHANGED file /\ pc = "create_model" /\ pc' = "write_fga"
    BY <1>9 DEF CreateModel
  <2>3. env \in EnvFile /\ env.store # None
    BY <1>2, <2>2 DEF TypeOK, MemoryConsistent
  <2>4. /\ env'.store = env.store /\ env'.model = m /\ env'.hash = env.hash
    BY <2>1, <2>3 DEF EnvFile
  <2>5. model'[m] = [store |-> env.store, hash |-> env.hash]
    BY <1>2, <2>1 DEF TypeOK
  <2>6. MemoryConsistent'
    BY <2>2, <2>3, <2>4, <2>5 DEF MemoryConsistent, Consistent
  <2>7. file # None => file \in EnvFile
    BY <1>2 DEF TypeOK
  <2>8. (file # None => Consistent(file))'
    BY <1>2, <2>1, <2>2, <2>7, FreshModelKeeps DEF Consistent
  <2> QED
    BY <2>6, <2>8
<1>10. CASE Stop
  BY <1>2, <1>10 DEF Stop, Consistent, MemoryConsistent
<1> QED
  BY <1>3, <1>4, <1>5, <1>6, <1>7, <1>8, <1>9, <1>10 DEF Script

LEMMA EditKeepsModel ==
  ASSUME TypeOK, file # None, AddKey \/ RetireKey \/ ActivateKey
  PROVE  /\ file'.store = file.store /\ file'.model = file.model
         /\ file'.hash = file.hash
         /\ UNCHANGED <<pc, env, model>>
         /\ NoStoreMishap' => NoStoreMishap
  BY DEF AddKey, RetireKey, ActivateKey, Edit, TypeOK, EnvFile, NoStoreMishap

LEMMA ModelStep == ModelInv /\ [Next]_vars => ModelInv'
<1> SUFFICES ASSUME ModelInv, [Next]_vars, NoStoreMishap'
             PROVE  (file # None => Consistent(file))' /\ MemoryConsistent'
  BY TypeStep DEF ModelInv
<1>1. CASE Script
  BY <1>1, ScriptKeepsModel
<1>2. CASE AddKey \/ RetireKey \/ ActivateKey
  <2>1. TypeOK /\ file # None
    BY <1>2 DEF AddKey, RetireKey, ActivateKey, ModelInv
  <2> QED
    BY <1>2, <2>1, EditKeepsModel DEF ModelInv, Consistent, MemoryConsistent
<1>3. CASE ResetInfra
  <2>1. /\ UNCHANGED <<pc, env, model, mishaps>>
        /\ file' \in {file, None}
    BY <1>3 DEF ResetInfra
  <2> QED
    BY <2>1 DEF ModelInv, NoStoreMishap, Consistent, MemoryConsistent
<1>4. CASE Vault \/ EditModel \/ UNCHANGED vars
  <2>1. UNCHANGED <<file, pc, env, model, mishaps>>
    BY <1>4
    DEF Vault, StartVault, StopVault, StoreItem, DropItem, EditModel, vars
  <2> QED
    BY <2>1 DEF ModelInv, NoStoreMishap, Consistent, MemoryConsistent
<1> QED
  BY <1>1, <1>2, <1>3, <1>4 DEF Next, Developer

\* The model of the file is the one of its store, but after a lookup of the
\* store failed.
THEOREM ModelsBelong == Spec => []ModelBelongsToStore
<1>1. Init => ModelInv
  BY InitType DEF Init, ModelInv, MemoryConsistent
<1>2. ModelInv => ModelBelongsToStore
  BY DEF ModelInv, ModelBelongsToStore, NoStoreMishap, Consistent
<1> QED
  BY <1>1, <1>2, ModelStep, PTL DEF Spec

\* From the write of the ids on, the script holds the id of a model.
ModelKnown ==
  pc \in {"write_fga", "writing_fga", "ready"} => env.model # None

LEMMA ModelKnownStep == TypeOK /\ ModelKnown /\ [Next]_vars => ModelKnown'
<1> SUFFICES ASSUME TypeOK, ModelKnown, [Next]_vars PROVE ModelKnown'
  OBVIOUS
<1>1. CASE ReadModel
  <2>1. /\ pc = "model" /\ env' = [env EXCEPT !.hash = source]
        /\ pc' = IF NeedsModel THEN "create_model" ELSE "write_fga"
    BY <1>1 DEF ReadModel
  <2>2. env'.model = env.model
    BY <2>1 DEF TypeOK, EnvFile
  <2> QED
    BY <2>1, <2>2 DEF NeedsModel, ModelKnown
<1>2. CASE CreateModel
  <2>1. PICK m \in Models : env' = [env EXCEPT !.model = m]
    BY <1>2 DEF CreateModel
  <2>2. env'.model = m /\ m # None
    BY <1>2, <2>1, NoneAssumption DEF CreateModel, TypeOK, EnvFile
  <2> QED
    BY <2>2 DEF ModelKnown
<1>3. CASE TruncateFile \/ WriteFile
  BY <1>3 DEF TruncateFile, WriteFile, ModelKnown
<1>4. CASE ReadEnv \/ CheckStore \/ CreateStore \/ Stop
  BY <1>4 DEF ReadEnv, CheckStore, CreateStore, Stop, ModelKnown
<1>5. CASE Vault \/ Developer \/ UNCHANGED vars
  <2>1. UNCHANGED <<pc, env>>
    BY <1>5
    DEF Vault, StartVault, StopVault, StoreItem, DropItem, Developer, AddKey,
        RetireKey, ActivateKey, EditModel, ResetInfra, Edit, vars
  <2> QED
    BY <2>1 DEF ModelKnown
<1> QED
  BY <1>1, <1>2, <1>3, <1>4, <1>5 DEF Next, Script

\* What the script says last on OpenFGA is true unless a lookup of the store
\* it knew has failed: the store it names has the model it names.
THEOREM ReadyStoresHaveTheirModel ==
  Spec => []("store_refused" \notin mishaps => ReadyStoreHasItsModel)
<1>1. Init => ModelInv /\ ModelKnown
  BY InitType DEF Init, ModelInv, MemoryConsistent, ModelKnown
<1>2. ModelInv /\ ModelKnown =>
        ("store_refused" \notin mishaps => ReadyStoreHasItsModel)
  BY DEF ModelInv, ModelKnown, ReadyStoreHasItsModel, NoStoreMishap,
         MemoryConsistent, Consistent
<1>3. ModelInv /\ ModelKnown /\ [Next]_vars => ModelKnown'
  BY ModelKnownStep DEF ModelInv
<1> QED
  BY <1>1, <1>2, <1>3, ModelStep, PTL DEF Spec
=============================================================================
