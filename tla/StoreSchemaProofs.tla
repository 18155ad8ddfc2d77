------------------------- MODULE StoreSchemaProofs -------------------------
(***************************************************************************)
(* Proofs about StoreSchema, for any number of processes: the type         *)
(* invariant, that an open store is usable and that a stamp keeps its      *)
(* promise.                                                                *)
(*                                                                         *)
(* The key is that the shape is only ever completed: once the decisions    *)
(* table, if there is one, has its column, no step takes it away, so what  *)
(* a process knew of the file when it chose its branch still holds.        *)
(***************************************************************************)
EXTENDS StoreSchema, TLAPS

\* The index of the script can be created as soon as the decisions table exists.
Sound == "decisions" \in objects => Fingerprint \in objects

\* What a process relies on in each place.
ChoseWell(p) ==
  /\ pc[p] \in {"claiming", "creating"} => Sound
  /\ pc[p] = "migrating" => version[p] = 1
  /\ pc[p] \in Opening \ {"creating"} => statement[p] = 1
  /\ pc[p] = "creating" => \A i \in 1..(statement[p] - 1) : Script[i] \in objects
  /\ pc[p] # "failed"

Inv ==
  /\ TypeOK
  /\ stamp >= SchemaVersion => Sound
  /\ \A p \in Processes : ChoseWell(p)
  /\ OpenIsUsable

\* The script has six statements, and each creates an object.
LEMMA ScriptFacts ==
  /\ Len(Script) = 6
  /\ Script \in [1..6 -> Objects]
  /\ Objects = {Script[i] : i \in 1..6} \cup {Fingerprint}
  /\ Script[6] = FingerprintIndex /\ Script[5] = "decisions"
  /\ \A i \in 1..5 : Script[i] \in Tables
BY DEF Script, Objects, Tables, Fingerprint, FingerprintIndex

\* A statement of the script keeps what exists, adds what it names and leaves a
\* sound shape sound.
LEMMA CreatedGrows ==
  ASSUME NEW name \in Objects, objects \in SUBSET Objects
  PROVE  /\ objects \subseteq Created(name)
         /\ name \in Created(name)
         /\ Created(name) \in SUBSET Objects
         /\ Sound => ("decisions" \in Created(name) => Fingerprint \in Created(name))
BY DEF Created, Sound, Objects, Tables, Fingerprint, FingerprintIndex

\* Every file a process can be given satisfies the invariant.
LEMMA InitInv == Init => Inv
<1> SUFFICES ASSUME Init PROVE Inv
  OBVIOUS
<1>1. TypeOK /\ (stamp >= SchemaVersion => Sound)
  <2>1. PICK d \in Databases : stamp = d.stamp /\ objects = d.objects
    BY DEF Init
  <2>2. CASE \E n \in 0..5 : d = [stamp |-> 0, objects |-> Beginning(n)]
    <3>1. PICK n \in 0..5 : d = [stamp |-> 0, objects |-> Beginning(n)]
      BY <2>2
    <3>2. Beginning(n) \subseteq Objects
      BY ScriptFacts DEF Beginning
    <3> QED BY <2>1, <3>1, <3>2, ScriptFacts DEF Init, TypeOK, Places, SchemaVersion, Unversioned
  <2>3. CASE /\ d.stamp \in {0, 1, SchemaVersion + 1}
             /\ d.objects \in {Tables, Tables \cup {Fingerprint}, Objects}
             /\ d.stamp > 1 => d.objects = Objects
    BY <2>1, <2>3, ScriptFacts
       DEF Init, TypeOK, Places, SchemaVersion, Unversioned, Sound, Objects
  <2> QED BY <2>2, <2>3 DEF Databases, SchemaVersion
<1>2. \A p \in Processes : pc[p] = "down"
  BY DEF Init
<1> QED BY <1>1, <1>2 DEF Inv, ChoseWell, OpenIsUsable, Opening

\* A step that leaves the database and puts one process in a place where it may
\* be keeps the invariant.
LEMMA ProcessMoves ==
  ASSUME Inv, UNCHANGED databaseVars, TypeOK', NEW q \in Processes,
         ChoseWell(q)', pc'[q] # "open",
         \A p \in Processes \ {q} : /\ pc'[p] = pc[p]
                                     /\ version'[p] = version[p]
                                     /\ statement'[p] = statement[p]
  PROVE  Inv'
<1>1. \A p \in Processes \ {q} : ChoseWell(p)'
  BY DEF Inv, ChoseWell, Sound, databaseVars
<1>2. OpenIsUsable'
  BY DEF Inv, OpenIsUsable, databaseVars
<1> QED BY <1>1, <1>2 DEF Inv, Sound, databaseVars

\* A step that only completes the database keeps what the other processes know.
LEMMA DatabaseGrows ==
  ASSUME Inv, TypeOK', NEW q \in Processes, objects \subseteq objects',
         Sound => Sound', stamp' >= SchemaVersion => Sound', ChoseWell(q)',
         pc'[q] = "open" => objects' = Objects,
         \A p \in Processes \ {q} : /\ pc'[p] = pc[p]
                                     /\ version'[p] = version[p]
                                     /\ statement'[p] = statement[p]
  PROVE  Inv'
<1>1. \A p \in Processes \ {q} : ChoseWell(p)'
  BY DEF Inv, ChoseWell
<1>2. OpenIsUsable'
  BY DEF Inv, OpenIsUsable, TypeOK
<1> QED BY <1>1, <1>2 DEF Inv

\* Opening, reading the stamp, looking for tables and stopping touch no object.
LEMMA OpenInv ==
  ASSUME Inv, NEW q \in Processes, Open(q)
  PROVE  Inv'
<1>1. TypeOK'
  BY ScriptFacts DEF Inv, TypeOK, Open, Enters, Places, Opening
<1>2. ChoseWell(q)' /\ pc'[q] # "open"
  BY DEF Inv, TypeOK, Open, Enters, ChoseWell
<1>3. \A p \in Processes \ {q} : /\ pc'[p] = pc[p]
                                  /\ version'[p] = version[p]
                                  /\ statement'[p] = statement[p]
  BY DEF Inv, TypeOK, Open, Enters
<1>4. UNCHANGED databaseVars
  BY DEF Open, databaseVars
<1> QED BY <1>1, <1>2, <1>3, <1>4, ProcessMoves

\* A sound shape is all that a process with version 0 or 2 needs.
LEMMA ReadStampInv ==
  ASSUME Inv, NEW q \in Processes, ReadStamp(q)
  PROVE  Inv'
<1>1. TypeOK'
  BY DEF Inv, TypeOK, ReadStamp, Enters, Places, Opening, PlaceFor, SchemaVersion, Unversioned
<1>2. statement[q] = 1
  BY DEF Inv, ReadStamp, ChoseWell, Opening
<1>3. ChoseWell(q)' /\ pc'[q] # "open"
  BY <1>2 DEF Inv, TypeOK, ReadStamp, Enters, ChoseWell, PlaceFor, SchemaVersion,
              Unversioned, Opening, Sound
<1>4. \A p \in Processes \ {q} : /\ pc'[p] = pc[p]
                                  /\ version'[p] = version[p]
                                  /\ statement'[p] = statement[p]
  BY DEF Inv, TypeOK, ReadStamp, Enters
<1>5. UNCHANGED databaseVars
  BY DEF ReadStamp, databaseVars
<1> QED BY <1>1, <1>3, <1>4, <1>5, ProcessMoves

\* A file without tables has a sound shape.
LEMMA LookForTablesInv ==
  ASSUME Inv, NEW q \in Processes, LookForTables(q)
  PROVE  Inv'
<1>1. TypeOK'
  BY DEF Inv, TypeOK, LookForTables, Enters, Places, Opening, PlaceFor, SchemaVersion,
         Unversioned, VersionWithoutStamp
<1>2. statement[q] = 1
  BY DEF Inv, LookForTables, ChoseWell, Opening
<1>3. ChoseWell(q)' /\ pc'[q] # "open"
  <2>1. CASE objects \cap Tables = {}
    <3>1. pc'[q] = "claiming"
      <4>1. VersionWithoutStamp = 0
        BY <2>1 DEF VersionWithoutStamp, Unversioned
      <4>2. PlaceFor(0) = "claiming"
        BY DEF PlaceFor, SchemaVersion, Unversioned
      <4> QED BY <4>1, <4>2 DEF Inv, TypeOK, LookForTables, Enters
    <3>2. "decisions" \in Tables
      BY DEF Tables
    <3>3. Sound'
      BY <2>1, <3>2 DEF LookForTables, Sound
    <3> QED BY <1>2, <3>1, <3>3 DEF LookForTables, ChoseWell
  <2>2. CASE objects \cap Tables # {}
    <3>1. pc'[q] = "migrating" /\ version'[q] = 1
      BY <2>2 DEF Inv, TypeOK, LookForTables, Enters, VersionWithoutStamp, PlaceFor,
                  SchemaVersion, Unversioned
    <3> QED BY <1>2, <3>1 DEF LookForTables, ChoseWell
  <2> QED BY <2>1, <2>2
<1>4. \A p \in Processes \ {q} : /\ pc'[p] = pc[p]
                                  /\ version'[p] = version[p]
                                  /\ statement'[p] = statement[p]
  BY DEF Inv, TypeOK, LookForTables, Enters
<1>5. UNCHANGED databaseVars
  BY DEF LookForTables, databaseVars
<1> QED BY <1>1, <1>3, <1>4, <1>5, ProcessMoves

LEMMA StopInv ==
  ASSUME Inv, NEW q \in Processes, Stop(q)
  PROVE  Inv'
<1>1. TypeOK'
  BY DEF Inv, TypeOK, Stop, Enters, Places, databaseVars
<1>2. ChoseWell(q)' /\ pc'[q] # "open"
  BY DEF Inv, TypeOK, Stop, Enters, ChoseWell, Opening
<1>3. \A p \in Processes \ {q} : /\ pc'[p] = pc[p]
                                  /\ version'[p] = version[p]
                                  /\ statement'[p] = statement[p]
  BY DEF Inv, TypeOK, Stop, Enters
<1>4. UNCHANGED databaseVars
  BY DEF Stop, databaseVars
<1> QED BY <1>1, <1>2, <1>3, <1>4, ProcessMoves

\* The stamp of a fresh file: the shape it promises is sound already.
LEMMA ClaimInv ==
  ASSUME Inv, NEW q \in Processes, Claim(q)
  PROVE  Inv'
<1>1. TypeOK'
  BY DEF Inv, TypeOK, Claim, Enters, Places, Opening, SchemaVersion
<1>2. statement[q] = 1 /\ Sound
  BY DEF Inv, Claim, ChoseWell, Opening
<1>3. Sound' /\ objects \subseteq objects'
  BY <1>2 DEF Claim, Sound
<1>4. ChoseWell(q)' /\ pc'[q] # "open"
  BY <1>2, <1>3 DEF Inv, TypeOK, Claim, Enters, ChoseWell, Opening
<1>5. \A p \in Processes \ {q} : /\ pc'[p] = pc[p]
                                  /\ version'[p] = version[p]
                                  /\ statement'[p] = statement[p]
  BY DEF Inv, TypeOK, Claim, Enters
<1> QED BY <1>1, <1>3, <1>4, <1>5, DatabaseGrows

\* The transaction that migrates leaves a sound shape and the stamp that says so.
LEMMA MigrateToInv ==
  ASSUME Inv, NEW q \in Processes, NEW target \in 1..SchemaVersion, MigrateTo(q, target)
  PROVE  Inv'
<1>1. target = 2 /\ statement[q] = 1
  BY DEF Inv, MigrateTo, ChoseWell, Opening
<1>2. objects \subseteq objects' /\ objects' \in SUBSET Objects /\ Sound'
  BY <1>1 DEF Inv, TypeOK, MigrateTo, Migrated, StepIsNeeded, Sound, Objects
<1>3. TypeOK'
  BY <1>1, <1>2 DEF Inv, TypeOK, MigrateTo, Enters, Places, Opening, PlaceFor,
                    SchemaVersion, Unversioned
<1>4. ChoseWell(q)' /\ pc'[q] # "open"
  BY <1>1, <1>2 DEF Inv, TypeOK, MigrateTo, Enters, ChoseWell, PlaceFor, SchemaVersion,
                    Unversioned, Opening
<1>5. \A p \in Processes \ {q} : /\ pc'[p] = pc[p]
                                  /\ version'[p] = version[p]
                                  /\ statement'[p] = statement[p]
  BY DEF Inv, TypeOK, MigrateTo, Enters
<1> QED BY <1>2, <1>3, <1>4, <1>5, DatabaseGrows

\* No statement of the script fails, and the last one completes the shape.
LEMMA RunStatementInv ==
  ASSUME Inv, NEW q \in Processes, RunStatement(q)
  PROVE  Inv'
<1> DEFINE name == Script[statement[q]]
<1>1. /\ statement[q] \in 1..6 /\ name \in Objects /\ Sound
      /\ objects \in SUBSET Objects
      /\ \A i \in 1..(statement[q] - 1) : Script[i] \in objects
  BY ScriptFacts DEF Inv, TypeOK, RunStatement, ChoseWell
<1>2. Runnable(name)
  <2>1. CASE statement[q] = 6
    <3>1. Script[5] \in objects
      BY <1>1, <2>1
    <3> QED BY <1>1, <3>1, ScriptFacts DEF Runnable, Sound
  <2>2. CASE statement[q] \in 1..5
    BY <2>2, ScriptFacts DEF Runnable, Tables, FingerprintIndex
  <2> QED BY <1>1, <2>1, <2>2
<1>3. objects' = Created(name)
  BY <1>2 DEF RunStatement
<1>4. /\ objects \subseteq objects' /\ name \in objects'
      /\ objects' \in SUBSET Objects /\ Sound'
  <2> HIDE DEF name
  <2> QED BY <1>1, <1>3, CreatedGrows DEF Sound
<1>5. TypeOK'
  BY <1>1, <1>2, <1>4, ScriptFacts
     DEF Inv, TypeOK, RunStatement, Enters, Places, Opening, LastStatement
<1>6. CASE statement[q] = 6
  <2>1. pc' = [pc EXCEPT ![q] = "open"]
    BY <1>2, <1>6, ScriptFacts DEF RunStatement, Enters, LastStatement
  <2>2. \A i \in 1..6 : Script[i] \in objects'
    BY <1>1, <1>4, <1>6
  <2>3. objects' = Objects
    <3>1. Script[5] \in objects'
      BY <2>2
    <3> QED BY <1>4, <2>2, <3>1, ScriptFacts DEF Sound
  <2>4. ChoseWell(q)' /\ (pc'[q] = "open" => objects' = Objects)
    BY <2>1, <2>3 DEF Inv, TypeOK, ChoseWell, Opening
  <2>5. \A p \in Processes \ {q} : /\ pc'[p] = pc[p]
                                    /\ version'[p] = version[p]
                                    /\ statement'[p] = statement[p]
    BY DEF Inv, TypeOK, RunStatement, Enters
  <2> QED BY <1>4, <1>5, <2>4, <2>5, DatabaseGrows
<1>7. CASE statement[q] \in 1..5
  <2>1. pc'[q] = "creating" /\ statement'[q] = statement[q] + 1
    BY <1>2, <1>7, ScriptFacts DEF Inv, TypeOK, RunStatement, Enters, LastStatement
  <2>2. \A i \in 1..(statement'[q] - 1) : Script[i] \in objects'
    BY <1>1, <1>4, <1>7, <2>1
  <2>3. ChoseWell(q)'
    BY <1>4, <2>1, <2>2 DEF ChoseWell, Opening
  <2>4. \A p \in Processes \ {q} : /\ pc'[p] = pc[p]
                                    /\ version'[p] = version[p]
                                    /\ statement'[p] = statement[p]
    BY DEF Inv, TypeOK, RunStatement, Enters
  <2> QED BY <1>4, <1>5, <2>1, <2>3, <2>4, DatabaseGrows
<1> QED BY <1>1, <1>6, <1>7

\* Every step keeps the invariant.
LEMMA NextInv == Inv /\ [Next]_storeVars => Inv'
<1> SUFFICES ASSUME Inv, [Next]_storeVars PROVE Inv'
  OBVIOUS
<1>1. ASSUME NEW p \in Processes, Open(p) \/ Advance(p) \/ Stop(p) PROVE Inv'
  BY <1>1, OpenInv, ReadStampInv, LookForTablesInv, ClaimInv, MigrateToInv,
     RunStatementInv, StopInv DEF Advance
<1>2. CASE UNCHANGED storeVars
  BY <1>2 DEF Inv, TypeOK, Sound, ChoseWell, OpenIsUsable, storeVars
<1> QED BY <1>1, <1>2 DEF Next

\* The invariant holds in every behaviour.
LEMMA AlwaysInv == Spec => []Inv
BY InitInv, NextInv, PTL DEF Spec

\* Every variable keeps its type, however many processes open the store.
THEOREM StoreTypeCorrect == Spec => []TypeOK
<1>1. Inv => TypeOK
  BY DEF Inv
<1> QED BY <1>1, AlwaysInv, PTL

\* An open store is complete: the five tables, the column and its unique index.
THEOREM OpenStoresAreUsable == Spec => []OpenIsUsable
<1>1. Inv => OpenIsUsable
  BY DEF Inv
<1> QED BY <1>1, AlwaysInv, PTL

\* The stamp never claims a shape the decisions table does not have.
THEOREM StampsKeepTheirPromise == Spec => []StampKeepsPromise
<1>1. Inv => StampKeepsPromise
  BY DEF Inv, StampKeepsPromise, Sound, SchemaVersion
<1> QED BY <1>1, AlwaysInv, PTL

\* No statement of the script ever raises: opening a store does not fail.
THEOREM OpeningNeverFails == Spec => [](\A p \in Processes : pc[p] # "failed")
<1>1. Inv => \A p \in Processes : pc[p] # "failed"
  BY DEF Inv, ChoseWell
<1> QED BY <1>1, AlwaysInv, PTL
============================================================================
