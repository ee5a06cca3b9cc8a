--------------------------- MODULE Startup_proofs ---------------------------
(***************************************************************************)
(* Proof that a process serves only when its tables exist, for any number  *)
(* of processes that start, crash and close while others migrate the same  *)
(* database - as long as the services that share a database are one        *)
(* service.  Without that condition the property fails: see the run        *)
(* startup_shared.                                                         *)
(***************************************************************************)
EXTENDS Startup, TLAPS

\* Only replicas of one service share a database.
SeparateDatabases ==
    \A i, j \in Instance :
        ~Stateless(i) /\ ~Stateless(j) /\ DatabaseOf[i] = DatabaseOf[j]
        => Service[i] = Service[j]

Needed(i) == Folder[Service[i]]

\* The journal has all of a service's migrations or none, and what it has (or
\* had, when a migrator read it) is in the schema.
MigratorInv(i) ==
    LET d == DatabaseOf[i]
    IN  /\ journal[d] \in {{}, Needed(i)}
        /\ seen[i] \in {{}, Needed(i)}
        /\ journal[d] \cup seen[i] \subseteq schema[d]
        /\ phase[i] \in {"serving", "closing"} => Needed(i) \subseteq schema[d]

StartupInv ==
    /\ BootTypeOK
    /\ \A i \in Instance : ~Stateless(i) => MigratorInv(i)
    /\ \A i \in Instance : phase[i] = "migrating" => ~Stateless(i)

----------------------------------------------------------------------------
\* A migrator runs the whole folder, or nothing.
LEMMA AllOrNothing ==
    ASSUME NEW i \in Instance, NEW known \in {{}, Needed(i)}
    PROVE  Newer(i, known) = IF known = {} THEN Needed(i) ELSE {}
<1>1. Needed(i) \subseteq Migration
  BY StartupAssumption DEF Needed
<1>2. \A m \in Needed(i) : ~(When[m] < When[m])
  BY <1>1, StartupAssumption
<1> QED
  BY <1>2 DEF Newer, Needed

\* What a step does to the phase and the memory of the processes.
LEMMA GotoPhases ==
    ASSUME BootTypeOK, NEW i \in Instance, NEW p \in Phase, Goto(i, p)
    PROVE  /\ phase' \in [Instance -> Phase] /\ seen' \in [Instance -> SUBSET Migration]
           /\ phase'[i] = p /\ seen'[i] = {}
           /\ \A j \in Instance \ {i} : phase'[j] = phase[j] /\ seen'[j] = seen[j]
BY DEF Goto, BootTypeOK

\* A migrator that reads, or commits, keeps the invariant of every process.
LEMMA MigratedStep ==
    ASSUME SeparateDatabases, StartupInv, NEW i \in Instance, ~Stateless(i),
           NEW known \in {{}, Needed(i)}, known \subseteq schema[DatabaseOf[i]],
           schema'  = [schema  EXCEPT ![DatabaseOf[i]] = @ \cup Newer(i, known)],
           journal' = [journal EXCEPT ![DatabaseOf[i]] = @ \cup Newer(i, known)],
           NEW j \in Instance, ~Stateless(j)
    PROVE  LET d == DatabaseOf[j]
           IN  /\ journal'[d] \in {{}, Needed(j)}
               /\ schema[d] \cup journal'[d] \subseteq schema'[d]
               /\ j = i => Needed(j) \subseteq schema'[d]
<1>1. /\ schema \in [Database -> SUBSET Migration]
      /\ journal \in [Database -> SUBSET Migration]
      /\ DatabaseOf[i] \in Database /\ DatabaseOf[j] \in Database
  BY StartupAssumption DEF StartupInv, BootTypeOK
<1>2. MigratorInv(i) /\ MigratorInv(j)
  BY DEF StartupInv
<1>3. Newer(i, known) = IF known = {} THEN Needed(i) ELSE {}
  BY AllOrNothing
<1>4. CASE DatabaseOf[j] = DatabaseOf[i]
  <2>1. Needed(j) = Needed(i)
    BY <1>4 DEF SeparateDatabases, Needed
  <2> QED
    BY <1>1, <1>2, <1>3, <1>4, <2>1 DEF MigratorInv
<1>5. CASE DatabaseOf[j] # DatabaseOf[i]
  BY <1>1, <1>2, <1>5 DEF MigratorInv
<1> QED
  BY <1>4, <1>5

\* Every step keeps the types.
LEMMA BootTypeStep == BootTypeOK /\ [BootNext]_<<boot, calm>> => BootTypeOK'
<1> SUFFICES ASSUME BootTypeOK, [BootNext]_<<boot, calm>>
             PROVE  BootTypeOK'
  OBVIOUS
<1>0. /\ phase \in [Instance -> Phase] /\ seen \in [Instance -> SUBSET Migration]
      /\ journal \in [Database -> SUBSET Migration]
      /\ schema \in [Database -> SUBSET Migration]
      /\ calm \in BOOLEAN
  BY DEF BootTypeOK
<1>1. ASSUME NEW i \in Instance, NEW known
      PROVE  Newer(i, known) \subseteq Migration
  BY StartupAssumption DEF Newer
<1>2. ASSUME NEW i \in Instance, startApiGateway(i)
      PROVE  BootTypeOK'
  BY <1>0, <1>2, GotoPhases DEF startApiGateway, BootTypeOK, Phase
<1>3. ASSUME NEW i \in Instance, createService(i)
      PROVE  BootTypeOK'
  <2>1. journal[DatabaseOf[i]] \in SUBSET Migration
    BY <1>0, StartupAssumption
  <2> QED
    BY <1>0, <1>3, <2>1 DEF createService, BootTypeOK, Phase
<1>4. ASSUME NEW i \in Instance, RunMigrations(i)
      PROVE  BootTypeOK'
  <2>1. PendingMigrations(i) \subseteq Migration
    BY <1>1 DEF PendingMigrations
  <2>2. phase' \in [Instance -> Phase] /\ seen' \in [Instance -> SUBSET Migration]
    BY <1>4, GotoPhases DEF RunMigrations, Phase
  <2> QED
    BY <1>0, <1>4, <2>1, <2>2 DEF RunMigrations, BootTypeOK
<1>5. ASSUME NEW i \in Instance, MigratedElsewhere(i)
      PROVE  BootTypeOK'
  BY <1>0, <1>1, <1>5 DEF MigratedElsewhere, BootTypeOK
<1>6. ASSUME NEW i \in Instance,
             MigrationRaises(i) \/ Close(i) \/ Closed(i) \/ Crash(i)
      PROVE  BootTypeOK'
  <2>1. phase' \in [Instance -> Phase] /\ seen' \in [Instance -> SUBSET Migration]
    BY <1>6, GotoPhases DEF MigrationRaises, Close, Closed, Crash, Phase
  <2> QED
    BY <1>0, <1>6, <2>1 DEF MigrationRaises, Close, Closed, Crash, BootTypeOK
<1>7. CASE Stabilise \/ UNCHANGED <<boot, calm>>
  BY <1>0, <1>7 DEF Stabilise, boot, BootTypeOK
<1> QED
  BY <1>2, <1>3, <1>4, <1>5, <1>6, <1>7 DEF BootNext, Boot

\* Every variable of the processes stays in its range.
THEOREM ProcessesTypeCorrect == BootSpec => []BootTypeOK
<1>1. BootInit => BootTypeOK
  BY DEF BootInit, BootTypeOK, Phase
<1> QED
  BY <1>1, BootTypeStep, PTL DEF BootSpec

\* Only a process that has a database comes to migrate.
LEMMA OnlyServicesMigrate ==
    ASSUME StartupInv, [BootNext]_<<boot, calm>>,
           NEW i \in Instance, phase'[i] = "migrating"
    PROVE  ~Stateless(i)
<1>0. phase \in [Instance -> Phase] /\ BootTypeOK
  BY DEF StartupInv, BootTypeOK
<1>1. phase[i] = "migrating" => ~Stateless(i)
  BY DEF StartupInv
<1>2. ASSUME NEW j \in Instance, createService(j)
      PROVE  ~Stateless(i)
  BY <1>0, <1>1, <1>2 DEF createService
<1>3. ASSUME NEW j \in Instance, NEW p \in Phase, p # "migrating", Goto(j, p)
      PROVE  ~Stateless(i)
  BY <1>0, <1>1, <1>3, GotoPhases
<1>4. ASSUME NEW j \in Instance,
             \/ startApiGateway(j) \/ RunMigrations(j) \/ MigrationRaises(j)
             \/ Close(j) \/ Closed(j) \/ Crash(j)
      PROVE  ~Stateless(i)
  BY <1>3, <1>4 DEF startApiGateway, RunMigrations, MigrationRaises, Close,
                    Closed, Crash, Phase
<1>5. ASSUME phase' = phase
      PROVE  ~Stateless(i)
  BY <1>1, <1>5
<1> QED
  BY <1>2, <1>4, <1>5
     DEF BootNext, Boot, MigratedElsewhere, Stabilise, boot

\* Every step keeps the invariant.
LEMMA StartupStep ==
    SeparateDatabases /\ StartupInv /\ [BootNext]_<<boot, calm>> => StartupInv'
<1> SUFFICES ASSUME SeparateDatabases, StartupInv, [BootNext]_<<boot, calm>>,
                    NEW j \in Instance, ~Stateless(j)
             PROVE  MigratorInv(j)'
  BY BootTypeStep, OnlyServicesMigrate DEF StartupInv, Stateless
<1>0. /\ BootTypeOK /\ MigratorInv(j)
      /\ phase \in [Instance -> Phase] /\ seen \in [Instance -> SUBSET Migration]
  BY DEF StartupInv, BootTypeOK
<1>1. ASSUME NEW i \in Instance, NEW p \in Phase, Goto(i, p),
             UNCHANGED <<journal, schema>>,
             p = "serving" => Stateless(i),
             p = "closing" => phase[i] = "serving"
      PROVE  MigratorInv(j)'
  <2>1. /\ j = i => phase'[j] = p /\ seen'[j] = {}
        /\ j # i => phase'[j] = phase[j] /\ seen'[j] = seen[j]
    BY <1>0, <1>1, GotoPhases
  <2> QED
    BY <1>0, <1>1, <2>1 DEF MigratorInv
<1>2. ASSUME NEW i \in Instance, startApiGateway(i)
      PROVE  MigratorInv(j)'
  BY <1>1, <1>2 DEF startApiGateway, Phase
<1>3. ASSUME NEW i \in Instance, createService(i)
      PROVE  MigratorInv(j)'
  <2>1. /\ j = i => /\ phase'[j] = "migrating"
                    /\ seen'[j] = journal[DatabaseOf[j]]
        /\ j # i => phase'[j] = phase[j] /\ seen'[j] = seen[j]
        /\ UNCHANGED <<journal, schema>>
    BY <1>0, <1>3 DEF createService
  <2> QED
    BY <1>0, <2>1 DEF MigratorInv
<1>4. ASSUME NEW i \in Instance, RunMigrations(i)
      PROVE  MigratorInv(j)'
  <2>1. /\ j = i => phase'[j] = "serving" /\ seen'[j] = {}
        /\ j # i => phase'[j] = phase[j] /\ seen'[j] = seen[j]
    BY <1>0, <1>4, GotoPhases DEF RunMigrations, Phase
  <2>2. CASE Stateless(i)
    BY <1>4, <2>2 DEF RunMigrations, StartupInv
  <2>3. CASE ~Stateless(i)
    <3>1. MigratorInv(i)
      BY <2>3 DEF StartupInv
    <3>2. LET d == DatabaseOf[j]
          IN  /\ journal'[d] \in {{}, Needed(j)}
              /\ schema[d] \cup journal'[d] \subseteq schema'[d]
              /\ j = i => Needed(j) \subseteq schema'[d]
      BY <1>4, <2>3, <3>1, MigratedStep
         DEF RunMigrations, PendingMigrations, MigratorInv
    <3> QED
      BY <1>0, <2>1, <3>2 DEF MigratorInv
  <2> QED
    BY <2>2, <2>3
<1>5. ASSUME NEW i \in Instance, MigratedElsewhere(i)
      PROVE  MigratorInv(j)'
  <2>1. ~Stateless(i) /\ phase' = phase /\ seen' = seen
    BY <1>5 DEF MigratedElsewhere
  <2>2. MigratorInv(i)
    BY <2>1 DEF StartupInv
  <2>3. LET d == DatabaseOf[j]
        IN  /\ journal'[d] \in {{}, Needed(j)}
            /\ schema[d] \cup journal'[d] \subseteq schema'[d]
    BY <1>5, <2>1, <2>2, MigratedStep DEF MigratedElsewhere, MigratorInv
  <2> QED
    BY <1>0, <2>1, <2>3 DEF MigratorInv
<1>6. ASSUME NEW i \in Instance,
             MigrationRaises(i) \/ Close(i) \/ Closed(i) \/ Crash(i)
      PROVE  MigratorInv(j)'
  BY <1>1, <1>6 DEF MigrationRaises, Close, Closed, Crash, Phase
<1>7. CASE Stabilise \/ UNCHANGED <<boot, calm>>
  BY <1>0, <1>7 DEF Stabilise, boot, MigratorInv
<1> QED
  BY <1>2, <1>3, <1>4, <1>5, <1>6, <1>7 DEF BootNext, Boot

\* A process serves only when its tables exist, if the databases are separate.
THEOREM SeparateServicesMigrate ==
    ASSUME SeparateDatabases
    PROVE  BootSpec => []ServingMeansMigrated
<1>1. BootInit => StartupInv
  BY StartupAssumption
     DEF BootInit, StartupInv, BootTypeOK, MigratorInv, Phase, Stateless
<1>2. StartupInv => ServingMeansMigrated
  BY DEF StartupInv, MigratorInv, Needed, Migrated, ServingMeansMigrated
<1>3. StartupInv /\ [BootNext]_<<boot, calm>> => StartupInv'
  BY StartupStep
<1> QED
  BY <1>1, <1>2, <1>3, PTL DEF BootSpec
=============================================================================
