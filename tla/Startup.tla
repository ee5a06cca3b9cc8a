------------------------------ MODULE Startup ------------------------------
(***************************************************************************)
(* How the processes of the platform start and end: read and validate the  *)
(* environment, migrate the database, serve, close, crash, start again.    *)
(* A service applies its drizzle migrations itself, so replicas, and       *)
(* services that share a database, do it concurrently.                     *)
(*                                                                         *)
(* The migrator (drizzle-orm, external) reads the newest row of its        *)
(* journal, drizzle.__drizzle_migrations, outside any transaction, and     *)
(* then, in one transaction, runs every migration of its own folder that   *)
(* is newer than that row and adds a row for each.  The journal belongs to *)
(* the database, not to the service.                                       *)
(*                                                                         *)
(* An operator marked "Mutant" is no part of the model: it is a mistake    *)
(* the code could contain, and a property must tell it from the operator   *)
(* that follows it.                                                        *)
(***************************************************************************)
EXTENDS Integers, FiniteSets

CONSTANTS
    Instance,      \* processes
    Service,       \* process -> the service it runs
    Env,           \* process -> its environment variables
    Database,
    DatabaseOf,    \* process -> the database its DATABASE_URL names
    Migration,
    Folder,        \* service -> the migrations in its folder
    When,          \* migration -> its timestamp in the folder's journal
    Idempotent     \* migrations that may run on a database that has them

ServiceName == {"api-gateway", "order-service", "payment-service"}

\* What a variable holds: nothing, white space, text that does not parse as
\* what it should be, or text that does.
Value == {"absent", "blank", "malformed", "valid"}

Variable == {"SERVICE_NAME", "DATABASE_URL", "KAFKA_BOOTSTRAP_SERVERS",
             "OTEL_EXPORTER_OTLP_ENDPOINT", "LOG_LEVEL",
             "ORDER_SERVICE_BASE_URL", "ORDER_SERVICE_TIMEOUT_MS"}

\* PORT is the number it parses to; 0 also stands for what is no integer.
Environment == [text : [Variable -> Value], port : Int]

ASSUME StartupAssumption ==
    /\ Service \in [Instance -> ServiceName]
    /\ \A i \in Instance : /\ Env[i].text \in [Variable -> Value]
                           /\ Env[i].port \in Int
    /\ DatabaseOf \in [Instance -> Database]
    /\ Folder \in [ServiceName -> SUBSET Migration]
    /\ When \in [Migration -> Int]
    /\ Idempotent \subseteq Migration

VARIABLES
    phase,     \* process -> how far it has come
    seen,      \* process -> the journal as its running migrator has read it
    journal,   \* database -> migrations recorded in drizzle's table
    schema,    \* database -> migrations whose tables it has
    calm       \* no more crashes, shutdowns and failures

boot == <<phase, seen, journal, schema>>

----------------------------------------------------------------------------
(* Configuration: which values the readers accept. *)

readRequiredString(v) == v \notin {"absent", "blank"}

readPort(port) == port \in 1..65535

\* Of a list, a URL or a log level: the trimmed text must be one.
readWellFormed(v) == v = "valid"

readOptionalPositiveInt(v) == v # "malformed"

loadEdgeServiceConfig(env) ==
    /\ readRequiredString(env.text["SERVICE_NAME"])
    /\ readPort(env.port)
    /\ readWellFormed(env.text["KAFKA_BOOTSTRAP_SERVERS"])
    /\ readWellFormed(env.text["OTEL_EXPORTER_OTLP_ENDPOINT"])
    /\ readWellFormed(env.text["LOG_LEVEL"])

loadServiceConfig(env) ==
    /\ loadEdgeServiceConfig(env)
    /\ readWellFormed(env.text["DATABASE_URL"])

loadGatewayConfig(env) ==
    /\ loadEdgeServiceConfig(env)
    /\ readWellFormed(env.text["ORDER_SERVICE_BASE_URL"])
    /\ readOptionalPositiveInt(env.text["ORDER_SERVICE_TIMEOUT_MS"])

Stateless(i) == Service[i] = "api-gateway"

----------------------------------------------------------------------------
(* Starting. *)

Goto(i, p) ==
    /\ phase' = [phase EXCEPT ![i] = p]
    /\ seen'  = [seen EXCEPT ![i] = {}]

\* An invalid environment throws at the top level of the process, which ends.
startApiGateway(i) ==
    /\ phase[i] = "down"
    /\ Stateless(i)
    /\ loadGatewayConfig(Env[i])
    /\ Goto(i, "serving")
    /\ UNCHANGED <<journal, schema, calm>>

\* Mutant: the journal's rows are written ahead of the migrations.
RecordsBeforeMigrating(i) ==
    /\ phase[i] = "down"
    /\ ~Stateless(i)
    /\ loadServiceConfig(Env[i])
    /\ phase' = [phase EXCEPT ![i] = "migrating"]
    /\ seen'  = [seen EXCEPT ![i] = journal[DatabaseOf[i]]]
    /\ journal' = [journal EXCEPT ![DatabaseOf[i]] = @ \cup Folder[Service[i]]]
    /\ UNCHANGED <<schema, calm>>

\* Load the configuration, make a pool, and begin runMigrations: create the
\* journal's table if it is missing, and read it.
createService(i) ==
    /\ phase[i] = "down"
    /\ ~Stateless(i)
    /\ loadServiceConfig(Env[i])
    /\ phase' = [phase EXCEPT ![i] = "migrating"]
    /\ seen'  = [seen EXCEPT ![i] = journal[DatabaseOf[i]]]
    /\ UNCHANGED <<journal, schema, calm>>

\* Newer than the newest row, whichever service added it.
Newer(i, known) ==
    {m \in Folder[Service[i]] : \A n \in known : When[n] < When[m]}

PendingMigrations(i) == Newer(i, seen[i])

Conflict(i) == PendingMigrations(i) \cap schema[DatabaseOf[i]]

\* Mutant: no row is added for what was run.
RunWithoutRecording(i) ==
    /\ phase[i] = "migrating"
    /\ Conflict(i) \subseteq Idempotent
    /\ schema' = [schema EXCEPT ![DatabaseOf[i]] = @ \cup PendingMigrations(i)]
    /\ Goto(i, "serving")
    /\ UNCHANGED <<journal, calm>>

\* One transaction; then the service listens (payment-service connects to
\* Kafka first).
RunMigrations(i) ==
    /\ phase[i] = "migrating"
    /\ Conflict(i) \subseteq Idempotent
    /\ schema'  = [schema  EXCEPT ![DatabaseOf[i]] = @ \cup PendingMigrations(i)]
    /\ journal' = [journal EXCEPT ![DatabaseOf[i]] = @ \cup PendingMigrations(i)]
    /\ Goto(i, "serving")
    /\ UNCHANGED calm

\* Another replica came first: CREATE TABLE raises, also now and then under
\* IF NOT EXISTS, the transaction is rolled back, and the process ends.
MigrationRaises(i) ==
    /\ phase[i] = "migrating"
    /\ Conflict(i) # {}
    /\ Goto(i, "down")
    /\ UNCHANGED <<journal, schema, calm>>

\* The migrator of a replica that is not in Instance commits.  What it read
\* before does not matter: a stale one raises, or finds nothing to change.
MigratedElsewhere(i) ==
    LET pending == Newer(i, journal[DatabaseOf[i]])
    IN  /\ ~calm
        /\ ~Stateless(i)
        /\ pending \cap schema[DatabaseOf[i]] \subseteq Idempotent
        /\ schema'  = [schema  EXCEPT ![DatabaseOf[i]] = @ \cup pending]
        /\ journal' = [journal EXCEPT ![DatabaseOf[i]] = @ \cup pending]
        /\ UNCHANGED <<phase, seen, calm>>

----------------------------------------------------------------------------
(* Ending.  A process that has ended is started again. *)

\* SIGTERM: the service stops accepting.
Close(i) ==
    /\ ~calm
    /\ phase[i] = "serving"
    /\ Goto(i, "closing")
    /\ UNCHANGED <<journal, schema, calm>>

\* What was accepted has been answered, the pool is ended, the process exits.
Closed(i) ==
    /\ phase[i] = "closing"
    /\ Goto(i, "down")
    /\ UNCHANGED <<journal, schema, calm>>

\* The process dies, or its database cannot be reached while it starts.
Crash(i) ==
    /\ ~calm
    /\ phase[i] # "down"
    /\ Goto(i, "down")
    /\ UNCHANGED <<journal, schema, calm>>

Stabilise ==
    /\ ~calm
    /\ calm' = TRUE
    /\ UNCHANGED boot

----------------------------------------------------------------------------
BootInit ==
    /\ phase   = [i \in Instance |-> "down"]
    /\ seen    = [i \in Instance |-> {}]
    /\ journal = [d \in Database |-> {}]
    /\ schema  = [d \in Database |-> {}]
    /\ calm    = FALSE

Boot(i) ==
    \/ startApiGateway(i)
    \/ createService(i)
    \/ RunMigrations(i)
    \/ MigrationRaises(i)

BootNext ==
    \/ \E i \in Instance : \/ Boot(i)
                           \/ MigratedElsewhere(i)
                           \/ Close(i)
                           \/ Closed(i)
                           \/ Crash(i)
    \/ Stabilise

BootSpec == BootInit /\ [][BootNext]_<<boot, calm>>

----------------------------------------------------------------------------
(* Properties. *)

Phase == {"down", "migrating", "serving", "closing"}

BootTypeOK ==
    /\ phase   \in [Instance -> Phase]
    /\ seen    \in [Instance -> SUBSET Migration]
    /\ journal \in [Database -> SUBSET Migration]
    /\ schema  \in [Database -> SUBSET Migration]
    /\ calm    \in BOOLEAN

Migrated(i) == Folder[Service[i]] \subseteq schema[DatabaseOf[i]]

\* Service building guide, line 38: "Call the migrator during server bootstrap
\* before accepting traffic."  A process that serves has its tables, whatever
\* other replicas and services did to the journal, and whoever crashed when.
ServingMeansMigrated ==
    \A i \in Instance :
        phase[i] \in {"serving", "closing"} /\ ~Stateless(i) => Migrated(i)
============================================================================
