----------------------------- MODULE Migrations -----------------------------
(***************************************************************************)
(* How a hub starts: it brings the schema of its database up to date, one  *)
(* SQL statement at a time, and then binds its address.                    *)
(*                                                                         *)
(* run_migration looks whether a version is recorded, executes the         *)
(* statements of its script one by one and records the version.  There is  *)
(* no transaction around this, so a process that ends in between leaves a  *)
(* part of a script applied.  init_db runs before the address is bound,    *)
(* and so a hub that is started a second time by mistake migrates the same *)
(* database beside the first and only then finds that it cannot serve.     *)
(*                                                                         *)
(* An object of the schema is a table, a column added to one, or the rows  *)
(* a table is given; <<table, "*">> is the table itself.  The columns that *)
(* a table is created with are left out.                                   *)
(*                                                                         *)
(* A definition ending in Bug is a mistake the code could have had.        *)
(***************************************************************************)
EXTENDS Integers, Sequences

CONSTANTS
    Hub,      \* processes that may be started on the database
    Scripts   \* the statements of each version, the first version first

Table(t) == <<t, "*">>

CreateTable(t) ==                 \* CREATE TABLE IF NOT EXISTS t
    [kind |-> "create", object |-> Table(t), table |-> Table(t)]
AddColumn(t, c) ==                \* ALTER TABLE t ADD COLUMN c
    [kind |-> "alter", object |-> <<t, c>>, table |-> Table(t)]
InsertOrIgnore(t) ==              \* INSERT OR IGNORE INTO t
    [kind |-> "insert", object |-> <<t, "rows">>, table |-> Table(t)]

MIGRATION_1 == <<CreateTable("agents"), CreateTable("messages"),
                 CreateTable("events")>>
MIGRATION_2 == <<AddColumn("agents", "status"),
                 AddColumn("agents", "current_task"),
                 AddColumn("agents", "branch"),
                 CreateTable("threads"), CreateTable("tasks"),
                 CreateTable("file_claims"), CreateTable("findings")>>
MIGRATION_3 == <<CreateTable("models"), CreateTable("pipelines"),
                 CreateTable("slots"), CreateTable("pipeline_events"),
                 CreateTable("artifacts"), CreateTable("working_context"),
                 CreateTable("capability_scores"), InsertOrIgnore("models")>>
MIGRATION_4 == <<CreateTable("step_metrics"),
                 AddColumn("capability_scores", "last_updated_at")>>
MIGRATION_5 == <<CreateTable("runtime_handles"),
                 CreateTable("scheduler_decisions"),
                 CreateTable("context_compressions"),
                 CreateTable("semantic_memory"), CreateTable("mcp_servers"),
                 CreateTable("mcp_health")>>
AllScripts == <<MIGRATION_1, MIGRATION_2, MIGRATION_3, MIGRATION_4, MIGRATION_5>>

ASSUME ScriptsAssumption ==
    /\ Len(Scripts) \in Nat \ {0}
    /\ DOMAIN Scripts = 1 .. Len(Scripts)
    /\ \A v \in DOMAIN Scripts :
          /\ DOMAIN Scripts[v] = 1 .. Len(Scripts[v])
          /\ Len(Scripts[v]) \in Nat \ {0}

\* No column is added twice.
ASSUME ColumnAssumption ==
    \A v, w \in DOMAIN Scripts : \A i \in DOMAIN Scripts[v], j \in DOMAIN Scripts[w] :
        Scripts[v][i].kind = "alter" /\ Scripts[v][i].object = Scripts[w][j].object
            => v = w /\ i = j

VARIABLES
    schema,      \* the objects in the database
    versions,    \* the rows of schema_migrations
    stage,       \* where each process is: "down", "look" at a version, "run" a
                 \* statement, "record" the version, "bind", "serving"; it has
                 \* exited with an error when it is "failed", and when that is
                 \* because something exists already, "duplicate"
    migration,   \* the version it is at
    statement,   \* the statement it is at
    torn         \* history: versions that a process left between the first
                 \* statement and the row, or that two were at together

startVars == <<schema, versions, stage, migration, statement, torn>>

\* What the script of a version makes.
Objects(v) == {Scripts[v][i].object : i \in DOMAIN Scripts[v]}

\* A new database, or one that an earlier process brought up to date.
StartInit ==
    /\ versions \in {{}, DOMAIN Scripts}
    /\ schema = UNION {Objects(v) : v \in versions}
    /\ stage = [h \in Hub |-> "down"]
    /\ migration = [h \in Hub |-> 1]
    /\ statement = [h \in Hub |-> 1]
    /\ torn = {}
-----------------------------------------------------------------------------
\* Between finding the version missing and recording it.
Within(h, v) == stage[h] \in {"run", "record"} /\ migration[h] = v

\* A process that ends now leaves its version torn.
Tears(h) == IF stage[h] \in {"run", "record"} THEN {migration[h]} ELSE {}

\* init_db: schema_migrations is created first.
StartHub(h) ==
    /\ stage[h] \in {"down", "failed", "duplicate"}
    /\ stage' = [stage EXCEPT ![h] = "look"]
    /\ migration' = [migration EXCEPT ![h] = 1]
    /\ statement' = [statement EXCEPT ![h] = 1]
    /\ UNCHANGED <<schema, versions, torn>>

\* On to the next version, or to main's bind after the last one.
NextVersion(h) ==
    /\ statement' = [statement EXCEPT ![h] = 1]
    /\ IF migration[h] = Len(Scripts)
       THEN /\ stage' = [stage EXCEPT ![h] = "bind"]
            /\ UNCHANGED migration
       ELSE /\ stage' = [stage EXCEPT ![h] = "look"]
            /\ migration' = [migration EXCEPT ![h] = @ + 1]

\* Look, had the version not been looked up.
LookBug(h) ==
    /\ stage[h] = "look"
    /\ stage' = [stage EXCEPT ![h] = "run"]
    /\ statement' = [statement EXCEPT ![h] = 1]
    /\ UNCHANGED <<schema, versions, migration, torn>>

\* Is the version recorded?
Look(h) ==
    /\ stage[h] = "look"
    /\ \/ /\ migration[h] \in versions
          /\ NextVersion(h)
          /\ UNCHANGED torn
       \/ /\ migration[h] \notin versions
          /\ stage' = [stage EXCEPT ![h] = "run"]
          /\ statement' = [statement EXCEPT ![h] = 1]
          /\ torn' = torn \cup
                {v \in {migration[h]} : \E g \in Hub \ {h} : Within(g, v)}
          /\ UNCHANGED migration
    /\ UNCHANGED <<schema, versions>>

\* Exists, had the error of a statement been ignored.
ExistsBug(s) == FALSE

\* What SQLite answers: a column cannot be added twice.
Exists(s) == s.kind = "alter" /\ s.object \in schema

\* Execute, had the last statement been left out.
ExecuteBug(h) ==
    /\ stage[h] = "run"
    /\ LET script == Scripts[migration[h]]
           s      == script[statement[h]]
       IN  \/ /\ Exists(s)
              /\ stage' = [stage EXCEPT ![h] = "duplicate"]
              /\ UNCHANGED <<schema, statement>>
           \/ /\ ~Exists(s)
              /\ schema' = schema \cup {s.object}
              /\ IF statement[h] + 1 >= Len(script)
                 THEN /\ stage' = [stage EXCEPT ![h] = "record"]
                      /\ UNCHANGED statement
                 ELSE /\ statement' = [statement EXCEPT ![h] = @ + 1]
                      /\ UNCHANGED stage
    /\ UNCHANGED <<versions, migration, torn>>

\* One statement of the script.
Execute(h) ==
    /\ stage[h] = "run"
    /\ LET script == Scripts[migration[h]]
           s      == script[statement[h]]
       IN  \/ /\ Exists(s)
              /\ stage' = [stage EXCEPT ![h] = "duplicate"]
              /\ UNCHANGED <<schema, statement>>
           \/ /\ ~Exists(s)
              /\ schema' = schema \cup {s.object}
              /\ IF statement[h] = Len(script)
                 THEN /\ stage' = [stage EXCEPT ![h] = "record"]
                      /\ UNCHANGED statement
                 ELSE /\ statement' = [statement EXCEPT ![h] = @ + 1]
                      /\ UNCHANGED stage
    /\ UNCHANGED <<versions, migration, torn>>

\* The row of the version; its key may be taken by another process.
RecordVersion(h) ==
    /\ stage[h] = "record"
    /\ \/ /\ migration[h] \in versions
          /\ stage' = [stage EXCEPT ![h] = "duplicate"]
          /\ UNCHANGED <<versions, migration, statement>>
       \/ /\ migration[h] \notin versions
          /\ versions' = versions \cup {migration[h]}
          /\ NextVersion(h)
    /\ UNCHANGED <<schema, torn>>

\* main binds the address, which only one process can have.
Bind(h) ==
    /\ stage[h] = "bind"
    /\ stage' = [stage EXCEPT ![h] =
                    IF \E g \in Hub : stage[g] = "serving" THEN "failed" ELSE "serving"]
    /\ UNCHANGED <<schema, versions, migration, statement, torn>>

\* A statement fails, or the process is killed, or ends after control-C.
EndHub(h) ==
    /\ stage[h] \in {"look", "run", "record", "bind", "serving"}
    /\ stage' = [stage EXCEPT ![h] = "failed"]
    /\ torn' = torn \cup Tears(h)
    /\ migration' = [migration EXCEPT ![h] = 1]
    /\ statement' = [statement EXCEPT ![h] = 1]
    /\ UNCHANGED <<schema, versions>>

StartStep(h) == StartHub(h) \/ Look(h) \/ Execute(h) \/ RecordVersion(h) \/ Bind(h)

StartNext == \E h \in Hub : StartStep(h) \/ EndHub(h)

StartSpec == StartInit /\ [][StartNext]_startVars
=============================================================================
