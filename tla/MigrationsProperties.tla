------------------------ MODULE MigrationsProperties ------------------------
(***************************************************************************)
(* What the start of a hub guarantees, whatever ends it.                   *)
(***************************************************************************)
EXTENDS Migrations

\* The type invariant.
StartTypeOK ==
    /\ schema \subseteq UNION {Objects(v) : v \in DOMAIN Scripts}
    /\ versions \subseteq DOMAIN Scripts
    /\ stage \in [Hub -> {"down", "look", "run", "record", "bind", "serving",
                          "failed", "duplicate"}]
    /\ migration \in [Hub -> DOMAIN Scripts]
    /\ statement \in [Hub -> Nat \ {0}]
    /\ \A h \in Hub : stage[h] = "run" =>
          statement[h] \in DOMAIN Scripts[migration[h]]
    /\ torn \subseteq DOMAIN Scripts

\* A process past a statement of its version has its object, and one past a
\* version has the row.
ProgressInv ==
    \A h \in Hub :
        /\ stage[h] = "run" =>
              \A i \in 1 .. statement[h] - 1 : Scripts[migration[h]][i].object \in schema
        /\ stage[h] = "record" => Objects(migration[h]) \subseteq schema
        /\ stage[h] \in {"look", "run", "record"} =>
              1 .. migration[h] - 1 \subseteq versions
        /\ stage[h] \in {"bind", "serving"} => versions = DOMAIN Scripts

\* A recorded version is applied in full.
RecordedIsApplied == \A v \in versions : Objects(v) \subseteq schema

\* (Handlers of the hub rely on every table and column.)  A hub that serves has
\* the whole schema, although starts may have been interrupted anywhere and
\* other processes may have migrated the database meanwhile: run_migration
\* records a version after its statements, and main binds after init_db.
ServesWholeSchema ==
    \A h \in Hub : stage[h] = "serving" =>
        \A v \in DOMAIN Scripts : Objects(v) \subseteq schema

\* What an unrecorded version has of its script, somebody applied.
UnrecordedInv ==
    \A v \in DOMAIN Scripts \ versions : \A i \in DOMAIN Scripts[v] :
        Scripts[v][i].kind = "alter" /\ Scripts[v][i].object \in schema =>
            \/ v \in torn
            \/ \E h \in Hub : \/ stage[h] = "record" /\ migration[h] = v
                              \/ /\ stage[h] = "run" /\ migration[h] = v
                                 /\ statement[h] > i

\* Two processes are at one version only if it is torn.
AloneInv ==
    \A g, h \in Hub : \A v \in DOMAIN Scripts :
        g # h /\ Within(g, v) /\ Within(h, v) => v \in torn

\* A process within a version that is not torn is the only one to record it.
AbsentInv ==
    \A h \in Hub : Within(h, migration[h]) /\ migration[h] \notin torn =>
        migration[h] \notin versions

\* A start finds a column or a version that exists already only if that version
\* was torn: an earlier start ended in the middle of it, or another process was
\* at it together with this one.  A hub that is stopped while it serves, or
\* between versions, always starts again.
CleanStartSucceeds ==
    \A h \in Hub : stage[h] = "duplicate" => migration[h] \in torn

StartIInv ==
    /\ StartTypeOK
    /\ ProgressInv
    /\ RecordedIsApplied
    /\ UnrecordedInv
    /\ AloneInv
    /\ AbsentInv
    /\ CleanStartSucceeds

\* A column exists whose version is not recorded, and no process is past it.
Wedged ==
    \E v \in DOMAIN Scripts \ versions : \E i \in DOMAIN Scripts[v] :
        /\ Scripts[v][i].kind = "alter"
        /\ Scripts[v][i].object \in schema
        /\ \A h \in Hub : Within(h, v) => stage[h] = "run" /\ statement[h] <= i

\* ALTER TABLE has no IF NOT EXISTS: once a start ended between a column and the
\* row of its version, every later start fails at that column, no hub ever
\* serves this database again, and nothing in the program repairs it.
WedgedForEver ==
    [][Wedged => Wedged' /\ \A h \in Hub : stage'[h] # "serving"]_startVars
=============================================================================
