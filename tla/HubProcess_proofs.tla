-------------------------- MODULE HubProcess_proofs --------------------------
(***************************************************************************)
(* The hub as a process: the invariant of the start of hubs, for any number *)
(* of processes and any scripts that add no column twice, and what follows *)
(* from it; and the bound on what one process admits, for every length of  *)
(* the window and every limit.                                             *)
(***************************************************************************)
EXTENDS MigrationsProperties, RateLimit, TLAPS

\* The versions are numbered from 1, and none is empty.
LEMMA VersionRange ==
  /\ 1 \in DOMAIN Scripts
  /\ \A v \in DOMAIN Scripts :
        /\ v \in Nat \ {0} /\ v <= Len(Scripts)
        /\ 1 \in DOMAIN Scripts[v]
        /\ DOMAIN Scripts[v] = 1 .. Len(Scripts[v])
        /\ Len(Scripts[v]) \in Nat \ {0}
        /\ v # Len(Scripts) => v + 1 \in DOMAIN Scripts
  BY ScriptsAssumption

\* The start begins in the invariant.
LEMMA StartInitial == StartInit => StartIInv
<1> SUFFICES ASSUME StartInit
             PROVE  StartIInv
  OBVIOUS
<1> USE DEF StartInit
<1>1. StartTypeOK
  BY VersionRange DEF StartTypeOK
<1>2. RecordedIsApplied
  BY DEF RecordedIsApplied
<1>3. UnrecordedInv
  BY DEF UnrecordedInv
<1>4. ProgressInv /\ AloneInv /\ AbsentInv /\ CleanStartSucceeds
  BY DEF ProgressInv, AloneInv, AbsentInv, CleanStartSucceeds, Within
<1> QED BY <1>1, <1>2, <1>3, <1>4 DEF StartIInv
-----------------------------------------------------------------------------
\* A step of a process that is not within a version, before or after.
LEMMA OutsideStep ==
  ASSUME StartIInv, NEW h \in Hub,
         StartTypeOK',
         stage[h] \notin {"run", "record"},
         stage'[h] \notin {"run", "record", "duplicate"},
         stage'[h] = "look" => 1 .. migration'[h] - 1 \subseteq versions,
         stage'[h] \in {"bind", "serving"} => versions = DOMAIN Scripts,
         \A g \in Hub \ {h} : /\ stage'[g] = stage[g]
                              /\ migration'[g] = migration[g]
                              /\ statement'[g] = statement[g],
         UNCHANGED <<schema, versions, torn>>
  PROVE  StartIInv'
<1> USE DEF StartIInv
<1>1. ProgressInv'
  BY DEF ProgressInv
<1>2. RecordedIsApplied'
  BY DEF RecordedIsApplied
<1>3. UnrecordedInv'
  BY DEF UnrecordedInv
<1>4. AloneInv'
  BY DEF AloneInv, Within
<1>5. AbsentInv'
  BY DEF AbsentInv, Within
<1>6. CleanStartSucceeds'
  BY DEF CleanStartSucceeds
<1> QED BY <1>1, <1>2, <1>3, <1>4, <1>5, <1>6

\* After a version comes the next one, or the bind when all are recorded.
LEMMA NextVersionLeads ==
  ASSUME StartTypeOK, NEW h \in Hub, NextVersion(h),
         1 .. migration[h] \subseteq versions', versions' \subseteq DOMAIN Scripts
  PROVE  /\ stage' \in [Hub -> {"down", "look", "run", "record", "bind", "serving",
                                "failed", "duplicate"}]
         /\ migration' \in [Hub -> DOMAIN Scripts]
         /\ statement' \in [Hub -> Nat \ {0}]
         /\ stage'[h] \in {"look", "bind"}
         /\ stage'[h] = "look" => 1 .. migration'[h] - 1 \subseteq versions'
         /\ stage'[h] = "bind" => versions' = DOMAIN Scripts
         /\ \A g \in Hub \ {h} : /\ stage'[g] = stage[g]
                                 /\ migration'[g] = migration[g]
                                 /\ statement'[g] = statement[g]
<1>1. migration[h] \in DOMAIN Scripts
  BY DEF StartTypeOK
<1>2. CASE migration[h] = Len(Scripts)
  <2>1. versions' = DOMAIN Scripts
    BY <1>2, ScriptsAssumption
  <2>2. /\ stage' = [stage EXCEPT ![h] = "bind"]
        /\ statement' = [statement EXCEPT ![h] = 1]
        /\ migration' = migration
    BY <1>2 DEF NextVersion
  <2> QED BY <2>1, <2>2 DEF StartTypeOK
<1>3. CASE migration[h] # Len(Scripts)
  <2>1. migration[h] + 1 \in DOMAIN Scripts /\ migration[h] \in Nat
    BY <1>1, <1>3, VersionRange
  <2> QED BY <1>1, <1>3, <2>1 DEF NextVersion, StartTypeOK
<1> QED BY <1>2, <1>3

\* A process that opens the database is at its first version.
LEMMA StartHubStep ==
  ASSUME StartIInv, NEW h \in Hub, StartHub(h)
  PROVE  StartIInv'
<1> USE DEF StartIInv
<1>1. StartTypeOK'
  BY VersionRange DEF StartHub, StartTypeOK
<1>2. /\ stage[h] \notin {"run", "record"}
      /\ stage'[h] = "look" /\ migration'[h] = 1
      /\ \A g \in Hub \ {h} : /\ stage'[g] = stage[g]
                              /\ migration'[g] = migration[g]
                              /\ statement'[g] = statement[g]
      /\ UNCHANGED <<schema, versions, torn>>
  BY DEF StartHub, StartTypeOK
<1> QED BY <1>1, <1>2, OutsideStep

\* One that has passed every version binds its address, or fails to.
LEMMA BindStep ==
  ASSUME StartIInv, NEW h \in Hub, Bind(h)
  PROVE  StartIInv'
<1> USE DEF StartIInv
<1>1. StartTypeOK'
  BY DEF Bind, StartTypeOK
<1>2. /\ stage[h] = "bind" /\ stage'[h] \in {"failed", "serving"}
      /\ \A g \in Hub \ {h} : stage'[g] = stage[g]
      /\ UNCHANGED <<schema, versions, migration, statement, torn>>
  BY DEF Bind, StartTypeOK
<1>3. versions = DOMAIN Scripts
  BY <1>2 DEF ProgressInv
<1> QED BY <1>1, <1>2, <1>3, OutsideStep

\* Two processes that look before either records are both within the version.
LEMMA LookStep ==
  ASSUME StartIInv, NEW h \in Hub, Look(h)
  PROVE  StartIInv'
<1> USE DEF StartIInv
<1>0. migration[h] \in DOMAIN Scripts /\ stage[h] = "look"
  BY DEF Look, StartTypeOK
<1>1. CASE migration[h] \in versions
  <2>1. NextVersion(h) /\ UNCHANGED <<schema, versions, torn>>
    BY <1>1 DEF Look
  <2>2. 1 .. migration[h] - 1 \subseteq versions
    BY <1>0 DEF ProgressInv
  <2>3. 1 .. migration[h] \subseteq versions'
    BY <1>0, <1>1, <2>1, <2>2, VersionRange
  <2>4. versions' \subseteq DOMAIN Scripts
    BY <2>1 DEF StartTypeOK
  <2>5. StartTypeOK'
    BY <2>1, <2>3, <2>4, NextVersionLeads DEF StartTypeOK
  <2> QED BY <1>0, <2>1, <2>3, <2>4, <2>5, NextVersionLeads, OutsideStep
<1>2. CASE migration[h] \notin versions
  <2>1. /\ stage'[h] = "run" /\ statement'[h] = 1
        /\ \A g \in Hub \ {h} : stage'[g] = stage[g] /\ statement'[g] = statement[g]
        /\ torn' = torn \cup {v \in {migration[h]} : \E g \in Hub \ {h} : Within(g, v)}
        /\ UNCHANGED <<schema, versions, migration>>
    BY <1>0, <1>2 DEF Look, StartTypeOK
  <2>2. StartTypeOK'
    BY <1>0, <1>2, VersionRange DEF Look, StartTypeOK
  <2>3. ProgressInv'
    BY <1>0, <2>1 DEF ProgressInv
  <2>4. RecordedIsApplied'
    BY <2>1 DEF RecordedIsApplied
  <2>5. UnrecordedInv'
    BY <1>0, <2>1 DEF UnrecordedInv
  <2>6. AloneInv'
    BY <1>0, <2>1 DEF AloneInv, Within
  <2>7. AbsentInv'
    BY <1>0, <1>2, <2>1 DEF AbsentInv, Within
  <2>8. CleanStartSucceeds'
    BY <1>0, <2>1 DEF CleanStartSucceeds
  <2> QED BY <2>2, <2>3, <2>4, <2>5, <2>6, <2>7, <2>8
<1> QED BY <1>1, <1>2

\* A statement that adds what was not there.
LEMMA ExecuteStep ==
  ASSUME StartIInv, NEW h \in Hub, Execute(h),
         ~Exists(Scripts[migration[h]][statement[h]])
  PROVE  StartIInv'
<1> USE DEF StartIInv
<1> DEFINE v == migration[h]
           i == statement[h]
<1>0. /\ stage[h] = "run" /\ v \in DOMAIN Scripts /\ i \in DOMAIN Scripts[v]
      /\ i \in 1 .. Len(Scripts[v]) /\ Len(Scripts[v]) \in Nat
  BY VersionRange DEF Execute, StartTypeOK
<1>1. /\ schema' = schema \cup {Scripts[v][i].object}
      /\ \/ /\ stage'[h] = "record" /\ i = Len(Scripts[v])
            /\ statement'[h] = i
         \/ /\ stage'[h] = "run" /\ i # Len(Scripts[v])
            /\ statement'[h] = i + 1
      /\ \A g \in Hub \ {h} : stage'[g] = stage[g] /\ statement'[g] = statement[g]
      /\ UNCHANGED <<versions, migration, torn>>
  BY <1>0 DEF Execute, StartTypeOK
<1>2. StartTypeOK'
  <2>1. schema' \subseteq UNION {Objects(w) : w \in DOMAIN Scripts}
    BY <1>0, <1>1 DEF StartTypeOK, Objects
  <2>2. /\ stage' \in [Hub -> {"down", "look", "run", "record", "bind", "serving",
                               "failed", "duplicate"}]
        /\ statement' \in [Hub -> Nat \ {0}]
    BY <1>0 DEF Execute, StartTypeOK
  <2>3. stage'[h] = "run" => statement'[h] \in DOMAIN Scripts[v]
    BY <1>0, <1>1, VersionRange
  <2> QED BY <1>1, <2>1, <2>2, <2>3 DEF StartTypeOK
<1>3. ProgressInv'
  <2>1. \A j \in 1 .. i : Scripts[v][j].object \in schema'
    BY <1>0, <1>1 DEF ProgressInv
  <2>2. stage'[h] = "record" => Objects(v) \subseteq schema'
    BY <1>0, <1>1, <2>1, VersionRange DEF Objects
  <2>3. stage'[h] = "run" =>
            \A j \in 1 .. statement'[h] - 1 : Scripts[v][j].object \in schema'
    BY <1>0, <1>1, <2>1
  <2> QED BY <1>0, <1>1, <2>2, <2>3 DEF ProgressInv
<1>4. RecordedIsApplied'
  BY <1>1 DEF RecordedIsApplied
<1>5. UnrecordedInv'
  <2> SUFFICES ASSUME NEW w \in DOMAIN Scripts \ versions, NEW j \in DOMAIN Scripts[w],
                      Scripts[w][j].kind = "alter", Scripts[w][j].object \in schema'
               PROVE  \/ w \in torn
                      \/ \E g \in Hub : \/ stage'[g] = "record" /\ migration[g] = w
                                        \/ /\ stage'[g] = "run" /\ migration[g] = w
                                           /\ statement'[g] > j
    BY <1>1 DEF UnrecordedInv
  <2>1. CASE Scripts[w][j].object = Scripts[v][i].object
    <3>1. w = v /\ j = i
      BY <1>0, <2>1, ColumnAssumption
    <3> QED BY <1>0, <1>1, <3>1
  <2>2. CASE Scripts[w][j].object \in schema
    <3>1. j \in Nat
      BY VersionRange
    <3>2. \/ w \in torn
          \/ \E g \in Hub : \/ stage[g] = "record" /\ migration[g] = w
                            \/ /\ stage[g] = "run" /\ migration[g] = w
                               /\ statement[g] > j
      BY <2>2 DEF UnrecordedInv
    <3> QED BY <1>0, <1>1, <3>1, <3>2
  <2> QED BY <1>1, <2>1, <2>2
<1>6. AloneInv' /\ AbsentInv'
  BY <1>0, <1>1 DEF AloneInv, AbsentInv, Within
<1>7. CleanStartSucceeds'
  BY <1>0, <1>1 DEF CleanStartSucceeds
<1> QED BY <1>2, <1>3, <1>4, <1>5, <1>6, <1>7

\* A process that leaves a torn version loses nothing that the invariant counts on.
LEMMA LeaveTorn ==
  ASSUME StartIInv, NEW h \in Hub,
         StartTypeOK',
         stage'[h] \in {"failed", "duplicate"},
         stage'[h] = "duplicate" => migration'[h] \in torn',
         Within(h, migration[h]) => migration[h] \in torn' \/ migration[h] \in versions,
         torn \subseteq torn',
         \A g \in Hub \ {h} : /\ stage'[g] = stage[g]
                              /\ migration'[g] = migration[g]
                              /\ statement'[g] = statement[g],
         UNCHANGED <<schema, versions>>
  PROVE  StartIInv'
<1> USE DEF StartIInv
<1>1. ProgressInv'
  BY DEF ProgressInv
<1>2. RecordedIsApplied'
  BY DEF RecordedIsApplied
<1>3. UnrecordedInv'
  <2> SUFFICES ASSUME NEW w \in DOMAIN Scripts \ versions, NEW j \in DOMAIN Scripts[w],
                      Scripts[w][j].kind = "alter", Scripts[w][j].object \in schema
               PROVE  \/ w \in torn'
                      \/ \E g \in Hub : \/ stage'[g] = "record" /\ migration'[g] = w
                                        \/ /\ stage'[g] = "run" /\ migration'[g] = w
                                           /\ statement'[g] > j
    BY DEF UnrecordedInv
  <2>1. \/ w \in torn
        \/ \E g \in Hub : \/ stage[g] = "record" /\ migration[g] = w
                          \/ /\ stage[g] = "run" /\ migration[g] = w
                             /\ statement[g] > j
    BY DEF UnrecordedInv
  <2> QED BY <2>1 DEF Within
<1>4. AloneInv' /\ AbsentInv'
  BY DEF AloneInv, AbsentInv, Within
<1>5. CleanStartSucceeds'
  BY DEF CleanStartSucceeds
<1> QED BY <1>1, <1>2, <1>3, <1>4, <1>5

\* A column that exists in a version that is not torn was added by this process,
\* at an earlier statement.
LEMMA DuplicateColumnStep ==
  ASSUME StartIInv, NEW h \in Hub, Execute(h),
         Exists(Scripts[migration[h]][statement[h]])
  PROVE  StartIInv'
<1> USE DEF StartIInv
<1> DEFINE v == migration[h]
           i == statement[h]
<1>0. /\ stage[h] = "run" /\ v \in DOMAIN Scripts /\ i \in DOMAIN Scripts[v]
      /\ i \in Nat
  BY VersionRange DEF Execute, StartTypeOK
<1>1. /\ stage'[h] = "duplicate"
      /\ \A g \in Hub \ {h} : stage'[g] = stage[g]
      /\ UNCHANGED <<schema, versions, migration, statement, torn>>
  BY <1>0 DEF Execute, StartTypeOK
<1>2. StartTypeOK'
  BY <1>1 DEF Execute, StartTypeOK
<1>3. v \in torn
  <2> SUFFICES ASSUME v \notin torn
               PROVE  FALSE
    OBVIOUS
  <2>1. v \notin versions
    BY <1>0 DEF AbsentInv, Within
  <2>2. Scripts[v][i].kind = "alter" /\ Scripts[v][i].object \in schema
    BY DEF Exists
  <2>3. PICK g \in Hub : \/ stage[g] = "record" /\ migration[g] = v
                         \/ /\ stage[g] = "run" /\ migration[g] = v
                            /\ statement[g] > i
    BY <1>0, <2>1, <2>2 DEF UnrecordedInv
  <2>4. g # h
    BY <1>0, <2>3
  <2> QED BY <1>0, <2>3, <2>4 DEF AloneInv, Within
<1> QED BY <1>1, <1>2, <1>3, LeaveTorn

\* A process that ends leaves what it has executed.
LEMMA EndHubStep ==
  ASSUME StartIInv, NEW h \in Hub, EndHub(h)
  PROVE  StartIInv'
<1> USE DEF StartIInv
<1>1. /\ stage'[h] = "failed"
      /\ \A g \in Hub \ {h} : /\ stage'[g] = stage[g]
                              /\ migration'[g] = migration[g]
                              /\ statement'[g] = statement[g]
      /\ torn' = torn \cup Tears(h)
      /\ UNCHANGED <<schema, versions>>
  BY DEF EndHub, StartTypeOK
<1>2. Tears(h) \subseteq DOMAIN Scripts
  BY DEF Tears, StartTypeOK
<1>3. StartTypeOK'
  BY <1>2, VersionRange DEF EndHub, StartTypeOK
<1>4. Within(h, migration[h]) => migration[h] \in torn'
  BY <1>1 DEF Within, Tears
<1> QED BY <1>1, <1>3, <1>4, LeaveTorn

\* A version whose row exists already is torn; otherwise all of it is applied.
LEMMA RecordVersionStep ==
  ASSUME StartIInv, NEW h \in Hub, RecordVersion(h)
  PROVE  StartIInv'
<1> USE DEF StartIInv
<1> DEFINE v == migration[h]
<1>0. /\ stage[h] = "record" /\ v \in DOMAIN Scripts
      /\ Objects(v) \subseteq schema /\ 1 .. v - 1 \subseteq versions
      /\ UNCHANGED <<schema, torn>>
  BY DEF RecordVersion, StartTypeOK, ProgressInv
<1>1. CASE v \in versions
  <2>1. /\ stage'[h] = "duplicate"
        /\ \A g \in Hub \ {h} : stage'[g] = stage[g]
        /\ UNCHANGED <<versions, migration, statement>>
    BY <1>0, <1>1 DEF RecordVersion, StartTypeOK
  <2>2. StartTypeOK'
    BY <1>0, <1>1, <2>1 DEF RecordVersion, StartTypeOK
  <2>3. v \in torn
    BY <1>0, <1>1 DEF AbsentInv, Within
  <2> QED BY <1>0, <1>1, <2>1, <2>2, <2>3, LeaveTorn
<1>2. CASE v \notin versions
  <2>1. versions' = versions \cup {v} /\ NextVersion(h)
    BY <1>2 DEF RecordVersion
  <2>2. /\ 1 .. v \subseteq versions'
        /\ versions' \subseteq DOMAIN Scripts
    BY <1>0, <2>1, VersionRange DEF StartTypeOK
  <2>3. /\ stage'[h] \in {"look", "bind"}
        /\ stage'[h] = "look" => 1 .. migration'[h] - 1 \subseteq versions'
        /\ stage'[h] = "bind" => versions' = DOMAIN Scripts
        /\ \A g \in Hub \ {h} : /\ stage'[g] = stage[g]
                                /\ migration'[g] = migration[g]
                                /\ statement'[g] = statement[g]
    BY <2>1, <2>2, NextVersionLeads
  <2>4. StartTypeOK'
    BY <1>0, <2>1, <2>2, NextVersionLeads DEF StartTypeOK
  <2>5. ProgressInv'
    BY <1>0, <2>1, <2>2, <2>3 DEF ProgressInv
  <2>6. RecordedIsApplied'
    BY <1>0, <2>1 DEF RecordedIsApplied
  <2>7. UnrecordedInv'
    <3> SUFFICES ASSUME NEW w \in DOMAIN Scripts \ versions', NEW j \in DOMAIN Scripts[w],
                        Scripts[w][j].kind = "alter", Scripts[w][j].object \in schema
                 PROVE  \/ w \in torn
                        \/ \E g \in Hub : \/ stage'[g] = "record" /\ migration'[g] = w
                                          \/ /\ stage'[g] = "run" /\ migration'[g] = w
                                             /\ statement'[g] > j
      BY <1>0 DEF UnrecordedInv
    <3>1. w \notin versions /\ w # v
      BY <2>1
    <3>2. \/ w \in torn
          \/ \E g \in Hub : \/ stage[g] = "record" /\ migration[g] = w
                            \/ /\ stage[g] = "run" /\ migration[g] = w
                               /\ statement[g] > j
      BY <3>1 DEF UnrecordedInv
    <3> QED BY <1>0, <2>3, <3>1, <3>2
  <2>8. AloneInv'
    BY <1>0, <2>3 DEF AloneInv, Within
  <2>9. AbsentInv'
    BY <1>0, <2>1, <2>3 DEF AbsentInv, AloneInv, Within
  <2>10. CleanStartSucceeds'
    BY <1>0, <2>3 DEF CleanStartSucceeds
  <2> QED BY <2>4, <2>5, <2>6, <2>7, <2>8, <2>9, <2>10
<1> QED BY <1>1, <1>2
-----------------------------------------------------------------------------
\* Every step of the starts preserves their invariant.
LEMMA StartNextPreserves == StartIInv /\ [StartNext]_startVars => StartIInv'
<1> SUFFICES ASSUME StartIInv, [StartNext]_startVars
             PROVE  StartIInv'
  OBVIOUS
<1>1. ASSUME NEW h \in Hub, StartStep(h) \/ EndHub(h)
      PROVE  StartIInv'
  BY <1>1, StartHubStep, LookStep, ExecuteStep, DuplicateColumnStep, RecordVersionStep,
     BindStep, EndHubStep DEF StartStep
<1>2. CASE UNCHANGED startVars
  <2> USE <1>2 DEF startVars, StartIInv
  <2>1. StartTypeOK' /\ ProgressInv' /\ RecordedIsApplied' /\ CleanStartSucceeds'
    BY DEF StartTypeOK, ProgressInv, RecordedIsApplied, CleanStartSucceeds
  <2>2. UnrecordedInv' /\ AloneInv' /\ AbsentInv'
    BY DEF UnrecordedInv, AloneInv, AbsentInv, Within
  <2> QED BY <2>1, <2>2
<1> QED BY <1>1, <1>2 DEF StartNext

\* The inductive invariant; its last part is that a start finds something existing
\* only in a version that was torn.
THEOREM StartInductive == StartSpec => []StartIInv
  BY StartInitial, StartNextPreserves, PTL DEF StartSpec

\* A hub that serves has the whole schema, wherever starts were interrupted.
THEOREM ServingHasSchema == StartSpec => []ServesWholeSchema
<1>1. StartIInv => ServesWholeSchema
  BY DEF StartIInv, ServesWholeSchema, ProgressInv, RecordedIsApplied
<1> QED BY <1>1, StartInductive, PTL
-----------------------------------------------------------------------------
\* A torn column stays, its version is never recorded, and so no process gets past
\* it to serve.
LEMMA StaysWedged ==
  ASSUME StartIInv, [StartNext]_startVars, Wedged
  PROVE  Wedged' /\ \A h \in Hub : stage'[h] # "serving"
<1> USE DEF StartIInv
<1>1. PICK v \in DOMAIN Scripts \ versions : \E i \in DOMAIN Scripts[v] :
         /\ Scripts[v][i].kind = "alter"
         /\ Scripts[v][i].object \in schema
         /\ \A h \in Hub : Within(h, v) => stage[h] = "run" /\ statement[h] <= i
  BY DEF Wedged
<1>2. PICK i \in DOMAIN Scripts[v] :
         /\ Scripts[v][i].kind = "alter"
         /\ Scripts[v][i].object \in schema
         /\ \A h \in Hub : Within(h, v) => stage[h] = "run" /\ statement[h] <= i
  BY <1>1
<1>3. i \in Nat \ {0} /\ i <= Len(Scripts[v]) /\ Len(Scripts[v]) \in Nat
  BY VersionRange
<1>4. \A h \in Hub : stage[h] \notin {"bind", "serving"}
  BY <1>1 DEF ProgressInv
<1> DEFINE Kept == /\ schema \subseteq schema'
                   /\ v \notin versions'
                   /\ \A h \in Hub :
                         Within(h, v)' => stage'[h] = "run" /\ statement'[h] <= i
                   /\ \A h \in Hub : stage'[h] # "serving"
<1>5. ASSUME NEW h \in Hub, StartHub(h) \/ EndHub(h) \/ Bind(h)
      PROVE  Kept
  BY <1>1, <1>2, <1>4, <1>5 DEF StartHub, EndHub, Bind, StartTypeOK, Within
<1>6. ASSUME NEW h \in Hub, Look(h)
      PROVE  Kept
  <2>1. CASE NextVersion(h) /\ UNCHANGED <<schema, versions, torn>>
    BY <1>1, <1>2, <1>4, <1>6, <2>1 DEF Look, NextVersion, StartTypeOK, Within
  <2>2. CASE /\ stage' = [stage EXCEPT ![h] = "run"]
             /\ statement' = [statement EXCEPT ![h] = 1]
             /\ UNCHANGED <<schema, versions, migration>>
    BY <1>1, <1>2, <1>3, <1>4, <2>2 DEF StartTypeOK, Within
  <2> QED BY <1>6, <2>1, <2>2 DEF Look
<1>7. ASSUME NEW h \in Hub, Execute(h)
      PROVE  Kept
  <2>1. CASE migration[h] # v
    BY <1>1, <1>2, <1>4, <1>7, <2>1 DEF Execute, StartTypeOK, Within
  <2>2. CASE migration[h] = v
    <3>1. statement[h] \in Nat /\ statement[h] <= i
      BY <1>2, <1>7, <2>2 DEF Execute, StartTypeOK, Within
    <3>2. CASE statement[h] = i
      BY <1>1, <1>2, <1>4, <1>7, <2>2, <3>2 DEF Execute, Exists, StartTypeOK, Within
    <3>3. CASE statement[h] # i
      <4>1. statement[h] # Len(Scripts[v]) /\ statement[h] + 1 <= i
        BY <1>3, <3>1, <3>3
      <4> QED BY <1>1, <1>2, <1>4, <1>7, <2>2, <4>1 DEF Execute, StartTypeOK, Within
    <3> QED BY <3>2, <3>3
  <2> QED BY <2>1, <2>2
<1>8. ASSUME NEW h \in Hub, RecordVersion(h)
      PROVE  Kept
  <2>1. migration[h] # v /\ stage[h] = "record"
    BY <1>2, <1>8 DEF RecordVersion, Within
  <2>2. CASE migration[h] \in versions
    BY <1>1, <1>2, <1>4, <1>8, <2>1, <2>2 DEF RecordVersion, StartTypeOK, Within
  <2>3. CASE versions' = versions \cup {migration[h]} /\ NextVersion(h)
    BY <1>1, <1>2, <1>4, <1>8, <2>1, <2>3
       DEF RecordVersion, NextVersion, StartTypeOK, Within
  <2> QED BY <1>8, <2>2, <2>3 DEF RecordVersion
<1>9. ASSUME UNCHANGED startVars
      PROVE  Kept
  <2>1. UNCHANGED <<schema, versions, stage, migration, statement>>
    BY <1>9 DEF startVars
  <2>2. \A h \in Hub : Within(h, v)' <=> Within(h, v)
    BY <2>1 DEF Within
  <2> QED BY <1>1, <1>2, <1>4, <2>1, <2>2
<1>10. Kept
  <2> HIDE DEF Kept
  <2> QED BY <1>5, <1>6, <1>7, <1>8, <1>9
             DEF StartNext, StartStep
<1> QED BY <1>1, <1>2, <1>10 DEF Wedged

\* Once a start ended between a column and the row of its version, no hub ever
\* serves the database again.
THEOREM TornDatabaseIsWedged == StartSpec => WedgedForEver
<1>1. StartIInv /\ [StartNext]_startVars
        => [Wedged => Wedged' /\ \A h \in Hub : stage'[h] # "serving"]_startVars
  BY StaysWedged
<1> QED BY <1>1, StartInductive, PTL DEF StartSpec, WedgedForEver
-----------------------------------------------------------------------------
(* The rate limit. *)

\* Requests admitted in the bucket's window.
Accepted == IF bucket.count <= MAX_REQUESTS THEN bucket.count ELSE MAX_REQUESTS

\* What was admitted before this window was admitted before it started, and what
\* was admitted before the window that came before it, a whole window earlier.
WindowInv ==
    /\ bucket.window_started <= now
    /\ Accepted <= Len(admitted)
    /\ \A i \in 1 .. Len(admitted) : admitted[i] <= now
    /\ \A i \in 1 .. Len(admitted) - Accepted : admitted[i] <= bucket.window_started
    /\ \A i \in 1 .. Len(admitted) - Accepted - MAX_REQUESTS :
          admitted[i] + WINDOW <= bucket.window_started

LimitIInv == LimitTypeOK /\ WindowInv /\ BurstBound

\* The limit begins in its invariant.
LEMMA LimitInitial == LimitInit => LimitIInv
  BY WindowAssumption, MaxRequestsAssumption
     DEF LimitInit, LimitIInv, LimitTypeOK, WindowInv, BurstBound, NoBucket, Accepted

\* A request that is admitted in the window that is open.
LEMMA AdmitInWindow ==
  ASSUME LimitIInv, Admit, now - bucket.window_started < WINDOW
  PROVE  LimitIInv'
<1> USE WindowAssumption, MaxRequestsAssumption
<1>1. /\ bucket' = [bucket EXCEPT !.count = @ + 1]
      /\ bucket.count + 1 <= MAX_REQUESTS
      /\ admitted' = Append(admitted, now)
      /\ now' = now
  BY DEF Admit, Counted, Current, LimitIInv, LimitTypeOK
<1>2. LimitTypeOK'
  BY <1>1 DEF LimitIInv, LimitTypeOK
<1>3. /\ Accepted = bucket.count
      /\ Accepted' = bucket.count + 1
      /\ Len(admitted') = Len(admitted) + 1
      /\ admitted'[Len(admitted) + 1] = now
      /\ \A i \in 1 .. Len(admitted) : admitted'[i] = admitted[i]
  BY <1>1 DEF LimitIInv, LimitTypeOK, Accepted
<1>4. WindowInv'
  <2>1. bucket'.window_started <= now' /\ Accepted' <= Len(admitted')
    BY <1>1, <1>3 DEF LimitIInv, LimitTypeOK, WindowInv
  <2>2. \A i \in 1 .. Len(admitted') : admitted'[i] <= now'
    BY <1>1, <1>3 DEF LimitIInv, LimitTypeOK, WindowInv
  <2>3. /\ Len(admitted') - Accepted' = Len(admitted) - Accepted
        /\ bucket'.window_started = bucket.window_started
    BY <1>1, <1>3 DEF LimitIInv, LimitTypeOK
  <2>4. ASSUME NEW i \in 1 .. Len(admitted') - Accepted'
        PROVE  admitted'[i] <= bucket'.window_started
    <3>1. i \in 1 .. Len(admitted) - Accepted
      BY <2>3, <1>3 DEF LimitIInv, LimitTypeOK
    <3>2. i \in 1 .. Len(admitted)
      BY <1>1, <1>3, <3>1 DEF LimitIInv, LimitTypeOK
    <3> QED BY <1>3, <2>3, <3>1, <3>2 DEF LimitIInv, WindowInv
  <2>5. ASSUME NEW i \in 1 .. Len(admitted') - Accepted' - MAX_REQUESTS
        PROVE  admitted'[i] + WINDOW <= bucket'.window_started
    <3>1. i \in 1 .. Len(admitted) - Accepted - MAX_REQUESTS
      BY <2>3, <1>3 DEF LimitIInv, LimitTypeOK
    <3>2. i \in 1 .. Len(admitted)
      BY <1>1, <1>3, <3>1 DEF LimitIInv, LimitTypeOK
    <3> QED BY <1>3, <2>3, <3>1, <3>2 DEF LimitIInv, WindowInv
  <2> QED BY <2>1, <2>2, <2>4, <2>5 DEF WindowInv
<1>5. BurstBound'
  <2> SUFFICES ASSUME NEW i \in 1 .. Len(admitted') - 2 * MAX_REQUESTS
               PROVE  admitted'[i + 2 * MAX_REQUESTS] - admitted'[i] >= WINDOW
    BY DEF BurstBound
  <2>1. CASE i = Len(admitted) + 1 - 2 * MAX_REQUESTS
    <3>1. i \in 1 .. Len(admitted) - Accepted - MAX_REQUESTS
      BY <1>1, <1>3, <2>1 DEF LimitIInv, LimitTypeOK
    <3>2. /\ now \in Nat /\ bucket.window_started \in Int
          /\ bucket.window_started <= now
          /\ admitted[i] + WINDOW <= bucket.window_started
      BY <3>1 DEF LimitIInv, LimitTypeOK, WindowInv
    <3>3. i + 2 * MAX_REQUESTS = Len(admitted) + 1
      BY <2>1 DEF LimitIInv, LimitTypeOK
    <3>4. admitted'[i + 2 * MAX_REQUESTS] = now
      BY <1>3, <3>3
    <3>5. i \in 1 .. Len(admitted)
      BY <2>1 DEF LimitIInv, LimitTypeOK
    <3>6. admitted[i] \in Nat /\ admitted'[i] = admitted[i]
      BY <1>3, <3>5 DEF LimitIInv, LimitTypeOK
    <3> QED BY <3>2, <3>4, <3>6
  <2>2. CASE i # Len(admitted) + 1 - 2 * MAX_REQUESTS
    <3>1. i \in 1 .. Len(admitted) - 2 * MAX_REQUESTS
      BY <1>3, <2>2 DEF LimitIInv, LimitTypeOK
    <3>2. /\ admitted'[i] = admitted[i]
          /\ admitted'[i + 2 * MAX_REQUESTS] = admitted[i + 2 * MAX_REQUESTS]
      BY <1>3, <3>1 DEF LimitIInv, LimitTypeOK
    <3> QED BY <3>1, <3>2 DEF LimitIInv, BurstBound
  <2> QED BY <2>1, <2>2
<1> QED BY <1>2, <1>4, <1>5 DEF LimitIInv

\* A request that opens a window.
LEMMA AdmitOpens ==
  ASSUME LimitIInv, Admit, now - bucket.window_started >= WINDOW
  PROVE  LimitIInv'
<1> USE WindowAssumption, MaxRequestsAssumption
<1>1. /\ bucket' = [window_started |-> now, count |-> 1]
      /\ admitted' = Append(admitted, now)
      /\ now' = now
  BY DEF Admit, Counted, Current, LimitIInv, LimitTypeOK
<1>2. LimitTypeOK'
  BY <1>1 DEF LimitIInv, LimitTypeOK
<1>3. /\ Accepted' = 1
      /\ Accepted \in 0 .. MAX_REQUESTS
      /\ Len(admitted') = Len(admitted) + 1
      /\ admitted'[Len(admitted) + 1] = now
      /\ \A i \in 1 .. Len(admitted) : admitted'[i] = admitted[i]
  BY <1>1 DEF LimitIInv, LimitTypeOK, Accepted
<1>4. WindowInv'
  <2>1. ASSUME NEW i \in 1 .. Len(admitted) - MAX_REQUESTS
        PROVE  admitted[i] + WINDOW <= now
    <3>1. i \in 1 .. Len(admitted) - Accepted
      BY <1>3 DEF LimitIInv, LimitTypeOK
    <3>2. admitted[i] <= bucket.window_started /\ admitted[i] \in Nat
      BY <1>3, <3>1 DEF LimitIInv, LimitTypeOK, WindowInv
    <3> QED BY <3>2 DEF LimitIInv, LimitTypeOK
  <2> QED BY <1>1, <1>2, <1>3, <2>1 DEF LimitIInv, LimitTypeOK, WindowInv
<1>5. BurstBound'
  <2> SUFFICES ASSUME NEW i \in 1 .. Len(admitted') - 2 * MAX_REQUESTS
               PROVE  admitted'[i + 2 * MAX_REQUESTS] - admitted'[i] >= WINDOW
    BY DEF BurstBound
  <2>1. CASE i = Len(admitted) + 1 - 2 * MAX_REQUESTS
    <3>1. i \in 1 .. Len(admitted) - Accepted
      BY <1>3, <2>1 DEF LimitIInv, LimitTypeOK
    <3>2. /\ now \in Nat /\ bucket.window_started \in Int
          /\ bucket.window_started <= now
          /\ admitted[i] <= bucket.window_started
      BY <3>1 DEF LimitIInv, LimitTypeOK, WindowInv
    <3>3. i + 2 * MAX_REQUESTS = Len(admitted) + 1
      BY <2>1 DEF LimitIInv, LimitTypeOK
    <3>4. admitted'[i + 2 * MAX_REQUESTS] = now
      BY <1>3, <3>3
    <3>5. i \in 1 .. Len(admitted)
      BY <2>1 DEF LimitIInv, LimitTypeOK
    <3>6. admitted[i] \in Nat /\ admitted'[i] = admitted[i]
      BY <1>3, <3>5 DEF LimitIInv, LimitTypeOK
    <3> QED BY <3>2, <3>4, <3>6
  <2>2. CASE i # Len(admitted) + 1 - 2 * MAX_REQUESTS
    <3>1. i \in 1 .. Len(admitted) - 2 * MAX_REQUESTS
      BY <1>3, <2>2 DEF LimitIInv, LimitTypeOK
    <3>2. /\ admitted'[i] = admitted[i]
          /\ admitted'[i + 2 * MAX_REQUESTS] = admitted[i + 2 * MAX_REQUESTS]
      BY <1>3, <3>1 DEF LimitIInv, LimitTypeOK
    <3> QED BY <3>1, <3>2 DEF LimitIInv, BurstBound
  <2> QED BY <2>1, <2>2
<1> QED BY <1>2, <1>4, <1>5 DEF LimitIInv

\* A request that is refused admits nothing.
LEMMA RefusePreserves ==
  ASSUME LimitIInv, Refuse
  PROVE  LimitIInv'
<1> USE WindowAssumption, MaxRequestsAssumption
<1>1. now - bucket.window_started < WINDOW
  BY DEF Refuse, Counted, Current, LimitIInv, LimitTypeOK
<1>2. /\ bucket' = [bucket EXCEPT !.count = @ + 1]
      /\ bucket.count + 1 > MAX_REQUESTS
      /\ admitted' = admitted
      /\ now' = now
  BY <1>1 DEF Refuse, Counted, Current, LimitIInv, LimitTypeOK
<1>3. LimitTypeOK' /\ Accepted' = Accepted
  BY <1>2 DEF LimitIInv, LimitTypeOK, Accepted
<1> QED BY <1>2, <1>3 DEF LimitIInv, LimitTypeOK, WindowInv, BurstBound

\* Every step of the limit preserves its invariant.
LEMMA LimitStep == LimitIInv /\ [LimitNext]_limitVars => LimitIInv'
<1> SUFFICES ASSUME LimitIInv, [LimitNext]_limitVars
             PROVE  LimitIInv'
  OBVIOUS
<1> USE WindowAssumption, MaxRequestsAssumption
<1>1. CASE Admit
  <2>1. now - bucket.window_started < WINDOW \/ now - bucket.window_started >= WINDOW
    BY DEF LimitIInv, LimitTypeOK
  <2> QED BY <1>1, <2>1, AdmitInWindow, AdmitOpens
<1>2. CASE Refuse
  BY <1>2, RefusePreserves
<1>3. CASE Tick
  BY <1>3 DEF Tick, LimitIInv, LimitTypeOK, WindowInv, BurstBound, Accepted
<1>4. CASE Forget
  BY <1>4 DEF Forget, NoBucket, LimitIInv, LimitTypeOK, WindowInv, BurstBound, Accepted
<1>5. CASE UNCHANGED limitVars
  BY <1>5 DEF limitVars, LimitIInv, LimitTypeOK, WindowInv, BurstBound, Accepted
<1> QED BY <1>1, <1>2, <1>3, <1>4, <1>5 DEF LimitNext

\* BurstBound holds of check_rate_limit, whatever its WINDOW and MAX_REQUESTS.
THEOREM BurstIsBounded == LimitSpec => []BurstBound
<1>1. LimitSpec => []LimitIInv
  BY LimitInitial, LimitStep, PTL DEF LimitSpec
<1>2. LimitIInv => BurstBound
  BY DEF LimitIInv
<1> QED BY <1>1, <1>2, PTL
=============================================================================
