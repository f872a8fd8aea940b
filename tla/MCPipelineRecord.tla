-------------------------- MODULE MCPipelineRecord --------------------------
(***************************************************************************)
(* Workflows on which TLC checks module PipelineRecord: an action that may *)
(* be skipped over and one that is retried, so that the events of the run  *)
(* are still being stored when it goes on, retries, succeeds or fails.     *)
(***************************************************************************)
EXTENDS PipelineRecordProperties

CONSTANTS r1, r2   \* (runtime, model) pairs

RecordSteps  == 2
RecordKind   == <<"action", "if_healthy">>
RecordTask   == {"code", "prose"}
RecordStepOf == [t \in RecordTask |-> IF t = "prose" THEN 1 ELSE 2]
RecordPlace  == [t \in RecordTask |-> 1]
RecordRole   == {"backend", "docs", "writer"}
RecordSlot   == {"backend", "docs"}
RecordRoleOf == [t \in RecordTask |-> IF t = "code" THEN "backend" ELSE "docs"]
RecordRanking ==
    [p \in Profile |->
        [r \in RecordRole |-> CASE r = "backend" -> <<r1, r2>>
                                [] r = "docs"    -> <<r1>>
                                [] OTHER         -> <<>>]]
RecordPolicy ==
    [r \in RecordRole |-> [kind |-> IF r = "backend" THEN "retry" ELSE "skip",
                           retries |-> IF r = "backend" THEN 1 ELSE 0]]
TwoOutcomes == {"healthy", "rate_limited"}

\* The slots' roles are their names, or that of `docs` is another.
SameRows  == [r \in RecordSlot |-> r]
OtherRows == [r \in RecordSlot |-> IF r = "docs" THEN "writer" ELSE r]

\* One action only.
SoloKind   == <<"action">>
SoloTask   == {"prose"}
SoloStepOf == [t \in SoloTask |-> 1]
SoloRoleOf == [t \in SoloTask |-> "docs"]
=============================================================================
