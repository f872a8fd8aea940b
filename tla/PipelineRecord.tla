--------------------------- MODULE PipelineRecord ---------------------------
(***************************************************************************)
(* `acp pipeline run --execute`: the command line process around the       *)
(* orchestrator of module Pipeline, and what it leaves in the hub.         *)
(*                                                                         *)
(* handle_pipeline creates the pipeline at the hub, marks it running and   *)
(* starts event_task, which receives the orchestrator's events from an     *)
(* unbounded channel and stores each with one or more HTTP requests        *)
(* (persist_orchestrator_event).  A request is executed by the hub one SQL *)
(* statement at a time, without a transaction, and the client may give up  *)
(* on it, or be aborted, in between: the statements that are left then run *)
(* later or never.                                                         *)
(*                                                                         *)
(* As in module Pipeline, a definition ending in Bug is a mistake the code *)
(* could have had.                                                         *)
(*                                                                         *)
(* Left out: payloads, approval without --execute, the other tables' rows  *)
(* beyond their existence.  The compression and the memory of one step,    *)
(* sent one after the other, are one event here.                           *)
(***************************************************************************)
EXTENDS Pipeline, Functions

CONSTANT RowOf    \* the role under which the hub stores each slot

ASSUME RowAssumption ==
    /\ \A r \in Slot : RowOf[r] \in Role
    /\ IsFiniteSet(Slot)

VARIABLES
    cli,       \* the request or the wait that handle_pipeline is at
    approved,  \* --approve-assignments
    fault,     \* whether a request has failed for a reason outside the code
    sent,      \* the events the orchestrator has sent, oldest first
    taken,     \* how many of them event_task has received
    task,      \* "unborn", "live", "done", "error" or "aborted"
    todo,      \* requests event_task has yet to make for the event it stores
    status,    \* the hub: the pipeline's status
    rows,      \* the hub: status of the slot stored under each role
    log,       \* the hub: pipeline_events, each with the event it is of
    stored     \* the hub: rows of the other tables, by event

hubVars == <<status, rows, log, stored>>
storeVars == <<taken, task, todo>>
recordVars == <<cli, approved, fault, sent, storeVars, hubVars>>

SlotOrder == CHOOSE f \in [1..Cardinality(Slot) -> Slot] : IsInjective(f)

\* What is left to the hub when event_task ends: at most the request it is
\* making.
UnderWay == IF todo = <<>> THEN <<>> ELSE <<Head(todo)>>

\* The future of the orchestrator exists, and with it the sending end.
Executing == cli = "executing"
-----------------------------------------------------------------------------
(***************************************************************************)
(* What the orchestrator sends.                                            *)
(***************************************************************************)
Event(kind, r, s) == [kind |-> kind, role |-> r, status |-> s]

Send(events) == sent' = sent \o events

\* The scheduler's decision for each slot and its assignment.
Announcements ==
    [n \in 1..(2 * Len(SlotOrder)) |->
        LET r == SlotOrder[(n + 1) \div 2]
        IN  IF n % 2 = 1 THEN Event("decision", r, "none")
            ELSE Event("slot", r, "assigned")]

SettledBug(t) ==
    LET r == RoleOf[t]
    IN  IF ~IsRecoverable(out[t].health)
        THEN <<Event("slot", r, "waiting")>>
        ELSE <<Event("slot", r, "vacant"), Event("handoff", r, "none")>>

\* What the end of an attempt announces, see AttemptReturns.
Settled(t) ==
    LET r == RoleOf[t]
    IN  IF ~IsRecoverable(out[t].health)
        THEN <<Event("slot", r, "waiting")>>
        ELSE <<Event("slot", r, "vacant"), Event("handoff", r, "none")>>
             \o (IF slot'[r] = "disabled"
                 THEN <<Event("slot", r, "disabled")>> ELSE <<>>)

Conflict(t) == <<Event("conflict", RoleOf[t], "none")>>

StepEvent(t) == Event("step", RoleOf[t], out[t].health)

Attempt(t) ==
    LET r == RoleOf[t]
    IN  \/ /\ Begin(t)
           /\ Send(<<Event("slot", r, "active"), Event("slot", r, "working")>>)
        \/ /\ \/ ChooseRuntime(t)
              \/ RuntimeError(t)
              \/ \E h \in Outcomes : RuntimeExit(t, h)
              \/ Timeout(t)
           /\ UNCHANGED sent
        \/ /\ SimulateMerge(t)
           /\ Send(IF pc'[t] = "resolving" THEN Conflict(t) ELSE Settled(t))
        \/ /\ ResolveConflict(t)
           /\ \E unclean \in {<<>>, Conflict(t)} : Send(unclean \o Settled(t))
        \/ /\ Fallback(t)
           /\ Send(<<Event("slot", r, "assigned"),
                     Event("slot", r, "working")>>)

Advance ==
    \/ /\ \/ PassOver
          \/ BeginStep
          \/ \E t \in Task : Spawn(t) \/ JoinError(t)
          \/ DeadlineExceeded
          \/ EndStep
          \/ Finish
          \/ DeadlinePasses
       /\ UNCHANGED sent
    \/ \E t \in Task :
          /\ Join(t)
          /\ Send(<<Event("memory", RoleOf[t], "none")>>
                  \o (IF pc'[t] = "joined" THEN <<StepEvent(t)>>
                      ELSE Announcements))
    \/ \E t \in Task : Refresh(t) /\ Send(<<StepEvent(t)>>)

Orchestrate ==
    /\ Executing
    /\ Advance \/ \E t \in Task : Attempt(t)
    /\ UNCHANGED <<cli, approved, fault, storeVars, hubVars>>
-----------------------------------------------------------------------------
(***************************************************************************)
(* The hub.  A request is a sequence of writes; a write is what one SQL    *)
(* statement changes, or the read that makes a request fail with 404.      *)
(***************************************************************************)
Logged(type)  == [do |-> "log", what |-> type]
Stored(table) == [do |-> "store", what |-> table]
SetRow        == [do |-> "row", what |-> "slots"]
FindRow       == [do |-> "find", what |-> "slots"]

\* persist_orchestrator_event: the requests an event is stored with.
Requests(kind) ==
    CASE kind = "slot" -> << <<SetRow, Logged("slot_status_changed"), FindRow>>,
                             <<Logged("slot_lifecycle")>> >>
      [] kind = "step" -> << <<Stored("score")>>,
                             <<Logged("step_completed")>>,
                             <<Stored("artifact"), Logged("artifact_created")>>,
                             <<Stored("metric")>> >>
      [] kind = "handoff"  -> << <<Stored("context")>>,
                                 <<Stored("compression")>> >>
      [] kind = "conflict" -> << <<Logged("merge_conflict")>> >>
      [] kind = "decision" -> << <<Stored("decision")>> >>
      [] kind = "memory"   -> << <<Stored("compression")>>,
                                 <<Stored("memory")>> >>

RowExists(r) == rows[r] # "absent"

\* A write of event number n.
Execute(write, n) ==
    LET e == sent[n]
    IN  /\ rows' = IF write.do = "row" /\ RowExists(e.role)
                   THEN [rows EXCEPT ![e.role] = e.status] ELSE rows
        /\ log' = IF write.do = "log"
                  THEN Append(log, [type |-> write.what, of |-> n]) ELSE log
        /\ stored' = IF write.do = "store"
                     THEN stored \cup {<<write.what, n>>} ELSE stored
        /\ UNCHANGED status

\* The command line process' own events are of no event of the orchestrator.
Note(type) == log' = Append(log, [type |-> type, of |-> 0])
-----------------------------------------------------------------------------
RecordInit ==
    /\ Init
    /\ cli = "create"
    /\ approved \in BOOLEAN
    /\ fault = FALSE
    /\ sent = <<>>
    /\ taken = 0
    /\ task = "unborn"
    /\ todo = <<>>
    /\ status = "none"
    /\ rows = [r \in Role |-> "absent"]
    /\ log = <<>>
    /\ stored = {}
-----------------------------------------------------------------------------
(***************************************************************************)
(* handle_pipeline                                                         *)
(***************************************************************************)

CreateBug ==
    /\ cli = "create"
    /\ status' = IF approved THEN "pending" ELSE "awaiting_approval"
    /\ rows' = [r \in Role |-> IF \E s \in Slot : RowOf[s] = r
                              THEN "assigned" ELSE "absent"]
    /\ Note("pipeline_created")
    /\ cli' = "set_running"
    /\ UNCHANGED <<vars, approved, fault, sent, storeVars, stored>>

\* create_pipeline at the hub inserts the pipeline, its slots one by one and
\* an event; any of the statements may be the last.
Create ==
    /\ cli = "create"
    /\ status' = IF approved THEN "pending" ELSE "awaiting_approval"
    /\ \E made \in 0..Len(SlotOrder) :
          /\ rows' = [r \in Role |->
                         IF \E i \in 1..made : RowOf[SlotOrder[i]] = r
                         THEN "assigned" ELSE "absent"]
          /\ \/ /\ made = Len(SlotOrder)
                /\ Note("pipeline_created")
                /\ cli' = IF approved THEN "set_running" ELSE "exited"
                /\ UNCHANGED fault
             \/ /\ cli' = "exited"
                /\ fault' = TRUE
                /\ UNCHANGED log
    /\ UNCHANGED <<vars, approved, sent, storeVars, stored>>

\* A request of handle_pipeline that sets the status.  It fails before the
\* first statement, between the two, or on the way back.
SetStatus(at, new, next) ==
    /\ cli = at
    /\ \/ status' = new /\ Note("pipeline_status_updated")
             /\ cli' = next /\ UNCHANGED fault
       \/ /\ \/ status' = new /\ Note("pipeline_status_updated")
             \/ status' = new /\ UNCHANGED log
             \/ UNCHANGED <<status, log>>
          /\ cli' = "exited" /\ fault' = TRUE
    /\ UNCHANGED <<vars, approved, sent, storeVars, rows, stored>>

\* A request that adds an event of its own, or only reads.
Report(at, type, next) ==
    /\ cli = at
    /\ \/ Note(type) /\ cli' = next /\ UNCHANGED fault
       \/ /\ Note(type) \/ UNCHANGED log
          /\ cli' = "exited" /\ fault' = TRUE
    /\ UNCHANGED <<vars, approved, sent, storeVars, status, rows, stored>>

SetRunning == SetStatus("set_running", "running", "started")
Started    == Report("started", "local_execution_started", "models")

\* The models are read, event_task is spawned and the orchestrator called;
\* its slots are announced before its first await.
Launch ==
    /\ cli = "models"
    /\ \/ /\ cli' = "executing"
          /\ task' = "live"
          /\ Send(Announcements)
          /\ UNCHANGED fault
       \/ /\ cli' = "exited" /\ fault' = TRUE
          /\ UNCHANGED <<task, sent>>
    /\ UNCHANGED <<vars, approved, taken, todo, hubVars>>

\* The orchestrator returned a report: event_task is awaited.
Drain ==
    /\ Executing
    /\ main = "done"
    /\ cli' = "draining"
    /\ UNCHANGED <<vars, approved, fault, sent, storeVars, hubVars>>

DrainedBug ==
    /\ cli = "draining"
    /\ taken = Len(sent)
    /\ cli' = IF task = "error" THEN "exited" ELSE "set_succeeded"
    /\ UNCHANGED <<vars, approved, fault, sent, storeVars, hubVars>>

\* An error of event_task leaves handle_pipeline at once.
Drained ==
    /\ cli = "draining"
    /\ task \in {"done", "error"}
    /\ cli' = IF task = "done" THEN "set_succeeded" ELSE "exited"
    /\ UNCHANGED <<vars, approved, fault, sent, storeVars, hubVars>>

SetSucceeded == SetStatus("set_succeeded", "succeeded", "exited")

\* The orchestrator returned an error: event_task is aborted, with what is
\* still in the channel; the request it was making may be under way.
AbortEvents ==
    /\ Executing
    /\ main = "failed"
    /\ cli' = "report_failed"
    /\ task' = IF task = "live" THEN "aborted" ELSE task
    /\ todo' = UnderWay
    /\ UNCHANGED <<vars, approved, fault, sent, taken, hubVars>>

ReportFailed == Report("report_failed", "local_execution_failed", "set_failed")

SetFailedBug == SetStatus("set_failed", "running", "exited")

SetFailed == SetStatus("set_failed", "failed", "exited")

\* The process is killed; its tasks end with it.
Crash ==
    /\ cli \notin {"exited", "crashed"}
    /\ cli' = "crashed"
    /\ task' = IF task = "live" THEN "aborted" ELSE task
    /\ todo' = UnderWay
    /\ UNCHANGED <<vars, approved, fault, sent, taken, hubVars>>
-----------------------------------------------------------------------------
(***************************************************************************)
(* event_task                                                              *)
(***************************************************************************)
Receive ==
    /\ task = "live"
    /\ todo = <<>>
    /\ taken < Len(sent)
    /\ taken' = taken + 1
    /\ todo' = Requests(sent[taken'].kind)
    /\ UNCHANGED <<vars, cli, approved, fault, sent, task, hubVars>>

ClosedBug ==
    /\ task = "live"
    /\ todo = <<>>
    /\ taken = Len(sent)
    /\ cli = "exited"
    /\ task' = "done"
    /\ UNCHANGED <<vars, cli, approved, fault, sent, taken, todo, hubVars>>

\* recv returns None when every sender is gone.
Closed ==
    /\ task = "live"
    /\ todo = <<>>
    /\ taken = Len(sent)
    /\ ~Executing
    /\ task' = "done"
    /\ UNCHANGED <<vars, cli, approved, fault, sent, taken, todo, hubVars>>

RestOfRequest ==
    LET rest == Tail(Head(todo))
    IN  IF rest = <<>> THEN Tail(todo) ELSE <<rest>> \o Tail(todo)

\* The hub executes the next statement of the request.  A slot that is not
\* found answers the request with 404, which ends event_task.
Persist ==
    LET write == Head(Head(todo))
        missing == write.do = "find" /\ ~RowExists(sent[taken].role)
    IN  /\ todo # <<>>
        /\ Execute(write, taken)
        /\ task' = IF missing /\ task = "live" THEN "error" ELSE task
        /\ todo' = IF missing THEN <<>> ELSE RestOfRequest
        /\ UNCHANGED <<vars, cli, approved, fault, sent, taken>>

RequestFailsBug ==
    /\ task = "live"
    /\ todo # <<>>
    /\ fault' = TRUE
    /\ todo' = Tail(todo)
    /\ UNCHANGED <<vars, cli, approved, sent, taken, task, hubVars>>

\* The connection breaks; the request may still be under way at the hub.
RequestFails ==
    /\ task = "live"
    /\ taken > 0
    /\ task' = "error"
    /\ fault' = TRUE
    /\ todo' = UnderWay
    /\ UNCHANGED <<vars, cli, approved, sent, taken, hubVars>>

\* The hub drops a request whose client is gone.
DropRequest ==
    /\ task \in {"error", "aborted"}
    /\ todo # <<>>
    /\ todo' = <<>>
    /\ UNCHANGED <<vars, cli, approved, fault, sent, taken, task, hubVars>>
-----------------------------------------------------------------------------
Handle ==
    \/ Create
    \/ SetRunning
    \/ Started
    \/ Launch
    \/ Drain
    \/ Drained
    \/ SetSucceeded
    \/ AbortEvents
    \/ ReportFailed
    \/ SetFailed

Store ==
    \/ Receive
    \/ Closed
    \/ Persist

RecordNext ==
    \/ Orchestrate
    \/ Handle
    \/ Store
    \/ Crash
    \/ RequestFails
    \/ DropRequest

allVars == <<vars, recordVars>>

\* The process and event_task are scheduled by tokio and the hub answers; as
\* in module Pipeline only timers end the agents' processes.
RecordSpec ==
    /\ RecordInit
    /\ [][RecordNext]_allVars
    /\ WF_allVars(Handle)
    /\ WF_allVars(Store)
    /\ WF_allVars(Executing /\ LoopStep /\ Orchestrate)
    /\ \A t \in Task : /\ WF_allVars(Begin(t) /\ Orchestrate)
                       /\ WF_allVars(Timeout(t) /\ Orchestrate)
=============================================================================
