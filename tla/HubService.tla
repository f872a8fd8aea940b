----------------------------- MODULE HubService -----------------------------
(***************************************************************************)
(* The hub as a process: it migrates its database and binds its address    *)
(* (module Migrations), and while it serves, it admits requests            *)
(* (RateLimit) and runs their statements on its tables (HubRecords).  When *)
(* it ends, what is under way and the bucket are gone and the database     *)
(* stays.  The scores in the database are what the scheduler of the next   *)
(* pipeline run learns from (Scheduler), and the metrics what its analytics *)
(* are computed from (Analytics).                                          *)
(*                                                                         *)
(* A workload is a database and the requests some clients send to it, each *)
(* once, or again and again where it says so.                              *)
(***************************************************************************)
EXTENDS Migrations, HubRecords, RateLimit, Scheduler, Analytics

CONSTANTS
    Slots,         \* workflow slots whose candidates are asked for
    Models         \* the models of the run, in the order of the list

ASSUME SlotsAssumption == \A slot \in Slots : WorkflowSlot(slot)

serviceVars == <<startVars, limitVars, recordVars, workload>>

ServiceInit ==
    /\ workload \in DOMAIN Workloads
    /\ RecordsInit
    /\ LimitInit
    /\ StartInit
    /\ versions = IF Work.migrated THEN DOMAIN Scripts ELSE {}

Serving == \E h \in Hub : stage[h] = "serving"

\* main: requests are served between Bind and the end of the process.
Starts(h) ==
    /\ h \in Work.hubs
    /\ StartStep(h)
    /\ UNCHANGED <<limitVars, recordVars, workload>>

Ends(h) ==
    /\ h \in Work.hubs
    /\ EndHub(h)
    /\ IF stage[h] = "serving"
       THEN Dropped(Request) /\ Forget
       ELSE UNCHANGED <<limitVars, recordVars>>
    /\ UNCHANGED workload

Handles(r) ==
    /\ Serving
    /\ \/ Authorized(r) /\ Admit
       \/ Refused(r) /\ Refuse
       \/ /\ \/ Unauthorized(r)
             \/ Write(r, now)
             \/ ReadRow(r)
             \/ SelectRows(r)
             \/ NotEmpty(r)
             \/ Checks(r)
             \/ WriteEvent(r)
             \/ StatementFails(r)
             \/ DropsOne(r)
          /\ UNCHANGED limitVars
    /\ UNCHANGED <<startVars, workload>>

\* A client that polls sends its request again; bounded by what one process
\* admits and refuses in a row.
Repeats(r) ==
    /\ Work.repeat
    /\ answer[r] \in {"ok", "refused"}
    /\ Len(admitted) <= 2 * MAX_REQUESTS
    /\ bucket.count <= MAX_REQUESTS
    /\ step' = [step EXCEPT ![r] = 1]
    /\ answer' = [answer EXCEPT ![r] = "none"]
    /\ UNCHANGED <<startVars, limitVars, workload, db, events, seen, found, before>>

TimePasses ==
    /\ now < Work.horizon
    /\ Tick
    /\ UNCHANGED <<startVars, recordVars, workload>>

ServiceNext ==
    \/ \E h \in Hub : Starts(h) \/ Ends(h)
    \/ \E r \in Request : Handles(r) \/ Repeats(r)
    \/ TimePasses

ServiceSpec == ServiceInit /\ [][ServiceNext]_serviceVars
=============================================================================
