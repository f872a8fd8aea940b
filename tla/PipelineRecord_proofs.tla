----------------------- MODULE PipelineRecord_proofs -----------------------
(***************************************************************************)
(* Proofs about module PipelineRecord, for every workflow, ranking and     *)
(* policy, and for every way in which its requests fail.                   *)
(***************************************************************************)
EXTENDS PipelineRecordProperties, Pipeline_proofs

-----------------------------------------------------------------------------
(***************************************************************************)
(* The invariant of the record.                                            *)
(***************************************************************************)

\* The process has not called the orchestrator yet, or has and not exited.
Before == {"create", "set_running", "started", "models"}
After  == {"executing", "draining", "set_succeeded", "report_failed",
           "set_failed"}

\* What an event is about.
EventKind == {"decision", "slot", "handoff", "conflict", "step", "memory"}

\* The statuses of slots, those of a role without one and the healths of steps.
Status == Health \cup {"none", "assigned", "active", "working", "waiting",
                       "vacant", "disabled"}

\* What the orchestrator sends, see Event.
SlotEvent == [kind : EventKind, role : Role, status : Status]

\* What a write makes, and the events of the command line process.
Made == {"slots", "slot_status_changed", "slot_lifecycle", "score",
         "step_completed", "artifact", "artifact_created", "metric", "context",
         "compression", "merge_conflict", "decision", "memory"}

Noted == {"pipeline_created", "pipeline_status_updated",
          "local_execution_started", "local_execution_failed"}

\* A row of pipeline_events.
LogEntry == [type : Made \cup Noted, of : Nat]

\* Only the slots are changed in place or looked up.
Write == {w \in [do : {"log", "store", "row", "find"}, what : Made] :
             w.what = "slots" <=> w.do \in {"row", "find"}}

\* A request makes at least one write.
Request == {q \in Seq(Write) : q # <<>>}

\* The types; an entry of the log is of an event that was taken, or of none.
RecordTypeOK ==
    /\ cli \in Before \cup After \cup {"exited", "crashed"}
    /\ approved \in BOOLEAN
    /\ fault \in BOOLEAN
    /\ sent \in Seq(SlotEvent)
    /\ taken \in 0..Len(sent)
    /\ task \in {"unborn", "live", "done", "error", "aborted"}
    /\ todo \in Seq(Request)
    /\ rows \in [Role -> Status \cup {"absent"}]
    /\ log \in Seq(LogEntry)
    /\ \A i \in DOMAIN log : log[i].of <= taken
    /\ stored \subseteq Made \X (1..taken)

\* The pipeline is marked running and has all its slots.
Registered ==
    /\ approved
    /\ status \notin {"none", "pending", "awaiting_approval"}
    /\ \A r \in Slot : rows[RowOf[r]] # "absent"

\* Where handle_pipeline, event_task and the orchestrator are.
StageInv ==
    /\ cli \in Before => /\ sent = <<>>
                         /\ task = "unborn"
                         /\ \A r \in Slot : slot[r] = "assigned"
    /\ task = "unborn" => taken = 0 /\ todo = <<>>
    /\ cli = "set_running" =>
          approved /\ \A r \in Slot : rows[RowOf[r]] # "absent"
    /\ cli \in After \cup {"started", "models"} \/ sent # <<>> => Registered
    /\ cli \in After => task # "unborn"
    /\ cli \in {"draining", "set_succeeded"} => main = "done"
    /\ cli \in {"report_failed", "set_failed"} => main = "failed"
    /\ cli = "set_succeeded" => task = "done"
    /\ task = "done" => /\ cli \notin Before \cup {"executing"}
                        /\ todo = <<>>
                        /\ taken = Len(sent)
    /\ status = "succeeded" => /\ cli \in {"exited", "crashed"}
                               /\ task = "done"
                               /\ main = "done"

\* The event e is of the slot of r.
OfSlot(e, r) == e.kind = "slot" /\ e.role = r

\* What is left of the requests td.
Left(td) ==
    (UNION {{w.what : w \in {td[i][j] : j \in DOMAIN td[i]}}
               : i \in DOMAIN td}) \ {"slots"}

\* No two writes of the requests td make the same thing.
Distinct(td) ==
    \A i, k \in DOMAIN td :
        \A j \in DOMAIN td[i], l \in DOMAIN td[k] :
            td[i][j].what = td[k][l].what /\ td[i][j].what # "slots"
            => i = k /\ j = l

\* The log says each thing of an event at most once.
OncePerEvent ==
    \A i, j \in DOMAIN log :
        log[i].of = log[j].of /\ log[i].of > 0 /\ log[i].type = log[j].type
        => i = j

\* What is held of an event is everything, of the event that is being stored
\* what is not left, and of a later one nothing.
StoreInv ==
    /\ RecordIsPrefix
    /\ todo # <<>> => taken > 0
    /\ task \in {"live", "done"} /\ taken > 0 =>
          HeldOf(taken) \cup Left(todo) = DueOf(taken)
    /\ HeldOf(taken) \cap Left(todo) = {}
    /\ Distinct(todo)
    /\ OncePerEvent

\* The hub stores every slot under its own role.
RowsByRole == \A r \in Slot : RowOf[r] = r

\* An action whose role has no slot has begun: the run will fail.
Stopped  == {"lock", "errored", "aborted"}
Slotless == \E t \in Task : RoleOf[t] \notin Slot /\ pc[t] \in Stopped

\* Such an action never gets a runtime.
SlotlessStops ==
    \A t \in Task : RoleOf[t] \notin Slot =>
        pc[t] \in {"unspawned", "spawned", "skipped"} \cup Stopped

\* The requests td were made for an event of a slot if they touch the slots.
OfSlots(td, e) ==
    \A i \in DOMAIN td : \A j \in DOMAIN td[i] :
        td[i][j].do \in {"row", "find"} => e.kind = "slot"

\* How a run can end, and why event_task can.
ExitInv ==
    /\ SlotlessStops
    /\ \A n \in DOMAIN sent :
          sent[n].kind = "slot" => sent[n].role \in Slot \/ Slotless
    /\ OfSlots(todo, sent[taken])
    /\ task = "error" => fault \/ Slotless
    /\ cli = "exited" /\ approved /\ ~fault =>
          \/ main = "done" /\ status = "succeeded"
          \/ main = "failed" /\ status = "failed"

\* i is the last of the first m events that is of the slot of r.
LastOf(r, i, m) ==
    /\ i \in 1..m
    /\ OfSlot(sent[i], r)
    /\ \A j \in (i + 1)..m : ~OfSlot(sent[j], r)

\* The only change of a row comes first.
RowFirst(td) ==
    \A i \in DOMAIN td : \A j \in DOMAIN td[i] :
        td[i][j].do = "row" => i = 1 /\ j = 1

\* The events whose change of a row has been made.
Shown ==
    IF todo # <<>> /\ Head(Head(todo)).do = "row" THEN taken - 1 ELSE taken

\* The last event of each slot has the status that the slot has.
Latest ==
    \A r \in Slot : \E i \in DOMAIN sent :
        LastOf(r, i, Len(sent)) /\ sent[i].status = slot[r]

\* The last event of each slot whose change has been made is in its row.
Current ==
    \A r \in Slot, i \in DOMAIN sent :
        LastOf(r, i, Shown) => rows[r] = sent[i].status

\* The slots, what was announced of them and their rows agree.
RowInv ==
    /\ task # "unborn" => Latest
    /\ RowFirst(todo)
    /\ task \in {"live", "done"} => Current
-----------------------------------------------------------------------------
(***************************************************************************)
(* Sequences of events.                                                    *)
(***************************************************************************)

\* What a sequence holds after another was appended to it.
LEMMA Appended ==
    ASSUME NEW S, NEW p \in Seq(S), NEW q \in Seq(S)
    PROVE  /\ p \o q \in Seq(S)
           /\ Len(p \o q) = Len(p) + Len(q)
           /\ \A i \in 1..Len(p) : (p \o q)[i] = p[i]
           /\ \A i \in 1..Len(q) : (p \o q)[Len(p) + i] = q[i]
           /\ \A i \in (Len(p) + 1)..(Len(p) + Len(q)) :
                 (p \o q)[i] = q[i - Len(p)]
  OBVIOUS

\* create_pipeline and the announcements go through all slots, once.
LEMMA EverySlotInOrder ==
    /\ SlotOrder \in Seq(Slot)
    /\ \A r \in Slot : \E i \in DOMAIN SlotOrder : SlotOrder[i] = r
    /\ \A i, j \in DOMAIN SlotOrder : SlotOrder[i] = SlotOrder[j] => i = j
<1> DEFINE n == Cardinality(Slot)
<1>1. n \in Nat /\ ExistsBijection(1..n, Slot)
  BY RowAssumption, FS_CardinalityType
<1>2. PICK f \in [1..n -> Slot] : IsInjective(f)
  BY <1>1, Zenon DEF ExistsBijection, Bijection, Injection
<1>3. SlotOrder \in [1..n -> Slot] /\ IsInjective(SlotOrder)
  BY <1>2, Zenon DEF SlotOrder
<1>4. \A a, b \in 1..n : SlotOrder[a] = SlotOrder[b] => a = b
  BY <1>3 DEF IsInjective
<1>5. IsFiniteSet(1..n) /\ Cardinality(1..n) = n
  BY <1>1, FS_Interval
<1>6. SlotOrder \in Injection(1..n, Slot)
  BY <1>3 DEF Injection
<1>7. SlotOrder \in Surjection(1..n, Slot)
  BY <1>5, <1>6, FS_Injection, RowAssumption
<1>8. \A r \in Slot : \E i \in 1..n : SlotOrder[i] = r
  BY <1>7 DEF Surjection
<1> QED BY <1>1, <1>3, <1>4, <1>8

\* Each slot is announced as assigned, once.
LEMMA AnnouncementsFacts ==
    /\ Announcements \in Seq(SlotEvent)
    /\ \A i \in DOMAIN Announcements : Announcements[i].role \in Slot
    /\ \A r \in Slot : \E i \in DOMAIN Announcements :
          /\ OfSlot(Announcements[i], r)
          /\ Announcements[i].status = "assigned"
          /\ \A j \in DOMAIN Announcements : OfSlot(Announcements[j], r) => j = i
<1> DEFINE L == Len(SlotOrder)
<1>1. L \in Nat /\ DOMAIN SlotOrder = 1..L /\ Slot \subseteq Role
  BY EverySlotInOrder, SchedulingAssumption
<1>2. \A k \in 1..(2 * L) : (k + 1) \div 2 \in 1..L
  BY <1>1
<1>3. \A k \in 1..(2 * L) : SlotOrder[(k + 1) \div 2] \in Slot
  BY <1>1, <1>2, EverySlotInOrder
<1>4. /\ DOMAIN Announcements = 1..(2 * L)
      /\ \A k \in 1..(2 * L) :
            /\ Announcements[k].role = SlotOrder[(k + 1) \div 2]
            /\ Announcements[k] \in SlotEvent
            /\ Announcements[k].kind = IF k % 2 = 1 THEN "decision" ELSE "slot"
            /\ Announcements[k].status = IF k % 2 = 1 THEN "none" ELSE "assigned"
  BY <1>1, <1>3 DEF Announcements, Event, SlotEvent, EventKind, Status
<1>5. Announcements \in Seq(SlotEvent)
  <2>1. Announcements \in [1..(2 * L) -> SlotEvent]
    BY <1>4 DEF Announcements
  <2> QED BY <1>1, <2>1
<1>6. ASSUME NEW r \in Slot
      PROVE  \E i \in DOMAIN Announcements :
                /\ OfSlot(Announcements[i], r)
                /\ Announcements[i].status = "assigned"
                /\ \A j \in DOMAIN Announcements :
                      OfSlot(Announcements[j], r) => j = i
  <2>1. PICK k \in 1..L : SlotOrder[k] = r
    BY <1>1, EverySlotInOrder
  <2>2. /\ 2 * k \in 1..(2 * L)
        /\ (2 * k) % 2 = 0
        /\ (2 * k + 1) \div 2 = k
    BY <1>1, <2>1
  <2>3. /\ OfSlot(Announcements[2 * k], r)
        /\ Announcements[2 * k].status = "assigned"
    BY <1>4, <2>1, <2>2 DEF OfSlot
  <2>4. ASSUME NEW j \in 1..(2 * L), OfSlot(Announcements[j], r)
        PROVE  j = 2 * k
    <3>1. j % 2 = 0
      <4>1. j % 2 # 1
        BY <1>4, <2>4 DEF OfSlot
      <4> QED BY <4>1
    <3>2. SlotOrder[(j + 1) \div 2] = SlotOrder[k]
      BY <1>4, <2>1, <2>4 DEF OfSlot
    <3>3. (j + 1) \div 2 = k
      BY <1>1, <1>2, <2>1, <3>2, EverySlotInOrder
    <3> QED BY <1>1, <3>1, <3>3
  <2> QED BY <1>4, <2>2, <2>3, <2>4
<1> QED BY <1>1, <1>3, <1>4, <1>5, <1>6
-----------------------------------------------------------------------------
(***************************************************************************)
(* The run inside the command.                                             *)
(***************************************************************************)

\* The orchestrator does under the command what it does alone.
LEMMA OrchestrateIsNext ==
    ASSUME Orchestrate
    PROVE  Next
<1>1. CASE Advance
  BY <1>1 DEF Advance, Next, LoopStep
<1>2. ASSUME NEW t \in Task, Attempt(t)
      PROVE  Next
  <2>1. ActionStep(t)
    BY <1>2 DEF Attempt, ActionStep
  <2> QED BY <2>1 DEF Next
<1> QED BY <1>1, <1>2 DEF Orchestrate

\* Everything else leaves the run alone.
LEMMA OthersLeaveTheRun ==
    ASSUME [RecordNext]_allVars, ~Orchestrate
    PROVE  UNCHANGED vars
<1>1. CASE Handle
  BY <1>1 DEF Handle, Create, SetRunning, Started, Launch, Drain, Drained,
              SetSucceeded, AbortEvents, ReportFailed, SetFailed, SetStatus,
              Report
<1>2. CASE Store
  BY <1>2 DEF Store, Receive, Closed, Persist
<1>3. CASE Crash \/ RequestFails \/ DropRequest \/ UNCHANGED allVars
  BY <1>3 DEF Crash, RequestFails, DropRequest, allVars
<1> QED BY <1>1, <1>2, <1>3 DEF RecordNext

\* Every step of the command is a step of the run, or none.
LEMMA RecordStepIsRunStep ==
    ASSUME [RecordNext]_allVars
    PROVE  [Next]_vars
  BY OrchestrateIsNext, OthersLeaveTheRun

\* The command line process runs the orchestrator as it is: whatever becomes
\* of the events, requests and the process, the run is one of module Pipeline.
THEOREM CommandRunsPipeline == RecordSpec => Spec
<1>1. RecordInit => Init
  BY DEF RecordInit
<1> QED BY <1>1, RecordStepIsRunStep, PTL DEF RecordSpec, Spec
-----------------------------------------------------------------------------
(***************************************************************************)
(* What the orchestrator sends.                                            *)
(***************************************************************************)

\* The events new of a step tell of the slots that changed, each with its new
\* status last, and of no role without a slot but that of an action that
\* begins.
Telling(new) ==
    /\ new \in Seq(SlotEvent)
    /\ \A i \in DOMAIN new : new[i].kind = "slot" =>
          \/ new[i].role \in Slot
          \/ \E t \in Task : RoleOf[t] = new[i].role /\ pc'[t] = "lock"
    /\ \A r \in Slot :
          \/ /\ slot'[r] = slot[r]
             /\ \A i \in DOMAIN new : ~OfSlot(new[i], r)
          \/ \E i \in DOMAIN new :
                /\ OfSlot(new[i], r)
                /\ new[i].status = slot'[r]
                /\ \A j \in DOMAIN new : OfSlot(new[j], r) => j <= i

\* What tells of nothing may come first.
LEMMA TellingAfterSilence ==
    ASSUME NEW p \in Seq(SlotEvent), \A i \in DOMAIN p : p[i].kind # "slot",
           NEW q, Telling(q)
    PROVE  Telling(p \o q)
<1> DEFINE n == Len(p)
           m == Len(q)
           all == p \o q
<1>1. q \in Seq(SlotEvent) /\ n \in Nat /\ m \in Nat
  BY DEF Telling
<1>2. /\ all \in Seq(SlotEvent) /\ Len(all) = n + m
      /\ \A i \in 1..n : all[i] = p[i]
      /\ \A i \in 1..m : all[n + i] = q[i]
      /\ \A i \in (n + 1)..(n + m) : all[i] = q[i - n]
  BY <1>1, Appended
<1>3. DOMAIN p = 1..n /\ DOMAIN q = 1..m /\ DOMAIN all = 1..(n + m)
  BY <1>1, <1>2
<1> HIDE DEF all, n, m
<1>4. ASSUME NEW i \in DOMAIN all, all[i].kind = "slot"
      PROVE  i - n \in DOMAIN q /\ all[i] = q[i - n]
  <2>1. i \notin 1..n
    BY <1>2, <1>3, <1>4
  <2>2. i \in (n + 1)..(n + m)
    BY <1>1, <1>3, <2>1
  <2> QED BY <1>1, <1>2, <1>3, <2>2
<1>5. \A i \in DOMAIN all : all[i].kind = "slot" =>
          \/ all[i].role \in Slot
          \/ \E t \in Task : RoleOf[t] = all[i].role /\ pc'[t] = "lock"
  BY <1>4 DEF Telling
<1>6. ASSUME NEW r \in Slot
      PROVE  \/ /\ slot'[r] = slot[r]
                /\ \A i \in DOMAIN all : ~OfSlot(all[i], r)
             \/ \E i \in DOMAIN all :
                   /\ OfSlot(all[i], r)
                   /\ all[i].status = slot'[r]
                   /\ \A j \in DOMAIN all : OfSlot(all[j], r) => j <= i
  <2>1. CASE \A i \in DOMAIN q : ~OfSlot(q[i], r)
    BY <1>4, <2>1 DEF Telling, OfSlot
  <2>2. ASSUME NEW i \in DOMAIN q, OfSlot(q[i], r), q[i].status = slot'[r],
               \A j \in DOMAIN q : OfSlot(q[j], r) => j <= i
        PROVE  \E k \in DOMAIN all :
                  /\ OfSlot(all[k], r)
                  /\ all[k].status = slot'[r]
                  /\ \A j \in DOMAIN all : OfSlot(all[j], r) => j <= k
    <3>1. n + i \in DOMAIN all /\ all[n + i] = q[i]
      BY <1>1, <1>2, <1>3
    <3>2. ASSUME NEW j \in DOMAIN all, OfSlot(all[j], r)
          PROVE  j <= n + i
      <4>1. j - n \in DOMAIN q /\ OfSlot(q[j - n], r)
        BY <1>4, <3>2 DEF OfSlot
      <4> QED BY <1>1, <1>3, <2>2, <3>2, <4>1
    <3> QED BY <2>2, <3>1, <3>2
  <2> QED BY <2>1, <2>2 DEF Telling
<1> QED BY <1>2, <1>5, <1>6 DEF Telling, all

\* Two events and a third.
LEMMA TwoAndOne ==
    ASSUME NEW S, NEW a \in S, NEW b \in S, NEW c \in S
    PROVE  <<a, b>> \o <<c>> = <<a, b, c>>
<1> DEFINE p == <<a, b>>
           q == <<c>>
           s == <<a, b, c>>
<1>1. /\ p \in Seq(S) /\ q \in Seq(S) /\ s \in Seq(S)
      /\ Len(p) = 2 /\ Len(q) = 1 /\ Len(s) = 3
      /\ s[1] = p[1] /\ s[2] = p[2] /\ s[3] = q[1]
  OBVIOUS
<1>2. p \o q \in Seq(S) /\ Len(p \o q) = 3
  BY <1>1, Appended
<1>3. \A i \in 1..3 : (p \o q)[i] = s[i]
  BY <1>1, Appended
<1> HIDE DEF p, q, s
<1>4. p \o q = s
  BY <1>1, <1>2, <1>3
<1> QED BY <1>4 DEF p, q, s

\* The end of an attempt: the events tell of the slot of the action.
LEMMA SettledTelling ==
    ASSUME IInv, NEW t \in Task, AttemptReturns(t), RoleOf[t] \in Slot
    PROVE  /\ Telling(Settled(t))
           /\ \A unclean \in {<<>>, Conflict(t)} : Telling(unclean \o Settled(t))
<1> DEFINE r == RoleOf[t]
           waiting  == Event("slot", r, "waiting")
           vacant   == Event("slot", r, "vacant")
           handoff  == Event("handoff", r, "none")
           disabled == Event("slot", r, "disabled")
           conflict == Event("conflict", r, "none")
<1>1. r \in Role /\ slot \in [Role -> SlotStatus] /\ Slot \subseteq Role
  BY WorkflowAssumption, SchedulingAssumption DEF IInv, TypeOK
<1>2. /\ waiting \in SlotEvent /\ waiting.kind = "slot"
      /\ waiting.role = r /\ waiting.status = "waiting"
      /\ vacant \in SlotEvent /\ vacant.kind = "slot"
      /\ vacant.role = r /\ vacant.status = "vacant"
      /\ handoff \in SlotEvent /\ handoff.kind = "handoff"
      /\ disabled \in SlotEvent /\ disabled.kind = "slot"
      /\ disabled.role = r /\ disabled.status = "disabled"
      /\ conflict \in SlotEvent /\ conflict.kind = "conflict"
  BY <1>1 DEF Event, SlotEvent, EventKind, Status
<1>3. \A q \in Slot : q # r => slot'[q] = slot[q]
  BY <1>1 DEF AttemptReturns
<1>a. Conflict(t) = <<conflict>>
  BY DEF Conflict
<1>b. Settled(t) = IF ~IsRecoverable(out[t].health) THEN <<waiting>>
                   ELSE <<vacant, handoff>>
                        \o (IF slot'[r] = "disabled" THEN <<disabled>> ELSE <<>>)
  BY DEF Settled
<1>c. slot' = [slot EXCEPT ![r] = IF ~IsRecoverable(out[t].health) THEN "waiting"
                                  ELSE slot'[r]]
      /\ slot'[r] \in {"waiting", "vacant", "disabled"}
  BY <1>1 DEF AttemptReturns
<1> HIDE DEF waiting, vacant, handoff, disabled, conflict
<1>4. Telling(Settled(t))
  <2>1. CASE ~IsRecoverable(out[t].health)
    <3>1. Settled(t) = <<waiting>> /\ slot'[r] = "waiting"
      BY <1>1, <1>b, <1>c, <2>1
    <3> QED BY <1>2, <1>3, <3>1 DEF Telling, OfSlot
  <2>2. CASE IsRecoverable(out[t].health) /\ slot'[r] = "disabled"
    <3>1. Settled(t) = <<vacant, handoff, disabled>>
      BY <1>2, <1>b, <2>2, TwoAndOne
    <3> QED BY <1>2, <1>3, <2>2, <3>1 DEF Telling, OfSlot
  <2>3. CASE IsRecoverable(out[t].health) /\ slot'[r] # "disabled"
    <3>1. slot'[r] = "vacant"
      BY <1>1, <2>3 DEF AttemptReturns
    <3>2. <<vacant, handoff>> \in Seq(SlotEvent)
      BY <1>2
    <3>3. Settled(t) = <<vacant, handoff>>
      BY <1>b, <2>3, <3>2
    <3> QED BY <1>2, <1>3, <3>1, <3>3 DEF Telling, OfSlot
  <2> QED BY <2>1, <2>2, <2>3
<1>5. Telling(<<>> \o Settled(t))
  BY <1>4, TellingAfterSilence
<1>6. Telling(Conflict(t) \o Settled(t))
  <2>1. <<conflict>> \in Seq(SlotEvent)
    BY <1>2
  <2>2. \A i \in DOMAIN <<conflict>> : <<conflict>>[i].kind # "slot"
    BY <1>2
  <2> QED BY <1>4, <1>a, <2>1, <2>2, TellingAfterSilence
<1> QED BY <1>4, <1>5, <1>6

\* A conflict tells of no slot, and neither does nothing at all.
LEMMA NothingTells ==
    ASSUME UNCHANGED slot
    PROVE  Telling(<<>>)
<1>1. <<>> \in Seq(SlotEvent) /\ DOMAIN <<>> = {}
  OBVIOUS
<1> QED BY <1>1 DEF Telling

\* An event of something else tells of no slot.
LEMMA SilentTelling ==
    ASSUME NEW e \in SlotEvent, e.kind # "slot", UNCHANGED slot
    PROVE  Telling(<<e>>)
  BY DEF Telling, OfSlot

\* An action that begins or is run again tells of its slot.
LEMMA TwiceTelling ==
    ASSUME IInv, NEW t \in Task,
           RoleOf[t] \in Slot \/ pc'[t] = "lock",
           slot' = [slot EXCEPT ![RoleOf[t]] = "working"],
           NEW s \in {"active", "assigned"}
    PROVE  Telling(<<Event("slot", RoleOf[t], s),
                     Event("slot", RoleOf[t], "working")>>)
<1> DEFINE r == RoleOf[t]
           first  == Event("slot", r, s)
           second == Event("slot", r, "working")
<1>1. r \in Role /\ slot \in [Role -> SlotStatus] /\ Slot \subseteq Role
  BY WorkflowAssumption, SchedulingAssumption DEF IInv, TypeOK
<1>2. /\ first \in SlotEvent /\ first.kind = "slot" /\ first.role = r
      /\ second \in SlotEvent /\ second.kind = "slot" /\ second.role = r
      /\ second.status = "working"
  BY <1>1 DEF Event, SlotEvent, EventKind, Status
<1>3. \A q \in Slot : slot'[q] = IF q = r THEN "working" ELSE slot[q]
  BY <1>1
<1> HIDE DEF first, second
<1>4. Telling(<<first, second>>)
  BY <1>2, <1>3 DEF Telling, OfSlot
<1> QED BY <1>4 DEF first, second

\* What an action sends.
LEMMA AttemptSends ==
    ASSUME IInv, NEW t \in Task, Attempt(t)
    PROVE  \E new : Send(new) /\ Telling(new)
<1> DEFINE r == RoleOf[t]
<1>0. /\ TableInv
      /\ pc \in [Task -> Place] /\ r \in Role
      /\ slot \in [Role -> SlotStatus]
  BY WorkflowAssumption DEF IInv, TypeOK
<1>1. CASE /\ Begin(t)
           /\ Send(<<Event("slot", r, "active"), Event("slot", r, "working")>>)
  <2>1. pc'[t] = "lock" /\ slot' = [slot EXCEPT ![RoleOf[t]] = "working"]
    BY <1>0, <1>1 DEF Begin
  <2> QED BY <1>1, <2>1, TwiceTelling
<1>2. CASE /\ \/ ChooseRuntime(t)
              \/ RuntimeError(t)
              \/ \E h \in Outcomes : RuntimeExit(t, h)
              \/ Timeout(t)
           /\ UNCHANGED sent
  <2>1. UNCHANGED slot
    BY <1>2 DEF ChooseRuntime, RuntimeError, RuntimeExit, Timeout
  <2>2. Telling(<<>>)
    BY <2>1, NothingTells
  <2> QED BY <1>2, <2>2, sent \o <<>> = sent DEF Send
<1>3. ASSUME SimulateMerge(t), Send(IF pc'[t] = "resolving" THEN Conflict(t)
                                    ELSE Settled(t))
      PROVE  \E new : Send(new) /\ Telling(new)
  <2>1. r \in Slot
    BY <1>0, <1>3 DEF SimulateMerge, TableInv, Holding
  <2>2. CASE AttemptReturns(t)
    <3>1. pc'[t] # "resolving"
      BY <1>0, <2>2 DEF AttemptReturns
    <3> QED BY <1>3, <2>1, <2>2, <3>1, SettledTelling
  <2>3. CASE pc' = [pc EXCEPT ![t] = "resolving"] /\ UNCHANGED slot
    <3>1. pc'[t] = "resolving"
      BY <1>0, <2>3
    <3>2. Telling(Conflict(t))
      <4>1. /\ Event("conflict", r, "none") \in SlotEvent
            /\ Event("conflict", r, "none").kind # "slot"
        BY <1>0 DEF Event, SlotEvent, EventKind, Status
      <4> QED BY <2>3, <4>1, SilentTelling DEF Conflict
    <3> QED BY <1>3, <3>1, <3>2
  <2> QED BY <1>3, <2>2, <2>3 DEF SimulateMerge
<1>4. ASSUME ResolveConflict(t),
             NEW unclean \in {<<>>, Conflict(t)}, Send(unclean \o Settled(t))
      PROVE  \E new : Send(new) /\ Telling(new)
  <2>1. r \in Slot /\ AttemptReturns(t)
    BY <1>0, <1>4 DEF ResolveConflict, TableInv, Holding
  <2> QED BY <1>4, <2>1, SettledTelling
<1>5. CASE /\ Fallback(t)
           /\ Send(<<Event("slot", r, "assigned"), Event("slot", r, "working")>>)
  <2>1. r \in Slot /\ slot' = [slot EXCEPT ![RoleOf[t]] = "working"]
    BY <1>0, <1>5 DEF Fallback, TableInv
  <2> QED BY <1>5, <2>1, TwiceTelling
<1> QED BY <1>1, <1>2, <1>3, <1>4, <1>5 DEF Attempt

\* What the step loop sends.
LEMMA AdvanceSends ==
    ASSUME IInv, Advance
    PROVE  \E new : Send(new) /\ Telling(new)
<1>1. CASE UNCHANGED <<sent, slot>>
  <2>1. Telling(<<>>)
    BY <1>1, NothingTells
  <2> QED BY <1>1, <2>1, sent \o <<>> = sent DEF Send
<1>2. CASE /\ \/ PassOver
              \/ BeginStep
              \/ \E t \in Task : Spawn(t) \/ JoinError(t)
              \/ DeadlineExceeded
              \/ EndStep
              \/ Finish
              \/ DeadlinePasses
           /\ UNCHANGED sent
  <2>1. UNCHANGED slot
    BY <1>2 DEF PassOver, BeginStep, Spawn, JoinError, DeadlineExceeded, Abandon,
                EndStep, Finish, DeadlinePasses
  <2> QED BY <1>1, <1>2, <2>1
<1>3. ASSUME NEW t \in Task, Join(t),
             Send(<<Event("memory", RoleOf[t], "none")>>
                  \o (IF pc'[t] = "joined" THEN <<StepEvent(t)>>
                      ELSE Announcements))
      PROVE  \E new : Send(new) /\ Telling(new)
  <2> DEFINE memory == Event("memory", RoleOf[t], "none")
             rest == IF pc'[t] = "joined" THEN <<StepEvent(t)>> ELSE Announcements
  <2>0. /\ pc \in [Task -> Place] /\ RoleOf[t] \in Role
        /\ out[t].health \in Health
        /\ slot \in [Role -> SlotStatus]
    BY <1>3, WorkflowAssumption DEF IInv, TypeOK, OutcomeInv, Join
  <2>1. memory \in SlotEvent /\ memory.kind = "memory"
    BY <2>0 DEF Event, SlotEvent, EventKind, Status
  <2>2. Telling(rest)
    <3>1. CASE pc' = [pc EXCEPT ![t] = "joined"] /\ UNCHANGED slot
      <4>1. StepEvent(t) \in SlotEvent /\ StepEvent(t).kind = "step"
        BY <2>0 DEF StepEvent, Event, SlotEvent, EventKind, Status
      <4>2. rest = <<StepEvent(t)>>
        BY <2>0, <3>1
      <4> QED BY <3>1, <4>1, <4>2, SilentTelling
    <3>2. CASE /\ pc' = [pc EXCEPT ![t] = "joining"]
               /\ slot' = [r \in Role |->
                              IF r \in Slot THEN "assigned" ELSE slot[r]]
      <4>1. rest = Announcements
        BY <2>0, <3>2
      <4>2. \A r \in Slot : slot'[r] = "assigned"
        BY <3>2, SchedulingAssumption
      <4>3. \A i, j \in DOMAIN Announcements : i = j => j <= i
        BY AnnouncementsFacts
      <4>4. ASSUME NEW r \in Slot
            PROVE  \E i \in DOMAIN Announcements :
                      /\ OfSlot(Announcements[i], r)
                      /\ Announcements[i].status = slot'[r]
                      /\ \A j \in DOMAIN Announcements :
                            OfSlot(Announcements[j], r) => j <= i
        BY <4>2, <4>3, AnnouncementsFacts
      <4> QED BY <4>1, <4>4, AnnouncementsFacts DEF Telling
    <3> QED BY <1>3, <3>1, <3>2 DEF Join
  <2>3. <<memory>> \in Seq(SlotEvent) /\ \A i \in DOMAIN <<memory>> :
                                             <<memory>>[i].kind # "slot"
    BY <2>1
  <2> HIDE DEF memory, rest
  <2>4. Telling(<<memory>> \o rest)
    BY <2>2, <2>3, TellingAfterSilence
  <2> QED BY <1>3, <2>4 DEF memory, rest
<1>4. ASSUME NEW t \in Task, Refresh(t), Send(<<StepEvent(t)>>)
      PROVE  \E new : Send(new) /\ Telling(new)
  <2>1. RoleOf[t] \in Role /\ out[t].health \in Health
    BY <1>4, WorkflowAssumption DEF IInv, OutcomeInv, Refresh
  <2>2. StepEvent(t) \in SlotEvent /\ StepEvent(t).kind = "step"
    BY <2>1 DEF StepEvent, Event, SlotEvent, EventKind, Status
  <2>3. UNCHANGED slot
    BY <1>4 DEF Refresh
  <2>4. Telling(<<StepEvent(t)>>)
    BY <2>2, <2>3, SilentTelling
  <2> QED BY <1>4, <2>4
<1> QED BY <1>2, <1>3, <1>4 DEF Advance
-----------------------------------------------------------------------------
(***************************************************************************)
(* What is left to be stored.                                              *)
(***************************************************************************)

\* A write is left if it is at some place of the requests.
LEMMA LeftAt ==
    ASSUME NEW td, NEW x
    PROVE  x \in Left(td) <=>
              /\ x # "slots"
              /\ \E i \in DOMAIN td : \E j \in DOMAIN td[i] : x = td[i][j].what
<1> DEFINE Whats(i) == {w.what : w \in {td[i][j] : j \in DOMAIN td[i]}}
           All == UNION {Whats(i) : i \in DOMAIN td}
<1>1. \A i : x \in Whats(i) <=> \E j \in DOMAIN td[i] : x = td[i][j].what
  OBVIOUS
<1>2. Left(td) = All \ {"slots"}
  BY DEF Left
<1> HIDE DEF Whats
<1>3. x \in All <=> \E i \in DOMAIN td : x \in Whats(i)
  BY Zenon
<1> HIDE DEF All
<1>4. x \in Left(td) <=> x # "slots" /\ x \in All
  BY <1>2
<1> QED BY <1>1, <1>3, <1>4

\* The requests an event is stored with: no two writes make the same thing,
\* and only a slot event touches the slots, its row first.
LEMMA RequestsFacts ==
    ASSUME NEW k \in EventKind
    PROVE  /\ Requests(k) \in Seq(Request)
           /\ Distinct(Requests(k))
           /\ \A i \in DOMAIN Requests(k) : \A j \in DOMAIN Requests(k)[i] :
                 /\ Requests(k)[i][j].do \in {"row", "find"} => k = "slot"
                 /\ Requests(k)[i][j].do = "row" => i = 1 /\ j = 1
           /\ k = "slot" => /\ Requests(k) # <<>>
                            /\ Head(Head(Requests(k))).do = "row"
<1> USE DEF Logged, Stored, SetRow, FindRow
<1>1. CASE k = "slot"
  <2> DEFINE p == <<SetRow, Logged("slot_status_changed"), FindRow>>
             q == <<Logged("slot_lifecycle")>>
  <2>1. Requests(k) = <<p, q>>
    BY <1>1 DEF Requests
  <2>2. p \in Request /\ q \in Request
    BY DEF Request, Write, Made
  <2>3. <<p, q>> \in Seq(Request)
    BY <2>2
  <2>4. /\ Distinct(<<p, q>>)
        /\ \A i \in DOMAIN <<p, q>> : \A j \in DOMAIN <<p, q>>[i] :
              <<p, q>>[i][j].do = "row" => i = 1 /\ j = 1
        /\ <<p, q>> # <<>> /\ Head(Head(<<p, q>>)).do = "row"
    <3> DEFINE td == <<p, q>>
    <3>1. /\ DOMAIN td = {1, 2} /\ DOMAIN td[1] = {1, 2, 3} /\ DOMAIN td[2] = {1}
          /\ td[1][1].what = "slots" /\ td[1][2].what = "slot_status_changed"
          /\ td[1][3].what = "slots" /\ td[2][1].what = "slot_lifecycle"
          /\ td[1][1].do = "row" /\ td[1][2].do = "log"
          /\ td[1][3].do = "find" /\ td[2][1].do = "log"
          /\ td # <<>> /\ Head(Head(td)).do = "row"
      OBVIOUS
    <3> HIDE DEF td
    <3>2. Distinct(td)
      BY <3>1 DEF Distinct
    <3>3. \A i \in DOMAIN td : \A j \in DOMAIN td[i] :
             td[i][j].do = "row" => i = 1 /\ j = 1
      BY <3>1
    <3> QED BY <3>1, <3>2, <3>3 DEF td
  <2> HIDE DEF p, q
  <2> QED BY <1>1, <2>1, <2>3, <2>4
<1>2. CASE k = "step"
  <2> DEFINE p == <<Stored("score")>>
             q == <<Logged("step_completed")>>
             r == <<Stored("artifact"), Logged("artifact_created")>>
             s == <<Stored("metric")>>
  <2>1. Requests(k) = <<p, q, r, s>>
    BY <1>2 DEF Requests
  <2>2. p \in Request /\ q \in Request /\ r \in Request /\ s \in Request
    BY DEF Request, Write, Made
  <2>3. <<p, q, r, s>> \in Seq(Request)
    BY <2>2
  <2>4. /\ Distinct(<<p, q, r, s>>)
        /\ \A i \in DOMAIN <<p, q, r, s>> :
              \A j \in DOMAIN <<p, q, r, s>>[i] :
                 <<p, q, r, s>>[i][j].do \notin {"row", "find"}
    <3> DEFINE td == <<p, q, r, s>>
    <3>1. /\ DOMAIN td = {1, 2, 3, 4} /\ DOMAIN td[1] = {1}
          /\ DOMAIN td[2] = {1} /\ DOMAIN td[3] = {1, 2} /\ DOMAIN td[4] = {1}
          /\ td[1][1].what = "score" /\ td[2][1].what = "step_completed"
          /\ td[3][1].what = "artifact" /\ td[3][2].what = "artifact_created"
          /\ td[4][1].what = "metric"
          /\ td[1][1].do = "store" /\ td[2][1].do = "log"
          /\ td[3][1].do = "store" /\ td[3][2].do = "log"
          /\ td[4][1].do = "store"
      OBVIOUS
    <3> HIDE DEF td
    <3>2. Distinct(td)
      BY <3>1 DEF Distinct
    <3>3. \A i \in DOMAIN td : \A j \in DOMAIN td[i] :
             td[i][j].do \notin {"row", "find"}
      BY <3>1
    <3> QED BY <3>2, <3>3 DEF td
  <2> HIDE DEF p, q, r, s
  <2> QED BY <1>2, <2>1, <2>3, <2>4
<1>3. ASSUME NEW p \in Write, NEW q \in Write, k \in {"handoff", "memory"},
             Requests(k) = << <<p>>, <<q>> >>, p.what # q.what,
             p.do = "store", q.do = "store"
      PROVE  /\ Requests(k) \in Seq(Request)
             /\ Distinct(Requests(k))
             /\ \A i \in DOMAIN Requests(k) : \A j \in DOMAIN Requests(k)[i] :
                   Requests(k)[i][j].do \notin {"row", "find"}
  BY <1>3 DEF Request, Distinct
<1>4. CASE k \in {"handoff", "memory"}
  <2>1. /\ Stored("context") \in Write /\ Stored("compression") \in Write
        /\ Stored("memory") \in Write
    BY DEF Write, Made
  <2>2. Requests(k) = IF k = "handoff"
                      THEN << <<Stored("context")>>, <<Stored("compression")>> >>
                      ELSE << <<Stored("compression")>>, <<Stored("memory")>> >>
    BY <1>4 DEF Requests
  <2> QED BY <1>3, <1>4, <2>1, <2>2
<1>5. CASE k \in {"conflict", "decision"}
  <2>1. Logged("merge_conflict") \in Write /\ Stored("decision") \in Write
    BY DEF Write, Made
  <2>2. PICK w \in Write : Requests(k) = << <<w>> >> /\ w.do \notin {"row", "find"}
    BY <1>5, <2>1 DEF Requests
  <2> QED BY <1>5, <2>2 DEF Request, Distinct
<1> QED BY <1>1, <1>2, <1>4, <1>5 DEF EventKind

\* Where a write of RestOfRequest stands in todo.
Row(i)       == IF Tail(Head(todo)) = <<>> THEN i + 1 ELSE i
Column(i, j) == IF Tail(Head(todo)) # <<>> /\ i = 1 THEN j + 1 ELSE j

\* The first request, and its first write.
LEMMA TodoFacts ==
    ASSUME todo \in Seq(Request), todo # <<>>
    PROVE  /\ Head(todo) \in Request
           /\ Head(todo) = todo[1] /\ 1 \in DOMAIN todo
           /\ Head(Head(todo)) \in Write
           /\ Head(Head(todo)) = todo[1][1] /\ 1 \in DOMAIN todo[1]
           /\ UnderWay \in Seq(Request)
           /\ \A i \in DOMAIN todo : /\ todo[i] \in Seq(Write)
                                     /\ todo[i] # <<>>
<1>1. Head(todo) \in Request /\ Head(todo) = todo[1] /\ 1 \in DOMAIN todo
  OBVIOUS
<1>2. /\ Head(Head(todo)) \in Write
      /\ Head(Head(todo)) = todo[1][1] /\ 1 \in DOMAIN todo[1]
  BY <1>1 DEF Request
<1>3. UnderWay \in Seq(Request)
  BY <1>1 DEF UnderWay
<1> QED BY <1>1, <1>2, <1>3 DEF Request

\* Every write but the first keeps a place in RestOfRequest.
LEMMA RestPlaces ==
    ASSUME todo \in Seq(Request), todo # <<>>
    PROVE  /\ RestOfRequest \in Seq(Request)
           /\ \A i \in DOMAIN RestOfRequest : \A j \in DOMAIN RestOfRequest[i] :
                 /\ i \in Nat /\ j \in Nat
                 /\ Row(i) \in DOMAIN todo
                 /\ Column(i, j) \in DOMAIN todo[Row(i)]
                 /\ RestOfRequest[i][j] = todo[Row(i)][Column(i, j)]
                 /\ Row(i) # 1 \/ Column(i, j) # 1
           /\ \A a \in DOMAIN todo : \A b \in DOMAIN todo[a] :
                 \/ a = 1 /\ b = 1
                 \/ \E i \in DOMAIN RestOfRequest :
                       \E j \in DOMAIN RestOfRequest[i] :
                          a = Row(i) /\ b = Column(i, j)
<1> DEFINE first == Head(todo)
           rest  == Tail(first)
           more  == Tail(todo)
           n     == Len(todo)
<1>1. /\ first \in Seq(Write) /\ first # <<>> /\ first = todo[1]
      /\ n \in Nat /\ n > 0 /\ DOMAIN todo = 1..n
      /\ \A i \in 1..n : todo[i] \in Request
      /\ more \in Seq(Request) /\ Len(more) = n - 1
      /\ \A i \in 1..(n - 1) : more[i] = todo[i + 1]
  BY DEF Request
<1>2. /\ rest \in Seq(Write) /\ Len(rest) = Len(first) - 1
      /\ Len(first) \in Nat /\ Len(first) > 0
      /\ \A j \in 1..Len(rest) : rest[j] = first[j + 1]
  BY <1>1
<1>3. CASE rest = <<>>
  <2>1. RestOfRequest = more
    BY <1>3 DEF RestOfRequest
  <2>2. Len(first) = 1
    <3> HIDE DEF first, rest
    <3>1. Len(rest) = 0
      BY <1>3
    <3> QED BY <1>2, <3>1
  <2>3. \A i : Row(i) = i + 1
    BY <1>3 DEF Row
  <2>4. \A i, j : Column(i, j) = j
    BY <1>3 DEF Column
  <2>5. DOMAIN more = 1..(n - 1)
    BY <1>1
  <2> HIDE DEF first, rest, more, n
  <2>6. \A i \in 1..(n - 1) : \A j \in DOMAIN more[i] :
            /\ i + 1 \in 1..n /\ i + 1 # 1
            /\ j \in DOMAIN todo[i + 1]
            /\ more[i][j] = todo[i + 1][j]
            /\ j \in Nat
    BY <1>1 DEF Request
  <2>7. \A a \in 1..n : \A b \in DOMAIN todo[a] :
            \/ a = 1 /\ b = 1
            \/ a - 1 \in 1..(n - 1) /\ b \in DOMAIN more[a - 1] /\ a = a - 1 + 1
    BY <1>1, <2>2
  <2>8. \A i \in DOMAIN RestOfRequest : \A j \in DOMAIN RestOfRequest[i] :
            /\ i \in Nat /\ j \in Nat
            /\ Row(i) \in DOMAIN todo
            /\ Column(i, j) \in DOMAIN todo[Row(i)]
            /\ RestOfRequest[i][j] = todo[Row(i)][Column(i, j)]
            /\ Row(i) # 1
    BY <1>1, <2>1, <2>3, <2>4, <2>5, <2>6
  <2>9. ASSUME NEW a \in DOMAIN todo, NEW b \in DOMAIN todo[a], ~(a = 1 /\ b = 1)
        PROVE  \E i \in DOMAIN RestOfRequest : \E j \in DOMAIN RestOfRequest[i] :
                  a = Row(i) /\ b = Column(i, j)
    <3>1. a - 1 \in DOMAIN RestOfRequest /\ b \in DOMAIN RestOfRequest[a - 1]
      BY <1>1, <2>1, <2>5, <2>7, <2>9
    <3>2. a = Row(a - 1) /\ b = Column(a - 1, b)
      BY <1>1, <2>3, <2>4, <2>9
    <3> QED BY <3>1, <3>2
  <2> QED BY <1>1, <2>1, <2>8, <2>9
<1>4. CASE rest # <<>>
  <2>1. RestOfRequest = <<rest>> \o more
    BY <1>4 DEF RestOfRequest
  <2>2. rest \in Request
    BY <1>2, <1>4 DEF Request
  <2>3. /\ RestOfRequest \in Seq(Request) /\ Len(RestOfRequest) = n
        /\ RestOfRequest[1] = rest
        /\ \A i \in 2..n : RestOfRequest[i] = todo[i]
    <3>1. <<rest>> \in Seq(Request) /\ Len(<<rest>>) = 1 /\ <<rest>>[1] = rest
      BY <2>2
    <3> HIDE DEF rest, more, n
    <3>2. /\ RestOfRequest \in Seq(Request)
          /\ Len(RestOfRequest) = n
          /\ RestOfRequest[1] = rest
          /\ \A i \in 2..n : RestOfRequest[i] = more[i - 1]
      BY <1>1, <2>1, <3>1, Appended
    <3>3. \A i \in 2..n : more[i - 1] = todo[i]
      BY <1>1
    <3> QED BY <3>2, <3>3
  <2>4. \A i : Row(i) = i
    BY <1>4 DEF Row
  <2>5. \A i, j : Column(i, j) = IF i = 1 THEN j + 1 ELSE j
    BY <1>4 DEF Column
  <2> HIDE DEF first, rest, more, n
  <2>6. DOMAIN RestOfRequest = 1..n /\ DOMAIN rest = 1..Len(rest)
        /\ DOMAIN first = 1..Len(first)
    BY <1>1, <1>2, <2>3
  <2>7. ASSUME NEW i \in 1..n, NEW j \in DOMAIN RestOfRequest[i]
        PROVE  /\ j \in Nat
               /\ Column(i, j) \in DOMAIN todo[i]
               /\ RestOfRequest[i][j] = todo[i][Column(i, j)]
               /\ i # 1 \/ Column(i, j) # 1
    <3>1. CASE i = 1
      <4>1. j \in 1..Len(rest) /\ Column(i, j) = j + 1
        BY <2>3, <2>5, <2>6, <3>1
      <4> QED BY <1>1, <1>2, <2>3, <2>6, <3>1, <4>1
    <3>2. CASE i # 1
      <4>1. i \in 2..n /\ Column(i, j) = j
        BY <1>1, <2>5, <3>2
      <4>2. RestOfRequest[i] = todo[i] /\ todo[i] \in Seq(Write)
        BY <1>1, <2>3, <4>1 DEF Request
      <4> QED BY <3>2, <4>1, <4>2
    <3> QED BY <3>1, <3>2
  <2>8. ASSUME NEW a \in 1..n, NEW b \in DOMAIN todo[a], ~(a = 1 /\ b = 1)
        PROVE  \E j \in DOMAIN RestOfRequest[a] : b = Column(a, j)
    <3>1. CASE a = 1
      <4>1. b - 1 \in 1..Len(rest)
        BY <1>1, <1>2, <2>6, <2>8, <3>1
      <4>2. b = Column(a, b - 1)
        BY <1>1, <2>5, <2>6, <2>8, <3>1, <4>1
      <4> QED BY <2>3, <2>6, <3>1, <4>1, <4>2
    <3>2. CASE a # 1
      <4>1. a \in 2..n /\ Column(a, b) = b
        BY <1>1, <2>5, <3>2
      <4> QED BY <2>3, <4>1
    <3> QED BY <3>1, <3>2
  <2> QED BY <1>1, <2>3, <2>4, <2>6, <2>7, <2>8
<1> QED BY <1>3, <1>4
-----------------------------------------------------------------------------
(***************************************************************************)
(* The types of the record.                                                *)
(***************************************************************************)

\* What an orchestrator's step adds to the events.
LEMMA OrchestrateSends ==
    ASSUME RecordTypeOK, IInv, Orchestrate
    PROVE  /\ \E new : sent' = sent \o new /\ Telling(new)
           /\ UNCHANGED <<cli, approved, fault, taken, task, todo, status, rows,
                          log, stored>>
           /\ cli = "executing"
           /\ sent' \in Seq(SlotEvent)
           /\ Len(sent') \in Nat /\ Len(sent) \in Nat /\ Len(sent) <= Len(sent')
           /\ \A n \in 1..Len(sent) : sent'[n] = sent[n]
<1>1. PICK new : Send(new) /\ Telling(new)
  <2>1. \E new : Send(new) /\ Telling(new)
    BY AdvanceSends, AttemptSends DEF Orchestrate
  <2> QED BY <2>1
<1>2. sent' = sent \o new /\ new \in Seq(SlotEvent)
  BY <1>1 DEF Send, Telling
<1>3. /\ sent' \in Seq(SlotEvent)
      /\ Len(sent') = Len(sent) + Len(new)
      /\ \A n \in 1..Len(sent) : sent'[n] = sent[n]
      /\ Len(sent) \in Nat /\ Len(new) \in Nat
  BY <1>2, Appended DEF RecordTypeOK
<1>4. /\ cli = "executing"
      /\ UNCHANGED <<cli, approved, fault, taken, task, todo, status, rows, log,
                     stored>>
  BY DEF Orchestrate, Executing, storeVars, hubVars
<1>5. Len(sent') \in Nat /\ Len(sent) <= Len(sent')
  BY <1>3
<1> QED BY <1>1, <1>2, <1>3, <1>4, <1>5

\* An event of the command line process itself is of no event.
LEMMA NoteFacts ==
    ASSUME log \in Seq(LogEntry), NEW type \in Noted, Note(type)
    PROVE  /\ log' \in Seq(LogEntry)
           /\ DOMAIN log = 1..Len(log) /\ Len(log) \in Nat
           /\ DOMAIN log' = 1..(Len(log) + 1)
           /\ \A i \in DOMAIN log : log'[i] = log[i]
           /\ log'[Len(log) + 1].of = 0
<1>1. /\ [type |-> type, of |-> 0] \in LogEntry
      /\ [type |-> type, of |-> 0].of = 0
  BY DEF LogEntry
<1>2. log' = Append(log, [type |-> type, of |-> 0])
  BY DEF Note
<1> QED BY <1>1, <1>2, AppendAt

\* An entry of the process' own keeps the type of the log.
LEMMA NoteType ==
    ASSUME RecordTypeOK, NEW type \in Noted, Note(type) \/ UNCHANGED log
    PROVE  /\ log' \in Seq(LogEntry)
           /\ \A i \in DOMAIN log' : log'[i].of <= taken
<1>1. /\ log \in Seq(LogEntry)
      /\ taken \in Nat
      /\ \A i \in DOMAIN log : log[i].of <= taken
  BY DEF RecordTypeOK
<1>2. CASE Note(type)
  <2>1. \A i \in DOMAIN log' : i \in DOMAIN log \/ i = Len(log) + 1
    BY <1>1, <1>2, NoteFacts
  <2> QED BY <1>1, <1>2, <2>1, NoteFacts
<1> QED BY <1>1, <1>2

\* The requests of the command line process leave the events alone.
LEMMA SetStatusType ==
    ASSUME RecordTypeOK, NEW at, NEW new,
           NEW next \in Before \cup After \cup {"exited", "crashed"},
           SetStatus(at, new, next)
    PROVE  RecordTypeOK'
<1>1. /\ UNCHANGED <<approved, sent, taken, task, todo, rows, stored>>
      /\ cli' \in {next, "exited"}
      /\ fault' \in BOOLEAN
      /\ Note("pipeline_status_updated") \/ UNCHANGED log
  BY DEF SetStatus, storeVars, RecordTypeOK
<1>2. /\ log' \in Seq(LogEntry)
      /\ \A i \in DOMAIN log' : log'[i].of <= taken
  BY <1>1, NoteType DEF Noted
<1> QED BY <1>1, <1>2 DEF RecordTypeOK

\* So do its reports.
LEMMA ReportType ==
    ASSUME RecordTypeOK, NEW at, NEW type \in Noted,
           NEW next \in Before \cup After \cup {"exited", "crashed"},
           Report(at, type, next)
    PROVE  RecordTypeOK'
<1>1. /\ UNCHANGED <<approved, sent, taken, task, todo, rows, stored>>
      /\ cli' \in {next, "exited"}
      /\ fault' \in BOOLEAN
      /\ Note(type) \/ UNCHANGED log
  BY DEF Report, storeVars, RecordTypeOK
<1>2. /\ log' \in Seq(LogEntry)
      /\ \A i \in DOMAIN log' : log'[i].of <= taken
  BY <1>1, NoteType
<1> QED BY <1>1, <1>2 DEF RecordTypeOK

\* What one write changes.
LEMMA WriteType ==
    ASSUME NEW w \in Write
    PROVE  /\ w.what \in Made
           /\ w.do \in {"log", "store", "row", "find"}
           /\ w.what = "slots" <=> w.do \in {"row", "find"}
  BY DEF Write

\* What one statement of a request changes at the hub.
LEMMA ExecuteFacts ==
    ASSUME RecordTypeOK, todo # <<>>, taken > 0, Execute(Head(Head(todo)), taken)
    PROVE  /\ taken \in 1..Len(sent) /\ sent[taken] \in SlotEvent
           /\ UNCHANGED status
           /\ rows' = IF /\ Head(Head(todo)).do = "row"
                         /\ RowExists(sent[taken].role)
                      THEN [rows EXCEPT ![sent[taken].role] = sent[taken].status]
                      ELSE rows
           /\ rows' \in [Role -> Status \cup {"absent"}]
           /\ \A r \in Role : rows[r] # "absent" => rows'[r] # "absent"
           /\ log' \in Seq(LogEntry)
           /\ DOMAIN log = 1..Len(log) /\ Len(log) \in Nat
           /\ \A i \in DOMAIN log : i \in DOMAIN log' /\ log'[i] = log[i]
           /\ \/ Head(Head(todo)).do # "log" /\ log' = log
              \/ /\ Head(Head(todo)).do = "log"
                 /\ DOMAIN log' = 1..(Len(log) + 1)
                 /\ log'[Len(log) + 1] =
                       [type |-> Head(Head(todo)).what, of |-> taken]
           /\ stored' = IF Head(Head(todo)).do = "store"
                        THEN stored \cup {<<Head(Head(todo)).what, taken>>}
                        ELSE stored
           /\ stored' \subseteq Made \X (1..taken)
<1> DEFINE w == Head(Head(todo))
           e == sent[taken]
<1>1. taken \in 1..Len(sent) /\ e \in SlotEvent /\ w \in Write
  BY TodoFacts DEF RecordTypeOK
<1>2. w.what \in Made /\ e.role \in Role /\ e.status \in Status
      /\ "absent" \notin Status
  BY <1>1, WriteType DEF SlotEvent, Status, Health
<1>3. /\ rows' = IF w.do = "row" /\ RowExists(e.role)
                 THEN [rows EXCEPT ![e.role] = e.status] ELSE rows
      /\ log' = IF w.do = "log"
                THEN Append(log, [type |-> w.what, of |-> taken]) ELSE log
      /\ stored' = IF w.do = "store"
                   THEN stored \cup {<<w.what, taken>>} ELSE stored
      /\ UNCHANGED status
  BY DEF Execute
<1> HIDE DEF w, e
<1>4. /\ rows' \in [Role -> Status \cup {"absent"}]
      /\ \A r \in Role : rows[r] # "absent" => rows'[r] # "absent"
  BY <1>2, <1>3 DEF RecordTypeOK
<1>5. stored' \subseteq Made \X (1..taken)
  BY <1>1, <1>2, <1>3 DEF RecordTypeOK
<1>6. [type |-> w.what, of |-> taken] \in LogEntry
  BY <1>1, <1>2 DEF LogEntry, RecordTypeOK
<1>7. /\ log' \in Seq(LogEntry)
      /\ DOMAIN log = 1..Len(log) /\ Len(log) \in Nat
      /\ \A i \in DOMAIN log : i \in DOMAIN log' /\ log'[i] = log[i]
      /\ \/ w.do # "log" /\ log' = log
         \/ /\ w.do = "log"
            /\ DOMAIN log' = 1..(Len(log) + 1)
            /\ log'[Len(log) + 1] = [type |-> w.what, of |-> taken]
  <2>1. log \in Seq(LogEntry)
    BY DEF RecordTypeOK
  <2>2. CASE w.do = "log"
    <3>1. log' = Append(log, [type |-> w.what, of |-> taken])
      BY <1>3, <2>2
    <3> QED BY <1>6, <2>1, <2>2, <3>1, AppendAt
  <2>3. CASE w.do # "log"
    BY <1>3, <2>1, <2>3
  <2> QED BY <2>2, <2>3
<1> QED BY <1>1, <1>3, <1>4, <1>5, <1>7 DEF w, e

\* Every step keeps the types.
LEMMA RecordTypeStep ==
    ASSUME RecordTypeOK, IInv, todo # <<>> => taken > 0, [RecordNext]_allVars
    PROVE  RecordTypeOK'
<1>0. /\ sent \in Seq(SlotEvent) /\ Len(sent) \in Nat
      /\ taken \in Nat /\ taken <= Len(sent)
      /\ todo \in Seq(Request)
      /\ \A i \in DOMAIN log : log[i].of <= taken
      /\ log \in Seq(LogEntry)
  BY DEF RecordTypeOK
<1>a. UnderWay \in Seq(Request)
  BY <1>0, TodoFacts DEF UnderWay
<1>1. CASE Orchestrate
  BY <1>1, OrchestrateSends DEF RecordTypeOK
<1>2. CASE Create
  <2>1. /\ UNCHANGED <<approved, sent, taken, task, todo, stored>>
        /\ cli' \in {"set_running", "exited"}
        /\ fault' \in BOOLEAN
        /\ rows' \in [Role -> Status \cup {"absent"}]
        /\ Note("pipeline_created") \/ UNCHANGED log
    BY <1>2 DEF Create, storeVars, Status, RecordTypeOK
  <2>2. /\ log' \in Seq(LogEntry)
        /\ \A i \in DOMAIN log' : log'[i].of <= taken
    BY <2>1, NoteType DEF Noted
  <2> QED BY <2>1, <2>2 DEF Before, RecordTypeOK
<1>3. CASE SetRunning \/ SetSucceeded \/ SetFailed
  <2>1. {"started", "exited"} \subseteq Before \cup After \cup {"exited", "crashed"}
    BY DEF Before
  <2> QED BY <1>3, <2>1, SetStatusType DEF SetRunning, SetSucceeded, SetFailed
<1>4. CASE Started \/ ReportFailed
  <2>1. {"models", "set_failed"} \subseteq Before \cup After \cup {"exited", "crashed"}
    BY DEF Before, After
  <2> QED BY <1>4, <2>1, ReportType DEF Started, ReportFailed, Noted
<1>5. CASE Launch
  <2>1. /\ UNCHANGED <<approved, taken, todo, rows, log, stored>>
        /\ cli' \in After \cup {"exited"}
        /\ fault' \in BOOLEAN
        /\ task' \in {"live", task}
        /\ UNCHANGED sent \/ sent' = sent \o Announcements
    BY <1>5 DEF Launch, hubVars, After, Send, RecordTypeOK
  <2>2. /\ sent' \in Seq(SlotEvent)
        /\ Len(sent') \in Nat /\ Len(sent) <= Len(sent')
    <3>1. CASE UNCHANGED sent
      BY <1>0, <3>1
    <3>2. CASE sent' = sent \o Announcements
      <4>1. Announcements \in Seq(SlotEvent) /\ Len(Announcements) \in Nat
        BY AnnouncementsFacts
      <4>2. sent' \in Seq(SlotEvent) /\ Len(sent') = Len(sent) + Len(Announcements)
        BY <1>0, <3>2, <4>1, Appended
      <4> QED BY <1>0, <4>1, <4>2
    <3> QED BY <2>1, <3>1, <3>2
  <2> QED BY <2>1, <2>2 DEF RecordTypeOK
<1>6. CASE Drain \/ Drained
  BY <1>6 DEF Drain, Drained, storeVars, hubVars, After, RecordTypeOK
<1>7. CASE AbortEvents \/ Crash
  BY <1>7, <1>a DEF AbortEvents, Crash, hubVars, After, RecordTypeOK
<1>8. CASE Receive
  <2>1. /\ taken' = taken + 1 /\ taken < Len(sent)
        /\ todo' = Requests(sent[taken + 1].kind)
        /\ UNCHANGED <<cli, approved, fault, sent, task, rows, log, stored>>
    BY <1>8 DEF Receive, hubVars
  <2>2. sent[taken + 1].kind \in EventKind
    <3>1. sent[taken + 1] \in SlotEvent
      BY <1>0, <2>1
    <3> QED BY <3>1 DEF SlotEvent
  <2>3. todo' \in Seq(Request)
    BY <2>1, <2>2, RequestsFacts
  <2>4. \A i \in DOMAIN log : log[i].of \in Nat
    <3>1. \A i \in DOMAIN log : log[i] \in LogEntry
      BY <1>0
    <3> QED BY <3>1 DEF LogEntry
  <2>5. \A i \in DOMAIN log : log[i].of <= taken + 1
    BY <1>0, <2>4
  <2>6. stored \subseteq Made \X (1..(taken + 1))
    BY <1>0 DEF RecordTypeOK
  <2> QED BY <1>0, <2>1, <2>3, <2>5, <2>6 DEF RecordTypeOK
<1>9. CASE Closed
  BY <1>9 DEF Closed, hubVars, RecordTypeOK
<1>10. CASE Persist
  <2>1. /\ todo # <<>> /\ Execute(Head(Head(todo)), taken)
        /\ UNCHANGED <<cli, approved, fault, sent, taken>>
        /\ task' \in {"error", task}
        /\ todo' \in {<<>>, RestOfRequest}
    BY <1>10 DEF Persist
  <2>2. todo' \in Seq(Request)
    <3>1. RestOfRequest \in Seq(Request)
      <4>1. todo \in Seq(Request) /\ todo # <<>>
        BY <1>0, <2>1
      <4> QED BY <4>1, RestPlaces, Zenon
    <3>2. <<>> \in Seq(Request)
      OBVIOUS
    <3> QED BY <2>1, <3>1, <3>2, Zenon
  <2>3. /\ rows' \in [Role -> Status \cup {"absent"}]
        /\ log' \in Seq(LogEntry)
        /\ stored' \subseteq Made \X (1..taken)
    BY <2>1, ExecuteFacts
  <2>4. \A i \in DOMAIN log' : log'[i].of <= taken
    <3>1. CASE log' = log
      BY <1>0, <3>1
    <3>2. CASE /\ DOMAIN log' = 1..(Len(log) + 1)
               /\ log'[Len(log) + 1] =
                     [type |-> Head(Head(todo)).what, of |-> taken]
      <4>1. \A i \in DOMAIN log' : i \in DOMAIN log \/ i = Len(log) + 1
        BY <1>0, <3>2
      <4>2. \A i \in DOMAIN log : log'[i] = log[i]
        BY <2>1, ExecuteFacts
      <4> QED BY <1>0, <3>2, <4>1, <4>2
    <3> QED BY <2>1, <3>1, <3>2, ExecuteFacts
  <2> QED BY <2>1, <2>2, <2>3, <2>4 DEF RecordTypeOK
<1>11. CASE RequestFails
  BY <1>11, <1>a DEF RequestFails, hubVars, RecordTypeOK
<1>12. CASE DropRequest
  BY <1>12 DEF DropRequest, hubVars, RecordTypeOK
<1>13. CASE UNCHANGED allVars
  BY <1>13 DEF allVars, recordVars, storeVars, hubVars, RecordTypeOK
<1> QED
  BY <1>1, <1>2, <1>3, <1>4, <1>5, <1>6, <1>7, <1>8, <1>9, <1>10, <1>11, <1>12,
     <1>13
     DEF RecordNext, Handle, Store
-----------------------------------------------------------------------------
(***************************************************************************)
(* The stages of the process.                                              *)
(***************************************************************************)

\* Every step keeps the stages.
LEMMA StageStep ==
    ASSUME RecordTypeOK, StageInv, IInv, todo # <<>> => taken > 0,
           [RecordNext]_allVars
    PROVE  StageInv'
<1> USE DEF StageInv, Before, After
<1>1. CASE Orchestrate
  <2>1. /\ UNCHANGED <<cli, approved, fault, taken, task, todo, status, rows>>
        /\ cli = "executing" /\ sent' \in Seq(SlotEvent)
    BY <1>1, OrchestrateSends
  <2>2. Registered' <=> Registered
    BY <2>1 DEF Registered
  <2> QED BY <2>1, <2>2
<1>a. ASSUME ~Orchestrate
      PROVE  UNCHANGED <<slot, main>>
  BY <1>a, OthersLeaveTheRun DEF vars
<1>2. CASE Create
  <2>1. /\ cli = "create" /\ UNCHANGED <<approved, sent, taken, task, todo>>
        /\ status' \in {"pending", "awaiting_approval"}
        /\ cli' \in {"set_running", "exited"}
    BY <1>2 DEF Create, storeVars
  <2>2. ASSUME cli' = "set_running"
        PROVE  approved /\ \A r \in Slot : rows'[RowOf[r]] # "absent"
    <3>1. /\ approved
          /\ rows' = [r \in Role |->
                         IF \E i \in 1..Len(SlotOrder) : RowOf[SlotOrder[i]] = r
                         THEN "assigned" ELSE "absent"]
      BY <1>2, <2>2 DEF Create
    <3>2. \A r \in Slot : \E i \in 1..Len(SlotOrder) : SlotOrder[i] = r
      BY EverySlotInOrder
    <3> QED BY <3>1, <3>2, RowAssumption
  <2> QED BY <1>2, <1>a, <2>1, <2>2 DEF Create, Orchestrate, Executing, Registered
<1>3. CASE SetRunning
  BY <1>3, <1>a DEF SetRunning, SetStatus, storeVars, Orchestrate, Executing, Registered
<1>4. CASE SetSucceeded \/ SetFailed
  <2>1. /\ cli \in {"set_succeeded", "set_failed"} /\ cli' = "exited"
        /\ status' \in {status, "succeeded", "failed"}
        /\ status' = "succeeded" => cli = "set_succeeded"
        /\ UNCHANGED <<approved, sent, taken, task, todo, rows>>
    BY <1>4 DEF SetSucceeded, SetFailed, SetStatus, storeVars
  <2>2. Registered'
    BY <2>1 DEF Registered
  <2> QED BY <1>4, <1>a, <2>1, <2>2 DEF Orchestrate, Executing
<1>5. CASE Started \/ ReportFailed
  <2>1. /\ \/ cli = "started" /\ cli' \in {"models", "exited"}
           \/ cli = "report_failed" /\ cli' \in {"set_failed", "exited"}
        /\ UNCHANGED <<approved, sent, taken, task, todo, status, rows>>
    BY <1>5 DEF Started, ReportFailed, Report, storeVars
  <2>2. Registered'
    BY <2>1 DEF Registered
  <2> QED BY <1>5, <1>a, <2>1, <2>2 DEF Orchestrate, Executing
<1>6. CASE Launch
  <2>1. /\ cli = "models"
        /\ \/ cli' = "executing" /\ task' = "live"
           \/ cli' = "exited" /\ UNCHANGED <<task, sent>>
        /\ UNCHANGED <<approved, taken, todo, status, rows>>
    BY <1>6 DEF Launch, hubVars
  <2>2. Registered'
    BY <2>1 DEF Registered
  <2> QED BY <1>a, <2>1, <2>2 DEF Orchestrate, Executing
<1>7. CASE Drain \/ Drained \/ AbortEvents
  <2>1. /\ \/ /\ cli = "executing" /\ main = "done" /\ cli' = "draining"
              /\ UNCHANGED <<task, todo>>
           \/ /\ cli = "draining" /\ task = "done" /\ cli' = "set_succeeded"
              /\ UNCHANGED <<task, todo>>
           \/ /\ cli = "draining" /\ cli' = "exited"
              /\ UNCHANGED <<task, todo>>
           \/ /\ cli = "executing" /\ main = "failed" /\ cli' = "report_failed"
              /\ task' = IF task = "live" THEN "aborted" ELSE task
              /\ todo' = UnderWay
        /\ UNCHANGED <<approved, sent, taken, status, rows, main, slot>>
    BY <1>7 DEF Drain, Drained, AbortEvents, storeVars, hubVars, Executing, vars
  <2>2. Registered'
    BY <2>1 DEF Registered
  <2>3. todo = <<>> => UnderWay = <<>>
    BY DEF UnderWay
  <2> QED BY <2>1, <2>2, <2>3
<1>8. CASE Crash
  <2>1. /\ cli' = "crashed" /\ cli \notin {"exited", "crashed"}
        /\ task' = IF task = "live" THEN "aborted" ELSE task
        /\ todo' = UnderWay
        /\ UNCHANGED <<approved, sent, taken, status, rows, main, slot>>
    BY <1>8 DEF Crash, hubVars, vars
  <2>2. Registered' <=> Registered
    BY <2>1 DEF Registered
  <2>3. todo = <<>> => UnderWay = <<>>
    BY DEF UnderWay
  <2> QED BY <2>1, <2>2, <2>3
<1>9. CASE Receive \/ Closed \/ RequestFails \/ DropRequest
  <2>1. /\ UNCHANGED <<cli, approved, sent, status, rows, main, slot>>
        /\ task # "unborn" /\ task # "done"
        /\ task' # "unborn"
        /\ task' = "done" => /\ task = "live" /\ todo' = <<>>
                             /\ taken' = Len(sent) /\ cli # "executing"
    BY <1>9 DEF Receive, Closed, RequestFails, DropRequest, storeVars, hubVars, vars,
                Executing
  <2>2. Registered' <=> Registered
    BY <2>1 DEF Registered
  <2> QED BY <2>1, <2>2
<1>10. CASE Persist
  <2>1. /\ todo # <<>> /\ Execute(Head(Head(todo)), taken)
        /\ UNCHANGED <<cli, approved, sent, taken, main, slot>>
        /\ task' \in {"error", task}
    BY <1>10 DEF Persist, vars
  <2>2. /\ UNCHANGED status
        /\ \A r \in Slot : rows[RowOf[r]] # "absent" => rows'[RowOf[r]] # "absent"
    BY <2>1, ExecuteFacts, RowAssumption
  <2>3. Registered => Registered'
    BY <2>1, <2>2 DEF Registered
  <2>4. task # "unborn" /\ task # "done"
    BY <2>1
  <2> QED BY <2>1, <2>2, <2>3, <2>4
<1>11. CASE UNCHANGED allVars
  BY <1>11 DEF allVars, vars, recordVars, storeVars, hubVars, Registered
<1> QED
  BY <1>1, <1>2, <1>3, <1>4, <1>5, <1>6, <1>7, <1>8, <1>9, <1>10, <1>11
     DEF RecordNext, Handle, Store
-----------------------------------------------------------------------------
(***************************************************************************)
(* What is stored.                                                         *)
(***************************************************************************)

\* HeldOf, of a given log and store.
Held(lg, st, n) ==
    {lg[i].type : i \in {j \in DOMAIN lg : lg[j].of = n}}
    \cup {s[1] : s \in {x \in st : x[2] = n}}

\* Held is HeldOf.
LEMMA HeldIsHeld ==
    ASSUME NEW n
    PROVE  HeldOf(n) = Held(log, stored, n) /\ HeldOf(n)' = Held(log', stored', n)
  BY DEF HeldOf, Held

\* Whether the log says x of event n.
Says(lg, n, x) == \E i \in DOMAIN lg : lg[i].of = n /\ lg[i].type = x

\* Every element of st is a pair.
Pairs(st) == \A s \in st : s = <<s[1], s[2]>>

\* The stored rows are pairs.
LEMMA StoredPairs ==
    ASSUME NEW st, NEW m, st \subseteq Made \X (1..m)
    PROVE  Pairs(st)
  BY DEF Pairs

\* Something is held if the log says it or a row does.
LEMMA HeldAt ==
    ASSUME NEW lg, NEW st, Pairs(st), NEW n, NEW x
    PROVE  x \in Held(lg, st, n) <=> Says(lg, n, x) \/ <<x, n>> \in st
<1>1. (\E s \in st : s[2] = n /\ x = s[1]) <=> <<x, n>> \in st
  <2>1. \A s \in st : s = <<s[1], s[2]>>
    BY DEF Pairs
  <2>2. <<x, n>>[1] = x /\ <<x, n>>[2] = n
    OBVIOUS
  <2> QED BY <2>1, <2>2
<1>2. x \in {s[1] : s \in {y \in st : y[2] = n}} <=> \E s \in st : s[2] = n /\ x = s[1]
  OBVIOUS
<1>3. x \in {lg[i].type : i \in {j \in DOMAIN lg : lg[j].of = n}} <=>
         \E i \in DOMAIN lg : lg[i].of = n /\ lg[i].type = x
  OBVIOUS
<1> QED BY <1>1, <1>2, <1>3 DEF Held, Says

\* Of an event that event_task has not received nothing is held.
LEMMA HeldLater ==
    ASSUME RecordTypeOK, NEW n \in Nat, n > taken
    PROVE  HeldOf(n) = {}
<1>1. /\ taken \in Nat
      /\ \A i \in DOMAIN log : log[i] \in LogEntry /\ log[i].of <= taken
      /\ stored \subseteq Made \X (1..taken)
  BY DEF RecordTypeOK
<1>2. \A x : ~Says(log, n, x)
  BY <1>1 DEF LogEntry, Says
<1>3. \A x : <<x, n>> \notin stored
  BY <1>1
<1>4. Pairs(stored)
  BY <1>1, StoredPairs
<1>5. \A x : x \notin Held(log, stored, n)
  BY <1>2, <1>3, <1>4, HeldAt, Zenon
<1> QED BY <1>5, HeldIsHeld

\* An event of the command line process itself changes nothing that is held.
LEMMA NoteHolds ==
    ASSUME RecordTypeOK, NEW type \in Noted, Note(type) \/ UNCHANGED log,
           UNCHANGED stored, NEW n \in Nat, n > 0
    PROVE  HeldOf(n)' = HeldOf(n)
<1>1. log \in Seq(LogEntry) /\ Pairs(stored)
  BY StoredPairs DEF RecordTypeOK
<1>2. CASE Note(type)
  <2>1. /\ DOMAIN log = 1..Len(log) /\ Len(log) \in Nat
        /\ DOMAIN log' = 1..(Len(log) + 1)
        /\ \A i \in DOMAIN log : log'[i] = log[i]
        /\ log'[Len(log) + 1].of = 0
    BY <1>1, <1>2, NoteFacts
  <2>2. \A x : Says(log', n, x) <=> Says(log, n, x)
    BY <2>1 DEF Says
  <2>3. \A x : x \in Held(log', stored, n) <=> x \in Held(log, stored, n)
    BY <1>1, <2>2, HeldAt, Zenon
  <2>4. Held(log', stored, n) = Held(log, stored, n)
    BY <2>3
  <2> QED BY <2>4, HeldIsHeld
<1>3. CASE UNCHANGED log
  BY <1>3, HeldIsHeld
<1> QED BY <1>2, <1>3

\* It says nothing twice.
LEMMA NoteOnce ==
    ASSUME RecordTypeOK, OncePerEvent, NEW type \in Noted,
           Note(type) \/ UNCHANGED log
    PROVE  OncePerEvent'
<1>1. CASE Note(type)
  <2>1. /\ DOMAIN log = 1..Len(log) /\ Len(log) \in Nat
        /\ DOMAIN log' = 1..(Len(log) + 1)
        /\ \A i \in DOMAIN log : log'[i] = log[i]
        /\ log'[Len(log) + 1].of = 0
    BY <1>1, NoteFacts DEF RecordTypeOK
  <2> QED BY <2>1 DEF OncePerEvent
<1>2. CASE UNCHANGED log
  BY <1>2 DEF OncePerEvent
<1> QED BY <1>1, <1>2

\* A write adds what it makes to what is held of its event.
LEMMA ExecuteHolds ==
    ASSUME RecordTypeOK, todo # <<>>, taken > 0, Execute(Head(Head(todo)), taken),
           NEW n \in Nat, NEW x
    PROVE  x \in HeldOf(n)' <=>
              \/ x \in HeldOf(n)
              \/ n = taken /\ x = Head(Head(todo)).what /\ x # "slots"
<1> DEFINE w == Head(Head(todo))
<1>1. w \in Write /\ (w.what = "slots" <=> w.do \in {"row", "find"})
      /\ w.do \in {"log", "store", "row", "find"}
  BY TodoFacts, WriteType DEF RecordTypeOK
<1>2. /\ stored \subseteq Made \X (1..taken) /\ stored' \subseteq Made \X (1..taken)
      /\ DOMAIN log = 1..Len(log) /\ Len(log) \in Nat
      /\ \A i \in DOMAIN log : i \in DOMAIN log' /\ log'[i] = log[i]
      /\ \/ w.do # "log" /\ log' = log
         \/ /\ w.do = "log"
            /\ DOMAIN log' = 1..(Len(log) + 1)
            /\ log'[Len(log) + 1] = [type |-> w.what, of |-> taken]
      /\ stored' = IF w.do = "store" THEN stored \cup {<<w.what, taken>>}
                   ELSE stored
  BY ExecuteFacts DEF RecordTypeOK
<1>a. Pairs(stored) /\ Pairs(stored')
  BY <1>2, StoredPairs, Zenon
<1>3. x \in HeldOf(n) <=> Says(log, n, x) \/ <<x, n>> \in stored
  <2>1. x \in Held(log, stored, n) <=> Says(log, n, x) \/ <<x, n>> \in stored
    BY <1>a, HeldAt, Zenon
  <2>2. HeldOf(n) = Held(log, stored, n)
    BY HeldIsHeld
  <2> QED BY <2>1, <2>2
<1>4. x \in HeldOf(n)' <=> Says(log', n, x) \/ <<x, n>> \in stored'
  <2>1. x \in Held(log', stored', n) <=> Says(log', n, x) \/ <<x, n>> \in stored'
    BY <1>a, HeldAt, Zenon
  <2>2. HeldOf(n)' = Held(log', stored', n)
    BY HeldIsHeld
  <2> QED BY <2>1, <2>2
<1> HIDE DEF w
<1>5. Says(log', n, x) <=> Says(log, n, x) \/ (w.do = "log" /\ n = taken /\ x = w.what)
  <2>1. CASE w.do # "log"
    BY <1>2, <2>1 DEF Says
  <2>2. CASE w.do = "log"
    <3>1. Says(log, n, x) => Says(log', n, x)
      BY <1>2 DEF Says
    <3>2. Says(log', n, x) => Says(log, n, x) \/ (n = taken /\ x = w.what)
      BY <1>2, <2>2 DEF Says
    <3>3. n = taken /\ x = w.what => Says(log', n, x)
      <4>1. Len(log) + 1 \in DOMAIN log'
        BY <1>2, <2>2
      <4> QED BY <1>2, <2>2, <4>1 DEF Says
    <3> QED BY <2>2, <3>1, <3>2, <3>3
  <2> QED BY <2>1, <2>2
<1>6. <<x, n>> \in stored' <=>
         <<x, n>> \in stored \/ (w.do = "store" /\ n = taken /\ x = w.what)
  BY <1>2
<1>7. x \in HeldOf(n)' <=>
         \/ x \in HeldOf(n)
         \/ w.do \in {"log", "store"} /\ n = taken /\ x = w.what
  BY <1>3, <1>4, <1>5, <1>6
<1> QED BY <1>1, <1>7 DEF w

\* A step that stores nothing, and takes no event.
LEMMA StoreKept ==
    ASSUME RecordTypeOK, StoreInv, UNCHANGED taken,
           \A n \in 1..taken : sent'[n] = sent[n] /\ HeldOf(n)' = HeldOf(n),
           Left(todo') \subseteq Left(todo), Distinct(todo'),
           todo' # <<>> => todo # <<>>,
           task' \in {"live", "done"} /\ taken > 0 =>
              task \in {"live", "done"} /\ todo' = todo,
           OncePerEvent'
    PROVE  StoreInv'
<1>0. taken \in Nat
  BY DEF RecordTypeOK
<1>1. \A n \in 1..taken : DueOf(n)' = DueOf(n)
  BY DEF DueOf
<1>2. RecordIsPrefix'
  BY <1>0, <1>1 DEF RecordIsPrefix, StoreInv
<1>3. todo' # <<>> => taken > 0
  BY DEF StoreInv
<1>4. task' \in {"live", "done"} /\ taken > 0 =>
         HeldOf(taken)' \cup Left(todo') = DueOf(taken)'
  BY <1>0, <1>1 DEF StoreInv
<1>5. HeldOf(taken)' \cap Left(todo') = {}
  <2>1. CASE taken > 0
    BY <1>0, <2>1 DEF StoreInv
  <2>2. CASE taken = 0
    <3>1. todo' = <<>>
      BY <1>3, <2>2
    <3>2. \A x : x \notin Left(todo')
      BY <3>1, LeftAt
    <3> QED BY <3>2
  <2> QED BY <1>0, <2>1, <2>2
<1>6. Left(todo') = Left(todo)' /\ (Distinct(todo') <=> Distinct(todo)')
  BY DEF Left, Distinct
<1> QED BY <1>2, <1>3, <1>4, <1>5, <1>6 DEF StoreInv

\* What is left when event_task ends is a part of what was.
LEMMA UnderWayFacts ==
    ASSUME todo \in Seq(Request), Distinct(todo)
    PROVE  /\ Left(UnderWay) \subseteq Left(todo) /\ Distinct(UnderWay)
           /\ Left(<<>>) \subseteq Left(todo) /\ Distinct(<<>>)
<1>1. CASE todo = <<>>
  <2>1. UnderWay = todo
    BY <1>1 DEF UnderWay
  <2> QED BY <1>1, <2>1
<1>2. CASE todo # <<>>
  <2>1. /\ UnderWay = <<todo[1]>> /\ 1 \in DOMAIN todo
    BY <1>2, TodoFacts DEF UnderWay
  <2>2. DOMAIN UnderWay = {1} /\ UnderWay[1] = todo[1]
    BY <2>1
  <2>3. \A x : x \in Left(UnderWay) => x \in Left(todo)
    <3> TAKE x
    <3>1. x \in Left(UnderWay) =>
             x # "slots" /\ \E j \in DOMAIN todo[1] : x = todo[1][j].what
      BY <2>2, LeftAt
    <3> QED BY <2>1, <3>1, LeftAt
  <2>4. Distinct(UnderWay)
    BY <2>1, <2>2 DEF Distinct
  <2>5. \A x : x \notin Left(<<>>)
    BY LeftAt
  <2> QED BY <2>3, <2>4, <2>5 DEF Distinct
<1> QED BY <1>1, <1>2

\* The first write is what the rest of the request does not make.
LEMMA RestFacts ==
    ASSUME todo \in Seq(Request), todo # <<>>, Distinct(todo)
    PROVE  /\ \A x : x \in Left(todo) <=>
                 \/ x \in Left(RestOfRequest)
                 \/ x = Head(Head(todo)).what /\ x # "slots"
           /\ Head(Head(todo)).what \notin Left(RestOfRequest)
           /\ Distinct(RestOfRequest)
<1> DEFINE R == RestOfRequest
           w == Head(Head(todo)).what
<1>1. /\ \A i \in DOMAIN R : \A j \in DOMAIN R[i] :
            /\ i \in Nat /\ j \in Nat
            /\ Row(i) \in DOMAIN todo
            /\ Column(i, j) \in DOMAIN todo[Row(i)]
            /\ R[i][j] = todo[Row(i)][Column(i, j)]
            /\ Row(i) # 1 \/ Column(i, j) # 1
      /\ \A a \in DOMAIN todo : \A b \in DOMAIN todo[a] :
            \/ a = 1 /\ b = 1
            \/ \E i \in DOMAIN R : \E j \in DOMAIN R[i] :
                  a = Row(i) /\ b = Column(i, j)
  BY RestPlaces
<1>2. 1 \in DOMAIN todo /\ 1 \in DOMAIN todo[1] /\ w = todo[1][1].what
  BY TodoFacts
<1> HIDE DEF R, w
<1>3. ASSUME NEW x
      PROVE  x \in Left(todo) <=> x \in Left(R) \/ (x = w /\ x # "slots")
  <2>1. x \in Left(todo) <=>
           /\ x # "slots"
           /\ \E a \in DOMAIN todo : \E b \in DOMAIN todo[a] : x = todo[a][b].what
    BY LeftAt
  <2>2. x \in Left(R) <=>
           x # "slots" /\ \E i \in DOMAIN R : \E j \in DOMAIN R[i] : x = R[i][j].what
    BY LeftAt
  <2>3. (\E a \in DOMAIN todo : \E b \in DOMAIN todo[a] : x = todo[a][b].what) <=>
           \/ x = w
           \/ \E i \in DOMAIN R : \E j \in DOMAIN R[i] : x = R[i][j].what
    BY <1>1, <1>2
  <2> QED BY <2>1, <2>2, <2>3
<1>4. w \notin Left(R)
  <2>1. ASSUME NEW i \in DOMAIN R, NEW j \in DOMAIN R[i], w = R[i][j].what, w # "slots"
        PROVE  FALSE
    <3>1. todo[1][1].what = todo[Row(i)][Column(i, j)].what
      BY <1>1, <1>2, <2>1
    <3>2. Row(i) = 1 /\ Column(i, j) = 1
      BY <1>1, <1>2, <2>1, <3>1 DEF Distinct
    <3> QED BY <1>1, <3>2
  <2> QED BY <2>1, LeftAt
<1>5. Distinct(R)
  <2>1. SUFFICES ASSUME NEW i \in DOMAIN R, NEW k \in DOMAIN R,
                        NEW j \in DOMAIN R[i], NEW l \in DOMAIN R[k],
                        R[i][j].what = R[k][l].what, R[i][j].what # "slots"
                 PROVE  i = k /\ j = l
    BY DEF Distinct
  <2>2. Row(i) = Row(k) /\ Column(i, j) = Column(k, l)
    BY <1>1, <2>1 DEF Distinct
  <2>3. i \in Nat /\ k \in Nat /\ j \in Nat /\ l \in Nat
    BY <1>1
  <2> QED BY <2>2, <2>3 DEF Row, Column
<1> QED BY <1>3, <1>4, <1>5 DEF R, w

\* A write that is made is held, and no longer left.
LEMMA PersistStep ==
    ASSUME RecordTypeOK, StoreInv, Persist, task = "done" => todo = <<>>
    PROVE  StoreInv'
<1> DEFINE w == Head(Head(todo))
<1>0. /\ todo \in Seq(Request) /\ taken \in Nat /\ Distinct(todo)
      /\ todo # <<>> /\ taken > 0 /\ Execute(w, taken)
      /\ UNCHANGED <<sent, taken>>
      /\ taken \in 1..Len(sent)
  BY DEF RecordTypeOK, StoreInv, Persist
<1>1. \/ task' = task /\ todo' = RestOfRequest
      \/ todo' = <<>> /\ task' \notin {"live", "done"}
  BY <1>0 DEF Persist, RecordTypeOK
<1>2. \A n \in Nat : \A x :
          x \in HeldOf(n)' <=> x \in HeldOf(n) \/ (n = taken /\ x = w.what /\ x # "slots")
  BY <1>0, ExecuteHolds
<1>3. \A n \in 1..taken : DueOf(n)' = DueOf(n)
  BY <1>0 DEF DueOf
<1>4. /\ \A x : x \in Left(todo) <=>
                   x \in Left(RestOfRequest) \/ (x = w.what /\ x # "slots")
      /\ w.what \notin Left(RestOfRequest)
      /\ Distinct(RestOfRequest)
  BY <1>0, RestFacts
<1>5. \A x : x \notin Left(<<>>)
  BY LeftAt
<1> HIDE DEF w
<1>6. RecordIsPrefix'
  <2>1. \A n \in 1..taken : n < taken => HeldOf(n)' = DueOf(n)'
    <3> TAKE n \in 1..taken
    <3> HAVE n < taken
    <3>1. \A x : x \in HeldOf(n)' <=> x \in HeldOf(n)
      BY <1>0, <1>2
    <3>2. HeldOf(n)' = HeldOf(n)
      BY <3>1
    <3> QED BY <1>0, <1>3, <3>2 DEF StoreInv, RecordIsPrefix
  <2> QED BY <1>0, <2>1 DEF RecordIsPrefix
<1>7. /\ \A x : x \in HeldOf(taken)' <=>
                   x \in HeldOf(taken) \/ (x = w.what /\ x # "slots")
      /\ DueOf(taken)' = DueOf(taken)
  BY <1>0, <1>2, <1>3
<1>8. task' \in {"live", "done"} =>
         HeldOf(taken)' \cup Left(todo') = DueOf(taken)'
  <2>1. SUFFICES ASSUME task' \in {"live", "done"}
                 PROVE  HeldOf(taken)' \cup Left(todo') = DueOf(taken)'
    OBVIOUS
  <2>2. todo' = RestOfRequest /\ task \in {"live", "done"}
    BY <1>1, <2>1
  <2>3. HeldOf(taken) \cup Left(todo) = DueOf(taken)
    BY <1>0, <2>2 DEF StoreInv
  <2>4. \A x : x \in HeldOf(taken)' \/ x \in Left(RestOfRequest) <=>
               x \in HeldOf(taken) \/ x \in Left(todo)
    BY <1>4, <1>7
  <2>5. HeldOf(taken)' \cup Left(RestOfRequest) = HeldOf(taken) \cup Left(todo)
    BY <2>4
  <2> QED BY <1>7, <2>2, <2>3, <2>5
<1>9. HeldOf(taken)' \cap Left(todo') = {}
  <2>1. CASE todo' = <<>>
    BY <1>5, <2>1
  <2>2. CASE todo' = RestOfRequest
    <3>1. \A x : x \in Left(todo) => x \notin HeldOf(taken)
      BY DEF StoreInv
    <3>2. \A x : x \in Left(RestOfRequest) => x \notin HeldOf(taken)'
      BY <1>4, <1>7, <3>1
    <3> QED BY <2>2, <3>2
  <2> QED BY <1>1, <2>1, <2>2
<1>10. Distinct(todo')
  BY <1>0, <1>1, <1>4, UnderWayFacts
<1>11. OncePerEvent'
  <2>1. /\ DOMAIN log = 1..Len(log) /\ Len(log) \in Nat
        /\ \A i \in DOMAIN log : i \in DOMAIN log' /\ log'[i] = log[i]
        /\ \/ w.do # "log" /\ log' = log
           \/ /\ w.do = "log"
              /\ DOMAIN log' = 1..(Len(log) + 1)
              /\ log'[Len(log) + 1] = [type |-> w.what, of |-> taken]
    BY <1>0, ExecuteFacts DEF w
  <2>2. CASE log' = log
    BY <2>2 DEF StoreInv, OncePerEvent
  <2>3. CASE /\ w.do = "log"
             /\ DOMAIN log' = 1..(Len(log) + 1)
             /\ log'[Len(log) + 1] = [type |-> w.what, of |-> taken]
    <3>1. w \in Write
      BY <1>0, TodoFacts DEF w
    <3>2. w.what # "slots"
      BY <2>3, <3>1, WriteType
    <3>3. w.what \notin HeldOf(taken)
      BY <1>4, <3>2 DEF StoreInv
    <3>4. ~Says(log, taken, w.what)
      <4>1. Pairs(stored)
        BY StoredPairs DEF RecordTypeOK
      <4>2. HeldOf(taken) = Held(log, stored, taken)
        BY HeldIsHeld
      <4>3. w.what \in Held(log, stored, taken) <=>
               Says(log, taken, w.what) \/ <<w.what, taken>> \in stored
        BY <4>1, HeldAt, Zenon
      <4> QED BY <3>3, <4>2, <4>3
    <3>5. \A i \in DOMAIN log : ~(log[i].of = taken /\ log[i].type = w.what)
      BY <3>4 DEF Says
    <3>6. \A i \in DOMAIN log' : i \in DOMAIN log \/ i = Len(log) + 1
      BY <2>1, <2>3
    <3> QED BY <2>1, <2>3, <3>5, <3>6 DEF StoreInv, OncePerEvent
  <2> QED BY <2>1, <2>2, <2>3
<1>12. Left(todo') = Left(todo)' /\ (Distinct(todo') <=> Distinct(todo)')
  BY DEF Left, Distinct
<1> QED
  BY <1>0, <1>6, <1>8, <1>9, <1>10, <1>11, <1>12 DEF StoreInv

\* An event that is taken has all its requests before it.
LEMMA ReceiveStep ==
    ASSUME RecordTypeOK, StoreInv, Receive
    PROVE  StoreInv'
<1>0. /\ taken \in Nat /\ Len(sent) \in Nat /\ taken < Len(sent)
      /\ taken' = taken + 1
      /\ todo = <<>> /\ task = "live" /\ task' = "live"
      /\ todo' = Requests(sent[taken + 1].kind)
      /\ UNCHANGED <<sent, log, stored>>
  BY DEF Receive, RecordTypeOK, hubVars
<1>1. \A n : HeldOf(n)' = HeldOf(n) /\ DueOf(n)' = DueOf(n)
  BY <1>0 DEF HeldOf, DueOf
<1>2. sent[taken + 1].kind \in EventKind
  <2>1. sent[taken + 1] \in SlotEvent
    BY <1>0 DEF RecordTypeOK
  <2> QED BY <2>1 DEF SlotEvent
<1>3. DueOf(taken + 1) = Left(todo') /\ Distinct(todo')
  BY <1>0, <1>2, RequestsFacts DEF DueOf, Left
<1>4. HeldOf(taken + 1) = {}
  BY <1>0, HeldLater
<1>5. RecordIsPrefix'
  <2>1. \A n \in 1..taken : HeldOf(n) = DueOf(n)
    <3> TAKE n \in 1..taken
    <3>1. CASE n < taken
      BY <3>1 DEF StoreInv, RecordIsPrefix
    <3>2. CASE n = taken
      <4>1. HeldOf(taken) \cup Left(todo) = DueOf(taken)
        BY <1>0, <3>2 DEF StoreInv
      <4>2. \A x : x \notin Left(<<>>)
        BY LeftAt
      <4> QED BY <1>0, <3>2, <4>1, <4>2
    <3> QED BY <1>0, <3>1, <3>2
  <2> QED BY <1>0, <1>1, <2>1 DEF RecordIsPrefix
<1>6. Left(todo') = Left(todo)' /\ (Distinct(todo') <=> Distinct(todo)')
  BY DEF Left, Distinct
<1>7. OncePerEvent'
  BY <1>0 DEF StoreInv, OncePerEvent
<1>8. HeldOf(taken)' = {} /\ DueOf(taken)' = Left(todo')
  BY <1>0, <1>1, <1>3, <1>4
<1> QED BY <1>0, <1>3, <1>5, <1>6, <1>7, <1>8 DEF StoreInv

\* Every step keeps what is held and what is left together.
LEMMA StoreStep ==
    ASSUME RecordTypeOK, StageInv, StoreInv, IInv, [RecordNext]_allVars
    PROVE  StoreInv'
<1>0. /\ todo \in Seq(Request) /\ taken \in 0..Len(sent) /\ Len(sent) \in Nat
      /\ Distinct(todo) /\ OncePerEvent
      /\ task = "unborn" => taken = 0 /\ todo = <<>>
      /\ task = "done" => todo = <<>>
  BY DEF RecordTypeOK, StoreInv, StageInv
<1>a. ASSUME UNCHANGED <<taken, todo, log, stored>>,
             \A n \in 1..taken : sent'[n] = sent[n],
             task' \in {"live", "done"} /\ taken > 0 => task \in {"live", "done"}
      PROVE  StoreInv'
  <2>1. \A n : HeldOf(n)' = HeldOf(n)
    BY <1>a DEF HeldOf
  <2>2. OncePerEvent'
    BY <1>0, <1>a DEF OncePerEvent
  <2> QED BY <1>0, <1>a, <2>1, <2>2, StoreKept
<1>b. ASSUME NEW type \in Noted, Note(type) \/ UNCHANGED log,
             UNCHANGED <<sent, taken, task, todo, stored>>
      PROVE  StoreInv'
  <2>1. \A n \in 1..taken : HeldOf(n)' = HeldOf(n)
    BY <1>0, <1>b, NoteHolds
  <2>2. OncePerEvent'
    BY <1>0, <1>b, NoteOnce
  <2> QED BY <1>0, <1>b, <2>1, <2>2, StoreKept
<1>c. ASSUME todo' \in {UnderWay, <<>>}, UNCHANGED <<sent, taken, log, stored>>,
             task' \in {"live", "done"} => task = "done"
      PROVE  StoreInv'
  <2>1. \A n : HeldOf(n)' = HeldOf(n)
    BY <1>c DEF HeldOf
  <2>2. OncePerEvent'
    BY <1>0, <1>c DEF OncePerEvent
  <2>3. todo = <<>> => todo' = <<>>
    BY <1>c DEF UnderWay
  <2>4. Left(todo') \subseteq Left(todo) /\ Distinct(todo')
    BY <1>0, <1>c, UnderWayFacts
  <2> QED BY <1>0, <1>c, <2>1, <2>2, <2>3, <2>4, StoreKept
<1>1. CASE Orchestrate
  <2>1. /\ UNCHANGED <<taken, task, todo, log, stored>>
        /\ \A n \in 1..Len(sent) : sent'[n] = sent[n]
    BY <1>1, OrchestrateSends
  <2> QED BY <1>0, <1>a, <2>1
<1>2. CASE Create \/ SetRunning \/ SetSucceeded \/ SetFailed \/ Started \/ ReportFailed
  <2>1. UNCHANGED <<sent, taken, task, todo, stored>>
    BY <1>2 DEF Create, SetRunning, SetSucceeded, SetFailed, Started, ReportFailed,
                SetStatus, Report, storeVars
  <2>2. \E type \in Noted : Note(type) \/ UNCHANGED log
    BY <1>2 DEF Create, SetRunning, SetSucceeded, SetFailed, Started, ReportFailed,
                SetStatus, Report, Noted
  <2> QED BY <1>b, <2>1, <2>2
<1>3. CASE Launch
  <2>1. /\ cli = "models" /\ UNCHANGED <<taken, todo, log, stored>>
    BY <1>3 DEF Launch, hubVars
  <2>2. taken = 0
    BY <1>0, <2>1 DEF StageInv, Before
  <2> QED BY <1>a, <2>1, <2>2
<1>4. CASE Drain \/ Drained
  BY <1>4, <1>a DEF Drain, Drained, storeVars, hubVars
<1>5. CASE AbortEvents \/ Crash \/ RequestFails \/ DropRequest
  <2>1. /\ todo' \in {UnderWay, <<>>}
        /\ UNCHANGED <<sent, taken, log, stored>>
        /\ task' \in {"live", "done"} => task = "done"
    BY <1>5 DEF AbortEvents, Crash, RequestFails, DropRequest, hubVars
  <2> QED BY <1>c, <2>1
<1>6. CASE Receive
  BY <1>6, ReceiveStep
<1>7. CASE Closed
  BY <1>7, <1>a DEF Closed, hubVars
<1>8. CASE Persist
  BY <1>0, <1>8, PersistStep
<1>9. CASE UNCHANGED allVars
  BY <1>9, <1>a DEF allVars, recordVars, storeVars, hubVars
<1> QED
  BY <1>1, <1>2, <1>3, <1>4, <1>5, <1>6, <1>7, <1>8, <1>9
     DEF RecordNext, Handle, Store
-----------------------------------------------------------------------------
(***************************************************************************)
(* How a run ends.                                                         *)
(***************************************************************************)

\* An action whose role has no slot fails when it asks for its runtime.
LEMMA SlotlessStep ==
    ASSUME IInv, SlotlessStops, [Next]_vars
    PROVE  SlotlessStops' /\ (Slotless => Slotless')
<1> DEFINE Waiting == {"unspawned", "spawned", "skipped"}
<1>0. /\ pc \in [Task -> Place]
      /\ TableInv /\ LoopInv
  BY DEF IInv, TypeOK
<1>1. SUFFICES ASSUME NEW t \in Task, RoleOf[t] \notin Slot
               PROVE  /\ pc'[t] \in Waiting \cup Stopped
                      /\ pc[t] \in Stopped => pc'[t] \in Stopped
  BY DEF SlotlessStops, Slotless
<1>2. pc[t] \in Waiting \cup Stopped
  BY <1>1 DEF SlotlessStops
<1>3. override[t] = NoRuntime /\ assignments[RoleOf[t]] = <<>>
  <2>1. PICK p \in Profile : assignments = Ranking[p]
    BY <1>0 DEF TableInv
  <2>2. RoleOf[t] \in Role \ Slot
    BY <1>1, WorkflowAssumption
  <2> QED BY <1>0, <1>1, <2>1, <2>2, RankingType DEF TableInv
<1>4. CASE pc' = pc
  BY <1>2, <1>4
<1>5. ASSUME NEW u \in Task, ActionStep(u)
      PROVE  /\ pc'[t] \in Waiting \cup Stopped
             /\ pc[t] \in Stopped => pc'[t] \in Stopped
  <2>1. CASE u # t
    <3>1. pc'[t] = pc[t]
      BY <1>0, <1>5, <2>1
         DEF ActionStep, Begin, ChooseRuntime, RuntimeError, RuntimeExit,
             SimulateMerge, ResolveConflict, AttemptReturns, Fallback, Timeout
    <3> QED BY <1>2, <3>1
  <2>2. CASE u = t
    <3>1. Begin(t) \/ ChooseRuntime(t) \/ Timeout(t)
      BY <1>2, <1>5, <2>2
         DEF ActionStep, RuntimeError, RuntimeExit, SimulateMerge,
             ResolveConflict, Fallback, Stopped
    <3>2. pc'[t] \in Stopped
      BY <1>0, <1>3, <3>1 DEF Begin, ChooseRuntime, Timeout, Stopped
    <3> QED BY <3>2
  <2> QED BY <2>1, <2>2
<1>6. CASE PassOver
  <2>1. StepOf[t] = step => pc[t] = "unspawned"
    BY <1>0, <1>6 DEF LoopInv, PassOver, ActionsOf
  <2>2. pc'[t] = IF StepOf[t] = step THEN "skipped" ELSE pc[t]
    BY <1>6 DEF PassOver
  <2> QED BY <1>2, <2>1, <2>2 DEF Stopped
<1>7. ASSUME NEW u \in Task, Spawn(u)
      PROVE  /\ pc'[t] \in Waiting \cup Stopped
             /\ pc[t] \in Stopped => pc'[t] \in Stopped
  BY <1>0, <1>2, <1>7 DEF Spawn, Unspawned, Stopped
<1>8. CASE DeadlineExceeded \/ \E u \in Task : JoinError(u)
  BY <1>2, <1>8 DEF DeadlineExceeded, JoinError, Abandon, Stopped
<1>9. ASSUME NEW u \in Task, Join(u) \/ Refresh(u)
      PROVE  /\ pc'[t] \in Waiting \cup Stopped
             /\ pc[t] \in Stopped => pc'[t] \in Stopped
  <2>1. pc[u] \in {"ok", "joining"}
    BY <1>9 DEF Join, Refresh
  <2>2. u # t
    BY <1>2, <2>1 DEF Stopped
  <2>3. pc'[t] = pc[t]
    BY <1>0, <1>9, <2>2 DEF Join, Refresh
  <2> QED BY <1>2, <2>3
<1>10. BeginStep \/ EndStep \/ Finish \/ DeadlinePasses \/ UNCHANGED vars => pc' = pc
  BY DEF BeginStep, EndStep, Finish, DeadlinePasses, vars
<1> QED
  BY <1>4, <1>5, <1>6, <1>7, <1>8, <1>9, <1>10 DEF Next, LoopStep

\* A run that succeeds had a slot for every action.
LEMMA DoneHasSlots ==
    ASSUME IInv, main = "done"
    PROVE  ~Slotless
<1>1. Finished = Task
  BY DEF IInv, OneResultEach
<1> QED BY <1>1 DEF Finished, Slotless, Stopped


\* A step that takes no event keeps all but how the process ends.
LEMMA ExitKept ==
    ASSUME RecordTypeOK, IInv, ExitInv, todo # <<>> => taken > 0, [Next]_vars,
           UNCHANGED taken,
           sent' \in Seq(SlotEvent), Len(sent) <= Len(sent'),
           \A n \in 1..Len(sent) : sent'[n] = sent[n],
           \A n \in (Len(sent) + 1)..Len(sent') :
              sent'[n].kind = "slot" => sent'[n].role \in Slot \/ Slotless',
           todo' \in {todo, UnderWay, <<>>},
           task' = "error" => task = "error" \/ fault' \/ Slotless,
           fault => fault',
           cli' = "exited" /\ approved' /\ ~fault' =>
              \/ main' = "done" /\ status' = "succeeded"
              \/ main' = "failed" /\ status' = "failed"
    PROVE  ExitInv'
<1>0. /\ SlotlessStops /\ OfSlots(todo, sent[taken])
      /\ \A n \in DOMAIN sent :
            sent[n].kind = "slot" => sent[n].role \in Slot \/ Slotless
      /\ task = "error" => fault \/ Slotless
  BY DEF ExitInv
<1>1. SlotlessStops' /\ (Slotless => Slotless')
  BY <1>0, SlotlessStep
<1>2. /\ Len(sent) \in Nat /\ Len(sent') \in Nat
      /\ DOMAIN sent = 1..Len(sent) /\ DOMAIN sent' = 1..Len(sent')
      /\ taken \in 0..Len(sent) /\ todo \in Seq(Request)
  BY DEF RecordTypeOK
<1>3. ASSUME NEW n \in DOMAIN sent', sent'[n].kind = "slot"
      PROVE  sent'[n].role \in Slot \/ Slotless'
  <2>1. CASE n \in 1..Len(sent)
    BY <1>0, <1>1, <1>2, <1>3, <2>1
  <2>2. CASE n \in (Len(sent) + 1)..Len(sent')
    BY <1>3, <2>2
  <2> QED BY <1>2, <2>1, <2>2
<1>4. OfSlots(todo', sent'[taken'])
  <2>1. CASE todo' = <<>>
    BY <2>1 DEF OfSlots
  <2>2. CASE todo' = todo /\ todo # <<>>
    <3>1. sent'[taken'] = sent[taken]
      BY <1>2, <2>2
    <3> QED BY <1>0, <2>2, <3>1
  <2>3. CASE todo' = UnderWay /\ todo # <<>>
    <3>1. sent'[taken'] = sent[taken]
      BY <1>2, <2>3
    <3>2. UnderWay = <<todo[1]>> /\ 1 \in DOMAIN todo
      BY <1>2, <2>3, TodoFacts DEF UnderWay
    <3>3. OfSlots(UnderWay, sent[taken])
      BY <1>0, <3>2 DEF OfSlots
    <3> QED BY <2>3, <3>1, <3>3
  <2>4. todo = <<>> => UnderWay = <<>>
    BY DEF UnderWay
  <2> QED BY <2>1, <2>2, <2>3, <2>4
<1>5. OfSlots(todo', sent'[taken']) <=> OfSlots(todo, sent[taken])'
  BY DEF OfSlots
<1> QED BY <1>0, <1>1, <1>3, <1>4, <1>5 DEF ExitInv

\* Every step keeps the ways a run can end.
LEMMA ExitStep ==
    ASSUME RowsByRole, RecordTypeOK, StageInv, ExitInv, IInv,
           todo # <<>> => taken > 0, [RecordNext]_allVars
    PROVE  ExitInv'
<1>0. /\ sent \in Seq(SlotEvent) /\ Len(sent) \in Nat
      /\ DOMAIN sent = 1..Len(sent) /\ taken \in 0..Len(sent)
      /\ todo \in Seq(Request)
      /\ [Next]_vars
      /\ cli = "exited" /\ approved /\ ~fault =>
            \/ main = "done" /\ status = "succeeded"
            \/ main = "failed" /\ status = "failed"
      /\ task = "error" => fault \/ Slotless
  BY RecordStepIsRunStep DEF RecordTypeOK, ExitInv
<1>a. ASSUME UNCHANGED <<taken, sent>>,
             todo' \in {todo, UnderWay, <<>>},
             task' = "error" => task = "error" \/ fault',
             fault => fault',
             cli' = "exited" /\ approved' /\ ~fault' =>
                \/ main' = "done" /\ status' = "succeeded"
                \/ main' = "failed" /\ status' = "failed"
      PROVE  ExitInv'
  <2>1. /\ sent' \in Seq(SlotEvent) /\ Len(sent) <= Len(sent')
        /\ \A n \in 1..Len(sent) : sent'[n] = sent[n]
        /\ \A n \in (Len(sent) + 1)..Len(sent') : FALSE
    BY <1>0, <1>a
  <2> QED BY <1>0, <1>a, <2>1, ExitKept
<1>b. ASSUME NEW new, sent' = sent \o new, new \in Seq(SlotEvent),
             \A n \in DOMAIN new :
                new[n].kind = "slot" => new[n].role \in Slot \/ Slotless',
             UNCHANGED <<taken, todo>>, fault' = fault,
             task' = "error" => task = "error",
             cli' # "exited"
      PROVE  ExitInv'
  <2>1. /\ sent' \in Seq(SlotEvent) /\ Len(sent') = Len(sent) + Len(new)
        /\ Len(new) \in Nat /\ DOMAIN new = 1..Len(new)
        /\ \A n \in 1..Len(sent) : sent'[n] = sent[n]
        /\ \A n \in (Len(sent) + 1)..(Len(sent) + Len(new)) :
              sent'[n] = new[n - Len(sent)]
    BY <1>0, <1>b, Appended
  <2>2. \A n \in (Len(sent) + 1)..Len(sent') :
           sent'[n].kind = "slot" => sent'[n].role \in Slot \/ Slotless'
    <3> TAKE n \in (Len(sent) + 1)..Len(sent')
    <3>1. n - Len(sent) \in DOMAIN new /\ sent'[n] = new[n - Len(sent)]
      BY <1>0, <2>1
    <3> QED BY <1>b, <3>1
  <2>3. Len(sent) <= Len(sent')
    BY <1>0, <2>1
  <2> QED BY <1>0, <1>b, <2>1, <2>2, <2>3, ExitKept
<1>1. CASE Orchestrate
  <2>1. /\ UNCHANGED <<cli, approved, fault, taken, task, todo, status>>
        /\ cli = "executing"
    BY <1>1, OrchestrateSends
  <2>2. PICK new : sent' = sent \o new /\ Telling(new)
    BY <1>1, OrchestrateSends
  <2>3. new \in Seq(SlotEvent)
    BY <2>2 DEF Telling
  <2>4. \A n \in DOMAIN new :
           new[n].kind = "slot" => new[n].role \in Slot \/ Slotless'
    <3> SUFFICES ASSUME NEW n \in DOMAIN new, new[n].kind = "slot",
                        new[n].role \notin Slot
                 PROVE  Slotless'
      OBVIOUS
    <3>1. PICK t \in Task : RoleOf[t] = new[n].role /\ pc'[t] = "lock"
      BY <2>2 DEF Telling
    <3> QED BY <3>1 DEF Slotless, Stopped
  <2> QED BY <1>b, <2>1, <2>2, <2>3, <2>4
<1>2. CASE Create \/ SetRunning \/ Started \/ ReportFailed
  BY <1>0, <1>2, <1>a
     DEF Create, SetRunning, Started, ReportFailed, SetStatus, Report, storeVars
<1>3. CASE SetSucceeded \/ SetFailed
  <2>1. main = IF SetSucceeded THEN "done" ELSE "failed"
    BY <1>3 DEF SetSucceeded, SetFailed, SetStatus, StageInv
  <2> QED BY <1>0, <1>3, <1>a, <2>1
          DEF SetSucceeded, SetFailed, SetStatus, storeVars, vars
<1>4. CASE Launch
  <2>1. /\ UNCHANGED <<approved, taken, todo, status>>
        /\ task = "unborn"
        /\ \/ /\ cli' = "executing" /\ task' = "live" /\ fault' = fault
              /\ sent' = sent \o Announcements
           \/ /\ cli' = "exited" /\ fault' /\ UNCHANGED <<task, sent>>
    BY <1>4 DEF Launch, Send, hubVars, StageInv, Before
  <2>2. /\ Announcements \in Seq(SlotEvent)
        /\ \A i \in DOMAIN Announcements : Announcements[i].role \in Slot
    BY AnnouncementsFacts
  <2>3. CASE cli' = "executing"
    BY <1>b, <2>1, <2>2, <2>3
  <2>4. CASE cli' = "exited"
    BY <1>a, <2>1, <2>4
  <2> QED BY <2>1, <2>3, <2>4
<1>5. CASE Drain
  BY <1>0, <1>5, <1>a DEF Drain, storeVars, hubVars
<1>6. CASE Drained
  <2>1. /\ main = "done" /\ task \in {"done", "error"}
        /\ cli' = IF task = "done" THEN "set_succeeded" ELSE "exited"
        /\ UNCHANGED <<approved, fault, sent, taken, task, todo, status>>
    BY <1>6 DEF Drained, StageInv, storeVars, hubVars
  <2>2. task = "error" => fault
    BY <1>0, <2>1, DoneHasSlots
  <2> QED BY <1>0, <1>a, <2>1, <2>2
<1>7. CASE AbortEvents \/ Crash \/ RequestFails \/ DropRequest
  <2>1. UNCHANGED main
    BY <1>7 DEF AbortEvents, Crash, RequestFails, DropRequest, vars
  <2> QED BY <1>0, <1>7, <1>a, <2>1
          DEF AbortEvents, Crash, RequestFails, DropRequest, hubVars
<1>8. CASE Receive
  <2>1. /\ taken' = taken + 1 /\ taken < Len(sent)
        /\ todo' = Requests(sent[taken + 1].kind)
        /\ task = "live"
        /\ UNCHANGED <<vars, cli, approved, fault, sent, task, status>>
    BY <1>8 DEF Receive, hubVars
  <2>2. sent[taken + 1].kind \in EventKind
    <3>1. sent[taken + 1] \in SlotEvent
      BY <1>0, <2>1
    <3> QED BY <3>1 DEF SlotEvent
  <2>3. OfSlots(todo', sent'[taken'])
    BY <2>1, <2>2, RequestsFacts DEF OfSlots
  <2>4. OfSlots(todo, sent[taken])' <=> OfSlots(todo', sent'[taken'])
    BY DEF OfSlots
  <2>5. /\ SlotlessStops' <=> SlotlessStops
        /\ Slotless' <=> Slotless
    BY <2>1 DEF vars, SlotlessStops, Slotless
  <2>6. UNCHANGED main
    BY <2>1 DEF vars
  <2> QED BY <2>1, <2>3, <2>4, <2>5, <2>6 DEF ExitInv
<1>9. CASE Closed
  <2>1. UNCHANGED main
    BY <1>9 DEF Closed, vars
  <2> QED BY <1>0, <1>9, <1>a, <2>1 DEF Closed, hubVars
<1>10. CASE Persist
  <2> DEFINE w == Head(Head(todo))
             e == sent[taken]
  <2>1. /\ todo # <<>> /\ Execute(w, taken)
        /\ UNCHANGED <<vars, cli, approved, fault, sent, taken>>
        /\ task' = "error" =>
              \/ task = "error"
              \/ w.do = "find" /\ ~RowExists(e.role)
        /\ todo' \in {<<>>, RestOfRequest}
    BY <1>10 DEF Persist
  <2>2. /\ taken \in 1..Len(sent) /\ e \in SlotEvent /\ UNCHANGED status
        /\ w = todo[1][1] /\ 1 \in DOMAIN todo /\ 1 \in DOMAIN todo[1]
    BY <1>0, <2>1, ExecuteFacts, TodoFacts
  <2> HIDE DEF w
  <2>3. /\ SlotlessStops /\ OfSlots(todo, e)
        /\ \A n \in DOMAIN sent :
              sent[n].kind = "slot" => sent[n].role \in Slot \/ Slotless
    BY DEF ExitInv
  <2>4. task' = "error" => fault \/ Slotless
    <3> SUFFICES ASSUME w.do = "find", ~RowExists(e.role)
                 PROVE  Slotless
      BY <1>0, <2>1
    <3>1. e.kind = "slot"
      BY <2>2, <2>3 DEF OfSlots
    <3>2. e.role \notin Slot
      <4>1. sent # <<>>
        BY <1>0, <2>2
      <4>2. Registered
        BY <4>1 DEF StageInv
      <4> QED BY <4>2 DEF Registered, RowsByRole, RowExists
    <3> QED BY <1>0, <2>2, <2>3, <3>1, <3>2
  <2>5. OfSlots(RestOfRequest, e)
    <3> SUFFICES ASSUME NEW i \in DOMAIN RestOfRequest,
                        NEW j \in DOMAIN RestOfRequest[i],
                        RestOfRequest[i][j].do \in {"row", "find"}
                 PROVE  e.kind = "slot"
      BY DEF OfSlots
    <3>1. /\ Row(i) \in DOMAIN todo
          /\ Column(i, j) \in DOMAIN todo[Row(i)]
          /\ RestOfRequest[i][j] = todo[Row(i)][Column(i, j)]
      BY <1>0, <2>1, RestPlaces
    <3> QED BY <2>3, <3>1 DEF OfSlots
  <2>6. OfSlots(todo', e)
    BY <2>1, <2>5 DEF OfSlots
  <2>7. OfSlots(todo, sent[taken])' <=> OfSlots(todo', e)
    BY <2>1 DEF OfSlots
  <2>8. /\ SlotlessStops' <=> SlotlessStops
        /\ Slotless' <=> Slotless
        /\ UNCHANGED main
    BY <2>1 DEF vars, SlotlessStops, Slotless
  <2> QED BY <1>0, <2>1, <2>2, <2>3, <2>4, <2>6, <2>7, <2>8 DEF ExitInv
<1>11. CASE UNCHANGED allVars
  BY <1>0, <1>11, <1>a DEF allVars, vars, recordVars, storeVars, hubVars
<1> QED
  BY <1>1, <1>2, <1>3, <1>4, <1>5, <1>6, <1>7, <1>8, <1>9, <1>10, <1>11
     DEF RecordNext, Handle, Store
-----------------------------------------------------------------------------
(***************************************************************************)
(* The rows of the slots.                                                  *)
(***************************************************************************)

\* After more events were sent, the last ones have the status of the slots.
LEMMA LatestAppended ==
    ASSUME sent \in Seq(SlotEvent), NEW new \in Seq(SlotEvent),
           sent' = sent \o new,
           \A r \in Slot :
              \/ /\ slot'[r] = slot[r] /\ Latest
                 /\ \A i \in DOMAIN new : ~OfSlot(new[i], r)
              \/ \E i \in DOMAIN new :
                    /\ OfSlot(new[i], r)
                    /\ new[i].status = slot'[r]
                    /\ \A j \in DOMAIN new : OfSlot(new[j], r) => j <= i
    PROVE  Latest'
<1> DEFINE m == Len(sent)
           n == Len(new)
<1>1. /\ m \in Nat /\ n \in Nat /\ Len(sent') = m + n
      /\ DOMAIN sent = 1..m /\ DOMAIN new = 1..n /\ DOMAIN sent' = 1..(m + n)
      /\ \A i \in 1..m : sent'[i] = sent[i]
      /\ \A i \in 1..n : sent'[m + i] = new[i]
      /\ \A i \in (m + 1)..(m + n) : sent'[i] = new[i - m]
  BY Appended
<1> HIDE DEF m, n
<1>2. ASSUME NEW r \in Slot
      PROVE  \E i \in 1..(m + n) :
                /\ OfSlot(sent'[i], r)
                /\ \A j \in (i + 1)..(m + n) : ~OfSlot(sent'[j], r)
                /\ sent'[i].status = slot'[r]
  <2>1. CASE /\ slot'[r] = slot[r] /\ Latest
             /\ \A i \in DOMAIN new : ~OfSlot(new[i], r)
    <3>1. PICK i \in 1..m : LastOf(r, i, m) /\ sent[i].status = slot[r]
      BY <1>1, <2>1 DEF Latest, m
    <3>2. /\ OfSlot(sent[i], r)
          /\ \A j \in (i + 1)..m : ~OfSlot(sent[j], r)
      BY <3>1 DEF LastOf
    <3>3. ASSUME NEW j \in (i + 1)..(m + n)
          PROVE  ~OfSlot(sent'[j], r)
      <4>1. CASE j \in (i + 1)..m
        <5>1. sent'[j] = sent[j]
          BY <1>1, <4>1
        <5> QED BY <3>2, <4>1, <5>1
      <4>2. CASE j \in (m + 1)..(m + n)
        <5>1. j - m \in DOMAIN new /\ sent'[j] = new[j - m]
          BY <1>1, <4>2
        <5> QED BY <2>1, <5>1
      <4> QED BY <1>1, <4>1, <4>2
    <3>4. i \in 1..(m + n) /\ sent'[i] = sent[i]
      BY <1>1
    <3> QED BY <2>1, <3>1, <3>2, <3>3, <3>4
  <2>2. ASSUME NEW i \in DOMAIN new, OfSlot(new[i], r), new[i].status = slot'[r],
               \A j \in DOMAIN new : OfSlot(new[j], r) => j <= i
        PROVE  \E k \in 1..(m + n) :
                  /\ OfSlot(sent'[k], r)
                  /\ \A j \in (k + 1)..(m + n) : ~OfSlot(sent'[j], r)
                  /\ sent'[k].status = slot'[r]
    <3>1. m + i \in 1..(m + n) /\ sent'[m + i] = new[i]
      BY <1>1
    <3>2. ASSUME NEW j \in (m + i + 1)..(m + n)
          PROVE  ~OfSlot(sent'[j], r)
      <4>1. /\ j - m \in DOMAIN new /\ ~(j - m <= i)
            /\ sent'[j] = new[j - m]
        BY <1>1
      <4> QED BY <2>2, <4>1
    <3> QED BY <2>2, <3>1, <3>2
  <2> QED BY <2>1, <2>2
<1>3. \A r \in Slot : \E i \in DOMAIN sent' :
         /\ i \in 1..Len(sent')
         /\ OfSlot(sent'[i], r)
         /\ \A j \in (i + 1)..Len(sent') : ~OfSlot(sent'[j], r)
         /\ sent'[i].status = slot'[r]
  BY <1>1, <1>2
<1> QED BY <1>3 DEF Latest, LastOf, OfSlot

\* What is shown is among what was sent.
LEMMA ShownType ==
    ASSUME RecordTypeOK, todo # <<>> => taken > 0
    PROVE  Shown \in 0..Len(sent)
  BY DEF RecordTypeOK, Shown

\* A step that changes no row and takes no event.
LEMMA RowKept ==
    ASSUME RecordTypeOK, RowInv, todo # <<>> => taken > 0,
           UNCHANGED taken,
           \A n \in 1..Len(sent) : sent'[n] = sent[n],
           DOMAIN sent \subseteq DOMAIN sent',
           task' # "unborn" => Latest',
           todo' \in {todo, UnderWay, <<>>},
           task' \in {"live", "done"} /\ taken > 0 =>
              task \in {"live", "done"} /\ todo' = todo /\ rows' = rows
    PROVE  RowInv'
<1>0. /\ sent \in Seq(SlotEvent) /\ Len(sent) \in Nat
      /\ DOMAIN sent = 1..Len(sent) /\ taken \in 0..Len(sent)
      /\ todo \in Seq(Request)
      /\ RowFirst(todo)
      /\ Shown \in 0..Len(sent)
  BY ShownType DEF RecordTypeOK, RowInv
<1>1. RowFirst(todo')
  <2>1. CASE todo' = <<>>
    BY <2>1 DEF RowFirst
  <2>2. CASE todo' = UnderWay /\ todo # <<>>
    <3>1. UnderWay = <<todo[1]>> /\ 1 \in DOMAIN todo
      BY <1>0, <2>2, TodoFacts DEF UnderWay
    <3> QED BY <1>0, <2>2, <3>1 DEF RowFirst
  <2>3. todo = <<>> => UnderWay = <<>>
    BY DEF UnderWay
  <2> QED BY <1>0, <2>1, <2>2, <2>3
<1>2. ASSUME task' \in {"live", "done"}
      PROVE  Current'
  <2>1. CASE taken = 0
    <3>1. Shown' \in {0, -1}
      BY <2>1 DEF Shown
    <3>2. \A r, i : ~(i \in 1..Shown')
      BY <3>1
    <3> QED BY <3>2 DEF Current, LastOf
  <2>2. CASE taken > 0
    <3>1. Current /\ UNCHANGED <<todo, rows>>
      BY <1>2, <2>2 DEF RowInv
    <3>2. Shown' = Shown
      BY <3>1 DEF Shown
    <3>3. \A r, i : LastOf(r, i, Shown)' <=> LastOf(r, i, Shown)
      <4> TAKE r, i
      <4>1. \A j \in 1..Shown : sent'[j] = sent[j]
        BY <1>0
      <4>2. i \in 1..Shown => \A j \in (i + 1)..Shown : j \in 1..Shown
        BY <1>0
      <4> QED BY <3>2, <4>1, <4>2 DEF LastOf, OfSlot
    <3>4. ASSUME NEW r \in Slot, NEW i \in DOMAIN sent', LastOf(r, i, Shown)'
          PROVE  rows'[r] = sent'[i].status
      <4>1. i \in 1..Shown
        BY <3>2, <3>4 DEF LastOf
      <4>2. i \in DOMAIN sent /\ sent'[i] = sent[i]
        BY <1>0, <4>1
      <4>3. LastOf(r, i, Shown)
        BY <3>3, <3>4
      <4> QED BY <3>1, <4>2, <4>3 DEF Current
    <3> QED BY <3>4 DEF Current
  <2> QED BY <1>0, <2>1, <2>2
<1>3. RowFirst(todo') <=> RowFirst(todo)'
  BY DEF RowFirst
<1> QED BY <1>1, <1>2, <1>3 DEF RowInv

\* An event that is taken is shown once its first write is made.
LEMMA ReceiveRows ==
    ASSUME RecordTypeOK, RowInv, Receive
    PROVE  RowInv'
<1>0. /\ sent \in Seq(SlotEvent) /\ Len(sent) \in Nat /\ taken \in Nat
      /\ taken < Len(sent) /\ taken' = taken + 1
      /\ todo = <<>> /\ task = "live" /\ task' = "live"
      /\ todo' = Requests(sent[taken + 1].kind)
      /\ UNCHANGED <<sent, rows, slot>>
      /\ Latest /\ Current
  BY DEF Receive, RecordTypeOK, RowInv, hubVars, vars
<1>1. sent[taken + 1].kind \in EventKind
  <2>1. sent[taken + 1] \in SlotEvent
    BY <1>0
  <2> QED BY <2>1 DEF SlotEvent
<1>2. RowFirst(todo)'
  BY <1>0, <1>1, RequestsFacts DEF RowFirst
<1>3. Latest'
  BY <1>0 DEF Latest, LastOf
<1>4. Shown = taken
  BY <1>0 DEF Shown
<1>5. Current'
  <2> SUFFICES ASSUME NEW r \in Slot, NEW i \in DOMAIN sent, LastOf(r, i, Shown)'
               PROVE  rows[r] = sent[i].status
    BY <1>0 DEF Current
  <2>1. CASE sent[taken + 1].kind = "slot"
    <3>1. Shown' = taken
      <4>1. todo' # <<>> /\ Head(Head(todo')).do = "row"
        BY <1>0, <1>1, <2>1, RequestsFacts
      <4> QED BY <1>0, <4>1 DEF Shown
    <3>2. LastOf(r, i, taken)
      BY <1>0, <3>1 DEF LastOf
    <3> QED BY <1>0, <1>4, <3>2 DEF Current
  <2>2. CASE sent[taken + 1].kind # "slot"
    <3>1. Shown' = taken + 1
      <4>1. ASSUME todo' # <<>>, Head(Head(todo')).do = "row"
            PROVE  FALSE
        <5>1. todo' \in Seq(Request)
          BY <1>0, <1>1, RequestsFacts
        <5>2. /\ Head(Head(todo')) = todo'[1][1]
              /\ 1 \in DOMAIN todo' /\ 1 \in DOMAIN todo'[1]
          BY <4>1, <5>1 DEF Request
        <5>3. todo'[1][1].do \notin {"row", "find"}
          BY <1>0, <1>1, <2>2, <5>2, RequestsFacts
        <5> QED BY <4>1, <5>2, <5>3
      <4> QED BY <1>0, <4>1 DEF Shown
    <3>2. /\ i \in 1..(taken + 1)
          /\ OfSlot(sent[i], r)
          /\ \A j \in (i + 1)..(taken + 1) : ~OfSlot(sent[j], r)
      BY <1>0, <3>1 DEF LastOf, OfSlot
    <3>3. i # taken + 1
      BY <2>2, <3>2 DEF OfSlot
    <3>4. LastOf(r, i, taken)
      BY <1>0, <3>2, <3>3 DEF LastOf
    <3> QED BY <1>0, <1>4, <3>4 DEF Current
  <2> QED BY <2>1, <2>2
<1> QED BY <1>0, <1>2, <1>3, <1>5 DEF RowInv

\* The first write of an event of a slot puts its status in the row.
LEMMA PersistRows ==
    ASSUME RowsByRole, RecordTypeOK, StageInv, ExitInv, RowInv,
           taken > 0, Persist
    PROVE  RowInv'
<1> DEFINE w == Head(Head(todo))
           e == sent[taken]
<1>0. /\ todo # <<>> /\ Execute(w, taken)
      /\ UNCHANGED <<cli, approved, fault, sent, taken, slot>>
      /\ task' = "unborn" => task = "unborn"
      /\ task' \in {"live", "done"} => task' = task /\ todo' = RestOfRequest
      /\ todo' \in {<<>>, RestOfRequest}
      /\ task # "unborn"
  <2>1. /\ todo # <<>> /\ Execute(w, taken) /\ UNCHANGED slot
        /\ UNCHANGED <<cli, approved, fault, sent, taken>>
        /\ \/ task' = task /\ todo' = RestOfRequest
           \/ /\ task' = (IF task = "live" THEN "error" ELSE task)
              /\ todo' = <<>>
    BY DEF Persist, vars
  <2>2. task \notin {"unborn", "done"}
    BY <2>1 DEF StageInv
  <2> QED BY <2>1, <2>2
<1>1. /\ sent \in Seq(SlotEvent) /\ Len(sent) \in Nat /\ DOMAIN sent = 1..Len(sent)
      /\ taken \in 1..Len(sent) /\ e \in SlotEvent
      /\ todo \in Seq(Request)
      /\ w = todo[1][1] /\ 1 \in DOMAIN todo /\ 1 \in DOMAIN todo[1]
      /\ rows \in [Role -> Status \cup {"absent"}]
      /\ rows' = IF w.do = "row" /\ RowExists(e.role)
                 THEN [rows EXCEPT ![e.role] = e.status] ELSE rows
  <2>1. todo \in Seq(Request) /\ Len(sent) \in Nat /\ sent \in Seq(SlotEvent)
    BY DEF RecordTypeOK
  <2> QED BY <1>0, <2>1, ExecuteFacts, TodoFacts DEF RecordTypeOK
<1> HIDE DEF w
<1>2. /\ \A i \in DOMAIN RestOfRequest : \A j \in DOMAIN RestOfRequest[i] :
            RestOfRequest[i][j].do # "row"
      /\ RestOfRequest \in Seq(Request)
  <2>1. ASSUME NEW i \in DOMAIN RestOfRequest, NEW j \in DOMAIN RestOfRequest[i]
        PROVE  RestOfRequest[i][j].do # "row"
    <3>1. /\ Row(i) \in DOMAIN todo
          /\ Column(i, j) \in DOMAIN todo[Row(i)]
          /\ RestOfRequest[i][j] = todo[Row(i)][Column(i, j)]
          /\ Row(i) # 1 \/ Column(i, j) # 1
      BY <1>0, <1>1, RestPlaces
    <3>2. RowFirst(todo)
      BY DEF RowInv
    <3> QED BY <3>1, <3>2 DEF RowFirst
  <2> QED BY <1>0, <1>1, <2>1, RestPlaces
<1>3. RowFirst(todo)'
  BY <1>0, <1>2 DEF RowFirst
<1>4. task' # "unborn" => Latest'
  BY <1>0 DEF RowInv, Latest, LastOf
<1>5. ASSUME task' \in {"live", "done"}
      PROVE  Current'
  <2>1. todo' = RestOfRequest /\ Current
    BY <1>0, <1>5 DEF RowInv
  <2>2. Shown' = taken
    <3>1. ASSUME todo' # <<>>, Head(Head(todo')).do = "row"
          PROVE  FALSE
      <4>1. /\ Head(Head(todo')) = todo'[1][1]
            /\ 1 \in DOMAIN todo' /\ 1 \in DOMAIN todo'[1]
        BY <1>2, <2>1, <3>1 DEF Request
      <4> QED BY <1>2, <2>1, <3>1, <4>1
    <3> QED BY <1>0, <3>1 DEF Shown
  <2> SUFFICES ASSUME NEW r \in Slot, NEW i \in DOMAIN sent, LastOf(r, i, Shown)'
               PROVE  rows'[r] = sent[i].status
    BY <1>0 DEF Current
  <2>3. LastOf(r, i, taken)
    BY <1>0, <2>2 DEF LastOf
  <2>4. r \in Role
    BY SchedulingAssumption
  <2>5. CASE w.do # "row"
    <3>1. Shown = taken /\ rows' = rows
      BY <1>1, <2>5 DEF Shown, w
    <3> QED BY <2>1, <2>3, <3>1 DEF Current
  <2>6. CASE w.do = "row"
    <3>1. Shown = taken - 1
      BY <1>0, <2>6 DEF Shown, w
    <3>2. e.kind = "slot"
      BY <1>1, <2>6 DEF ExitInv, OfSlots
    <3>3. CASE i = taken
      <4>1. e.role = r
        BY <2>3, <3>3 DEF LastOf, OfSlot
      <4>2. RowExists(r)
        <5>1. sent # <<>>
          BY <1>1
        <5>2. Registered
          BY <5>1 DEF StageInv
        <5> QED BY <5>2 DEF Registered, RowsByRole, RowExists
      <4> QED BY <1>1, <2>4, <2>6, <3>3, <4>1, <4>2
    <3>4. CASE i # taken
      <4>1. /\ i \in 1..taken /\ OfSlot(sent[i], r)
            /\ \A j \in (i + 1)..taken : ~OfSlot(sent[j], r)
        BY <2>3 DEF LastOf
      <4>2. LastOf(r, i, taken - 1)
        BY <1>1, <3>4, <4>1 DEF LastOf
      <4>3. e.role # r
        <5>1. taken \in (i + 1)..taken
          BY <1>1, <3>4, <4>1
        <5> QED BY <3>2, <4>1, <5>1 DEF OfSlot
      <4>4. rows'[r] = rows[r]
        BY <1>1, <2>4, <4>3
      <4> QED BY <2>1, <3>1, <4>2, <4>4 DEF Current
    <3> QED BY <3>3, <3>4
  <2> QED BY <2>5, <2>6
<1> QED BY <1>3, <1>4, <1>5 DEF RowInv

\* Every step keeps the rows.
LEMMA RowStep ==
    ASSUME RowsByRole, RecordTypeOK, StageInv, ExitInv, RowInv, IInv,
           todo # <<>> => taken > 0, [RecordNext]_allVars
    PROVE  RowInv'
<1>0. /\ sent \in Seq(SlotEvent) /\ Len(sent) \in Nat
      /\ DOMAIN sent = 1..Len(sent) /\ taken \in 0..Len(sent)
      /\ task # "unborn" => Latest
  BY DEF RecordTypeOK, RowInv
<1>a. ASSUME UNCHANGED <<sent, slot, taken>>,
             task' # "unborn" => task # "unborn",
             todo' \in {todo, UnderWay, <<>>},
             task' \in {"live", "done"} /\ taken > 0 =>
                task \in {"live", "done"} /\ todo' = todo /\ rows' = rows
      PROVE  RowInv'
  <2>1. task' # "unborn" => Latest'
    BY <1>0, <1>a DEF Latest, LastOf
  <2> QED BY <1>a, <2>1, RowKept
<1>1. CASE Orchestrate
  <2>1. /\ UNCHANGED <<taken, task, todo, rows>>
        /\ \A n \in 1..Len(sent) : sent'[n] = sent[n]
        /\ Len(sent') \in Nat /\ Len(sent) <= Len(sent')
        /\ sent' \in Seq(SlotEvent)
    BY <1>1, OrchestrateSends
  <2>2. PICK new : sent' = sent \o new /\ Telling(new)
    BY <1>1, OrchestrateSends
  <2>3. task' # "unborn" => Latest'
    <3> SUFFICES ASSUME Latest PROVE Latest'
      BY <1>0, <2>1
    <3>1. new \in Seq(SlotEvent)
      BY <2>2 DEF Telling
    <3>2. \A r \in Slot :
             \/ /\ slot'[r] = slot[r] /\ Latest
                /\ \A i \in DOMAIN new : ~OfSlot(new[i], r)
             \/ \E i \in DOMAIN new :
                   /\ OfSlot(new[i], r)
                   /\ new[i].status = slot'[r]
                   /\ \A j \in DOMAIN new : OfSlot(new[j], r) => j <= i
      BY <2>2 DEF Telling
    <3> QED BY <1>0, <2>2, <3>1, <3>2, LatestAppended
  <2>4. DOMAIN sent \subseteq DOMAIN sent'
    BY <1>0, <2>1
  <2>5. task' \in {"live", "done"} /\ taken > 0 =>
           task \in {"live", "done"} /\ todo' = todo /\ rows' = rows
    BY <2>1
  <2> QED BY <2>1, <2>3, <2>4, <2>5, RowKept
<1>b. ASSUME ~Orchestrate
      PROVE  UNCHANGED slot
  BY <1>b, OthersLeaveTheRun DEF vars
<1>2. CASE Create \/ SetRunning \/ Started
  <2>1. /\ cli \in Before /\ UNCHANGED <<vars, sent, taken, task, todo>>
    BY <1>2 DEF Create, SetRunning, Started, SetStatus, Report, storeVars, Before
  <2>2. task = "unborn"
    BY <2>1 DEF StageInv
  <2> QED BY <1>a, <2>1, <2>2 DEF vars
<1>3. CASE SetSucceeded \/ SetFailed \/ ReportFailed \/ Drain \/ Drained
  <2>1. UNCHANGED <<vars, sent, taken, task, todo, rows>>
    BY <1>3 DEF SetSucceeded, SetFailed, ReportFailed, Drain, Drained, SetStatus,
                Report, storeVars, hubVars
  <2> QED BY <1>a, <2>1 DEF vars
<1>4. CASE Launch
  <2>1. /\ UNCHANGED <<vars, taken, todo, rows>>
        /\ task = "unborn" /\ taken = 0 /\ todo = <<>>
        /\ \A r \in Slot : slot[r] = "assigned"
        /\ \/ task' = "live" /\ sent' = sent \o Announcements
           \/ UNCHANGED <<task, sent>>
    BY <1>4 DEF Launch, Send, hubVars, StageInv, Before
  <2>2. CASE UNCHANGED <<task, sent>>
    BY <1>a, <2>1, <2>2 DEF vars
  <2>3. CASE task' = "live" /\ sent' = sent \o Announcements
    <3>1. Announcements \in Seq(SlotEvent)
      BY AnnouncementsFacts
    <3>2. /\ \A n \in 1..Len(sent) : sent'[n] = sent[n]
          /\ Len(sent') = Len(sent) + Len(Announcements)
          /\ Len(Announcements) \in Nat /\ sent' \in Seq(SlotEvent)
      BY <1>0, <2>3, <3>1, Appended
    <3>3. \A i, j \in DOMAIN Announcements : i = j => j <= i
      BY <3>1
    <3>4. UNCHANGED slot
      BY <2>1 DEF vars
    <3>5. ASSUME NEW r \in Slot
          PROVE  \E i \in DOMAIN Announcements :
                    /\ OfSlot(Announcements[i], r)
                    /\ Announcements[i].status = slot'[r]
                    /\ \A j \in DOMAIN Announcements :
                          OfSlot(Announcements[j], r) => j <= i
      BY <2>1, <3>3, <3>4, AnnouncementsFacts
    <3>6. Latest'
      BY <1>0, <2>3, <3>1, <3>5, LatestAppended
    <3>7. DOMAIN sent \subseteq DOMAIN sent'
      BY <1>0, <3>2
    <3> QED BY <2>1, <3>2, <3>6, <3>7, RowKept
  <2> QED BY <2>1, <2>2, <2>3
<1>5. CASE AbortEvents \/ Crash \/ RequestFails \/ DropRequest
  <2>1. /\ UNCHANGED <<vars, sent, taken, rows>>
        /\ todo' \in {UnderWay, <<>>}
        /\ task' \in {"live", "done"} => task = "done"
        /\ task' # "unborn" => task # "unborn"
    BY <1>5 DEF AbortEvents, Crash, RequestFails, DropRequest, hubVars
  <2>2. task = "done" => todo = <<>> /\ UnderWay = <<>>
    BY DEF StageInv, UnderWay
  <2> QED BY <1>a, <2>1, <2>2 DEF vars
<1>6. CASE Receive
  BY <1>6, ReceiveRows
<1>7. CASE Closed
  <2>1. UNCHANGED <<vars, sent, taken, todo, rows>> /\ task = "live"
    BY <1>7 DEF Closed, hubVars
  <2> QED BY <1>a, <2>1 DEF vars
<1>8. CASE Persist
  <2>1. taken > 0
    BY <1>8 DEF Persist
  <2> QED BY <1>8, <2>1, PersistRows
<1>9. CASE UNCHANGED allVars
  BY <1>9, <1>a DEF allVars, vars, recordVars, storeVars, hubVars
<1> QED
  BY <1>1, <1>2, <1>3, <1>4, <1>5, <1>6, <1>7, <1>8, <1>9
     DEF RecordNext, Handle, Store
-----------------------------------------------------------------------------
(***************************************************************************)
(* The theorems.                                                           *)
(***************************************************************************)
RecordIInv == RecordTypeOK /\ StageInv /\ StoreInv

\* Nothing has been sent, taken or stored at first.
LEMMA InitRecordIInv == RecordInit => RecordIInv
<1> SUFFICES ASSUME RecordInit PROVE RecordIInv
  OBVIOUS
<1>0. /\ Init /\ cli = "create" /\ approved \in BOOLEAN /\ fault = FALSE
      /\ sent = <<>> /\ taken = 0 /\ task = "unborn" /\ todo = <<>>
      /\ status = "none" /\ rows = [r \in Role |-> "absent"]
      /\ log = <<>> /\ stored = {}
  BY DEF RecordInit
<1>1. RecordTypeOK
  <2>1. /\ sent \in Seq(SlotEvent) /\ Len(sent) = 0
        /\ todo \in Seq(Request)
        /\ log \in Seq(LogEntry) /\ DOMAIN log = {}
    BY <1>0
  <2>2. rows \in [Role -> Status \cup {"absent"}]
    BY <1>0
  <2>3. stored \subseteq Made \X (1..taken)
    BY <1>0
  <2>4. taken \in 0..Len(sent)
    BY <1>0, <2>1
  <2>5. \A i \in DOMAIN log : log[i].of <= taken
    BY <2>1
  <2>6. /\ cli \in Before \cup After \cup {"exited", "crashed"}
        /\ approved \in BOOLEAN
        /\ fault \in BOOLEAN
        /\ task \in {"unborn", "live", "done", "error", "aborted"}
    BY <1>0 DEF Before
  <2> QED BY <2>1, <2>2, <2>3, <2>4, <2>5, <2>6 DEF RecordTypeOK
<1>2. \A r \in Slot : slot[r] = "assigned"
  BY <1>0, SchedulingAssumption DEF Init
<1>3. StageInv
  BY <1>0, <1>2 DEF StageInv, Before, After
<1>4. \A n : HeldOf(n) = {}
  BY <1>0 DEF HeldOf
<1>5. RecordIsPrefix
  BY <1>0 DEF RecordIsPrefix
<1>6. Distinct(todo) /\ OncePerEvent
  BY <1>0 DEF Distinct, OncePerEvent
<1>7. StoreInv
  BY <1>0, <1>4, <1>5, <1>6 DEF StoreInv
<1> QED BY <1>1, <1>3, <1>7 DEF RecordIInv

\* The invariant is inductive, given that of the run.
THEOREM RecordInductive == RecordSpec => []RecordIInv
<1>1. RecordInit => RecordIInv
  BY InitRecordIInv
<1>2. RecordIInv /\ IInv /\ IInv' /\ [RecordNext]_allVars => RecordIInv'
  <2> SUFFICES ASSUME RecordIInv, IInv, [RecordNext]_allVars PROVE RecordIInv'
    OBVIOUS
  <2>1. RecordTypeOK /\ StageInv /\ StoreInv /\ (todo # <<>> => taken > 0)
    BY DEF RecordIInv, StoreInv
  <2>2. RecordTypeOK'
    BY <2>1, RecordTypeStep
  <2>3. StageInv'
    BY <2>1, StageStep
  <2>4. StoreInv'
    BY <2>1, StoreStep
  <2> QED BY <2>2, <2>3, <2>4 DEF RecordIInv
<1>3. RecordSpec => []IInv
  BY CommandRunsPipeline, InductiveInvariant, PTL
<1> QED BY <1>1, <1>2, <1>3, PTL DEF RecordSpec

\* Nothing of an event is stored unless everything of the earlier ones is
\* (event_task and persist_orchestrator_event), whatever request fails.
THEOREM RecordIsAPrefix == RecordSpec => []RecordIsPrefix
<1>1. RecordIInv => RecordIsPrefix
  BY DEF RecordIInv, StoreInv
<1> QED BY <1>1, RecordInductive, PTL

\* Nothing is announced before the pipeline is running at the hub with all its
\* slots, and nothing without approval (handle_pipeline).
THEOREM OnlyStartedRuns == RecordSpec => []RunsOnlyWhenStarted
<1>1. RecordIInv => RunsOnlyWhenStarted
  BY DEF RecordIInv, StageInv, Registered, RunsOnlyWhenStarted
<1> QED BY <1>1, RecordInductive, PTL

\* A pipeline that is succeeded at the hub has a complete record
\* (handle_pipeline awaits event_task before it says so).
THEOREM SucceededRecordComplete == RecordSpec => []SucceededIsComplete
<1>1. RecordIInv => SucceededIsComplete
  <2> SUFFICES ASSUME RecordIInv, status = "succeeded"
               PROVE  /\ main = "done"
                      /\ \A n \in DOMAIN sent :
                            /\ HeldOf(n) = DueOf(n)
                            /\ \A i, j \in DOMAIN log :
                                  /\ log[i].of = n /\ log[j].of = n
                                  /\ log[i].type = log[j].type
                                  => i = j
    BY DEF SucceededIsComplete
  <2>1. /\ main = "done" /\ task = "done" /\ todo = <<>> /\ taken = Len(sent)
        /\ taken \in Nat /\ DOMAIN sent = 1..taken
    BY DEF RecordIInv, StageInv, RecordTypeOK, Before
  <2>2. /\ RecordIsPrefix
        /\ OncePerEvent
        /\ taken > 0 => HeldOf(taken) \cup Left(todo) = DueOf(taken)
    BY <2>1 DEF RecordIInv, StoreInv
  <2>3. \A n \in 1..taken : HeldOf(n) = DueOf(n)
    <3> TAKE n \in 1..taken
    <3>1. CASE n < taken
      BY <2>2, <3>1 DEF RecordIsPrefix
    <3>2. CASE n = taken
      <4>1. \A x : x \notin Left(<<>>)
        BY LeftAt
      <4>2. HeldOf(taken) \cup Left(todo) = DueOf(taken)
        BY <2>1, <2>2, <3>2
      <4> QED BY <2>1, <3>2, <4>1, <4>2
    <3> QED BY <2>1, <3>1, <3>2
  <2>4. \A n \in 1..taken : n > 0
    BY <2>1
  <2>5. \A n \in 1..taken, i, j \in DOMAIN log :
           /\ log[i].of = n /\ log[j].of = n
           /\ log[i].type = log[j].type
           => i = j
    BY <2>2, <2>4 DEF OncePerEvent
  <2> QED BY <2>1, <2>3, <2>5
<1> QED BY <1>1, RecordInductive, PTL

\* How a run ends and what the rows show, when every slot is stored under its
\* own role.
LEMMA SettledInductive ==
    ASSUME RowsByRole
    PROVE  RecordSpec => [](ExitInv /\ RowInv)
<1>1. RecordInit => ExitInv /\ RowInv
  <2> SUFFICES ASSUME RecordInit PROVE ExitInv /\ RowInv
    OBVIOUS
  <2>1. /\ Init /\ cli = "create" /\ sent = <<>> /\ task = "unborn"
        /\ todo = <<>>
    BY DEF RecordInit
  <2>2. SlotlessStops
    BY <2>1 DEF Init, SlotlessStops
  <2>3. OfSlots(todo, sent[taken]) /\ RowFirst(todo)
    BY <2>1 DEF OfSlots, RowFirst
  <2> QED BY <2>1, <2>2, <2>3 DEF ExitInv, RowInv
<1>2. /\ RecordIInv /\ IInv /\ ExitInv /\ RowInv
      /\ [RecordNext]_allVars
      => (ExitInv /\ RowInv)'
  <2> SUFFICES ASSUME RecordIInv, IInv, ExitInv, RowInv, [RecordNext]_allVars
               PROVE  ExitInv' /\ RowInv'
    OBVIOUS
  <2>1. /\ RecordTypeOK /\ StageInv
        /\ todo # <<>> => taken > 0
    BY DEF RecordIInv, StoreInv
  <2> QED BY <2>1, ExitStep, RowStep
<1>3. RecordSpec => []IInv
  BY CommandRunsPipeline, InductiveInvariant, PTL
<1> QED BY <1>1, <1>2, <1>3, RecordInductive, PTL DEF RecordSpec

\* When the process has exited and no request has failed, the pipeline has
\* the status of the run (handle_pipeline), if every slot is stored under its
\* own role.
THEOREM ExitsSettle ==
    ASSUME RowsByRole
    PROVE  RecordSpec => []ExitSettlesStatus
<1>1. ExitInv => ExitSettlesStatus
  BY DEF ExitInv, ExitSettlesStatus
<1> QED BY <1>1, SettledInductive, PTL

\* When a pipeline is succeeded, the slots at the hub show the status the
\* orchestrator gave them last (persist_orchestrator_event with
\* update_slot_status), if every slot is stored under its own role.
THEOREM SucceededSlotsAreCurrent ==
    ASSUME RowsByRole
    PROVE  RecordSpec => []SucceededSlotsCurrent
<1>1. RecordIInv /\ RowInv => SucceededSlotsCurrent
  <2> SUFFICES ASSUME RecordIInv, RowInv, status = "succeeded", NEW r \in Slot
               PROVE  rows[RowOf[r]] = slot[r]
    BY DEF SucceededSlotsCurrent
  <2>1. /\ task = "done" /\ todo = <<>> /\ taken = Len(sent)
        /\ Latest /\ Current
    BY DEF RecordIInv, StageInv, RowInv
  <2>2. Shown = Len(sent)
    BY <2>1 DEF Shown
  <2>3. PICK i \in DOMAIN sent : LastOf(r, i, Len(sent)) /\ sent[i].status = slot[r]
    BY <2>1 DEF Latest
  <2>4. rows[r] = sent[i].status
    BY <2>1, <2>2, <2>3 DEF Current
  <2> QED BY <2>3, <2>4 DEF RowsByRole
<1> QED BY <1>1, SettledInductive, RecordInductive, PTL
=============================================================================
