----------------------------- MODULE HubRecords -----------------------------
(***************************************************************************)
(* The hub's requests on its tables.  Each handler awaits one SQL          *)
(* statement after another, without a transaction, and the requests of all *)
(* clients interleave between them.  A handler is therefore given as the   *)
(* list of its statements, in the code's order, and an action runs the     *)
(* next statement of one request.                                          *)
(*                                                                         *)
(* A row is a record of the columns that matter here; "at" is the time and *)
(* "by" (history) the request that wrote it last.  How messages reach the  *)
(* streams, and how one run's pipeline is recorded, is in modules          *)
(* HubStream and PipelineRecord; here other clients' requests meet them.   *)
(*                                                                         *)
(* A definition ending in Bug is a mistake the code could have had.        *)
(***************************************************************************)
EXTENDS Integers, Sequences, FiniteSets

CONSTANTS
    Nobody,      \* NULL, as an owner or a thread
    NoRow        \* what is in a handler's hand before it has a row

None == <<>>     \* the function without arguments, and the record without columns
-----------------------------------------------------------------------------
(* The values of the columns. *)
MessageStatus == {"unread", "read"}
AgentStatus == {"online", "idle", "investigating", "working", "blocked",
                "reviewing", "waiting_for_review", "done", "offline"}
ThreadStatus == {"open", "closed"}
TaskStatus == {"open", "proposed", "claimed", "in_progress", "blocked",
               "needs_review", "changes_requested", "approved", "done", "cancelled"}
RuntimeHealth == {"healthy", "degraded", "rate_limited", "auth_expired",
                  "crashed", "missing"}
RuntimeLifecycleStatus == {"starting", "running", "completed", "interrupted",
                           "shutdown", "failed"}
PipelineStatus == {"pending", "awaiting_approval", "running", "succeeded", "failed",
                   "cancelled"}
SlotStatus == {"empty", "assigned", "active", "working", "waiting", "vacant", "disabled"}
FindingKind == {"root_cause", "bug", "risk", "test_gap", "contract_issue",
                "implementation_idea", "regression", "performance_issue",
                "security_issue", "question"}

(* A row becomes a record again when its columns parse: the literals of the *)
(* statements below must be among the values above.                        *)
row_to_agent(row) == row.status \in AgentStatus
row_to_message(row) == row.status \in MessageStatus
row_to_thread(row) == row.status \in ThreadStatus
row_to_task(row) == row.status \in TaskStatus
row_to_step_metric(row) == row.health \in RuntimeHealth /\ row.latency_ms \in Nat
row_to_agent_handle(row) == row.status \in RuntimeLifecycleStatus
row_to_mcp_health(row) == row.status \in RuntimeHealth
row_to_pipeline(row) == row.status \in PipelineStatus
row_to_slot(row) == row.status \in SlotStatus
row_to_finding(row) == row.kind \in FindingKind
row_to_capability_score(row) ==
    row.success_count \in Nat /\ row.failure_count \in Nat /\ row.age \in Nat

Parses(table, row) ==
    CASE table = "agents" -> row_to_agent(row)
      [] table = "messages" -> row_to_message(row)
      [] table = "threads" -> row_to_thread(row)
      [] table = "tasks" -> row_to_task(row)
      [] table = "step_metrics" -> row_to_step_metric(row)
      [] table = "runtime_handles" -> row_to_agent_handle(row)
      [] table = "mcp_health" -> row_to_mcp_health(row)
      [] table = "pipelines" -> row_to_pipeline(row)
      [] table = "slots" -> row_to_slot(row)
      [] table = "findings" -> row_to_finding(row)
      [] table = "capability_scores" -> row_to_capability_score(row)
      [] OTHER -> TRUE    \* columns that are read as they are
-----------------------------------------------------------------------------
(* Statements.  "otherwise" is what the handler does when one fails: it     *)
(* answers with the error, or ignores it and answers 200, or answers 200    *)
(* with the health "missing", or goes on with its last statement.           *)
Statement(do, table, key, columns) ==
    [do |-> do, table |-> table, key |-> key, columns |-> columns,
     add |-> {}, otherwise |-> "answer"]

Authorize == Statement("authorize", "", "", None)
Insert(t, k, columns) == Statement("insert", t, k, columns)
Update(t, k, columns) == Statement("update", t, k, columns)
Upsert(t, k, columns) == Statement("upsert", t, k, columns)
Delete(t, k) == Statement("delete", t, k, None)
Read(t, k) == Statement("read", t, k, None)
Select(t, columns) == Statement("select", t, "", columns)
write_event(type) == Statement("event", type, "", None)
Ensure(t, k, columns) == Statement("ensure", t, k, columns)   \* ON CONFLICT DO NOTHING
Add(t, k, columns) == Statement("add", t, k, columns)   \* not the row that is answered
Panic == Statement("panic", "", "", None)

\* Not a statement: what was selected must not be empty.
Some == Statement("some", "", "", None)

\* Nor is this: what the request says must be valid.
Check(valid) == Statement("check", "", "", [valid |-> valid])

Otherwise(s, what) == [s EXCEPT !.otherwise = what]

Handler(op, agent, statements) ==
    [op |-> op, agent |-> agent, statements |-> statements]
-----------------------------------------------------------------------------
(* The statements that handlers share. *)
get_agent_by_id(agent) == Read("agents", agent)
upsert_task(task, columns) == Insert("tasks", task, columns)
get_task_by_id(task) == Read("tasks", task)
set_task_status(task, status) == Update("tasks", task, [status |-> status])
active_file_claims_for_path(path) == Select("file_claims", [path |-> path])
query_findings == Select("findings", None)
ensure_thread(thread) == Ensure("threads", thread, [status |-> "open"])
new_message(message, thread, to) ==
    Insert("messages", message, [to_agent |-> to, thread_id |-> thread, status |-> "unread"])
\* A message without a thread begins one, under its own id.
ThreadOf(message, thread) == IF thread = Nobody THEN message ELSE thread
\* insert_message, had the thread been made sure of after it.
insert_message_bug(message, thread, to, subject) ==
    LET t == ThreadOf(message, thread) IN
    <<Check(subject # "empty"), new_message(message, t, to), ensure_thread(t)>>
insert_message(message, thread, to, subject) ==
    LET t == ThreadOf(message, thread) IN
    <<Check(subject # "empty"), ensure_thread(t), new_message(message, t, to)>>
get_message(message) == Read("messages", message)
get_thread(thread) == Read("threads", thread)
pipeline_step_metrics(pipeline) == Select("step_metrics", [pipeline_id |-> pipeline])
insert_step_metric(metric, columns) == Insert("step_metrics", metric, columns)
list_mcp_servers == Select("mcp_servers", None)
mcp_health(name) == Read("mcp_health", name)
upsert_mcp_health(name, health) == Upsert("mcp_health", name, [status |-> health])
get_runtime_handle(agent) == Read("runtime_handles", agent)

upsert_mcp_server(name, mode) ==
    <<Upsert("mcp_servers", name, [mode |-> mode]), Read("mcp_servers", name)>>
set_runtime_status(agent, status) ==
    <<Update("runtime_handles", agent, [status |-> status]), get_runtime_handle(agent)>>

OfPipeline(pipeline) == [pipeline_id |-> pipeline]
get_pipeline_by_id(pipeline) == Read("pipelines", pipeline)
get_slot_by_role(pipeline, role) == Read("slots", <<pipeline, role>>)
insert_pipeline_event(pipeline, type) ==
    Statement("log", "pipeline_events", pipeline, [pipeline_id |-> pipeline, type |-> type])
get_pipeline_event_by_id(key) == Read("pipeline_events", key)
insert_scheduler_decision(key, pipeline) ==
    <<Insert("scheduler_decisions", key, OfPipeline(pipeline)),
      Read("scheduler_decisions", key)>>
insert_context_compression(key, pipeline) ==
    <<Insert("context_compressions", key, OfPipeline(pipeline)),
      Read("context_compressions", key)>>
insert_semantic_memory(key, pipeline) ==
    <<Insert("semantic_memory", key, OfPipeline(pipeline)), Read("semantic_memory", key)>>
pipeline_scheduler_decisions(pipeline) ==
    Select("scheduler_decisions", OfPipeline(pipeline))
pipeline_context_compressions(pipeline) ==
    Select("context_compressions", OfPipeline(pipeline))
pipeline_semantic_memory(pipeline) == Select("semantic_memory", OfPipeline(pipeline))
-----------------------------------------------------------------------------
(* Agents. *)
heartbeat(agent, status) ==
    Handler("heartbeat", agent,
        <<Authorize, Upsert("agents", agent, [status |-> status]),
          write_event("agent_registered"), get_agent_by_id(agent)>>)

update_agent_status(agent, status) ==
    Handler("update_agent_status", agent,
        <<Authorize, Update("agents", agent, [status |-> status]),
          write_event("agent_status_changed"), get_agent_by_id(agent)>>)

list_agents(agent) == Handler("list_agents", agent, <<Authorize, Select("agents", None)>>)
get_agent(agent) == Handler("get_agent", agent, <<Authorize, get_agent_by_id(agent)>>)

(* Tasks. *)
create_task(task, agent, owner) ==
    Handler("create_task", agent,
        <<Authorize,
          upsert_task(task, [owner |-> owner, status |-> "open", created_by |-> agent]),
          write_event("task_created")>>)

\* claim_task, had the owner's record been read before the update.
claim_task_bug(task, agent) ==
    Handler("claim_task", agent,
        <<Authorize, get_task_by_id(task),
          Update("tasks", task, [owner |-> agent, status |-> "claimed"]),
          write_event("task_claimed")>>)

claim_task(task, agent) ==
    Handler("claim_task", agent,
        <<Authorize, Update("tasks", task, [owner |-> agent, status |-> "claimed"]),
          write_event("task_claimed"), get_task_by_id(task)>>)

update_task_status(task, agent, status) ==
    Handler("update_task_status", agent,
        <<Authorize, set_task_status(task, status),
          get_task_by_id(task), write_event("task_update")>>)

done_task(task, agent) ==
    Handler("done_task", agent,
        <<Authorize, set_task_status(task, "done"), get_task_by_id(task)>>)

get_task(task, agent) == Handler("get_task", agent, <<Authorize, get_task_by_id(task)>>)
list_tasks(agent) == Handler("list_tasks", agent, <<Authorize, Select("tasks", None)>>)

(* File claims.  ttl_seconds is absent ("none"), a short time, or within the *)
(* range of a TimeDelta and beyond that of a date: now + delta panics.       *)
\* create_file_claim, had only the claims that never expire been looked at.
create_file_claim_bug(claim, path, agent, ttl) ==
    Handler("create_file_claim", agent,
        <<Authorize, Select("file_claims", [path |-> path, ttl |-> "none"]),
          Insert("file_claims", claim, [path |-> path, claimed_by |-> agent, ttl |-> ttl]),
          write_event("file_claimed")>>)

create_file_claim(claim, path, agent, ttl) ==
    Handler("create_file_claim", agent,
        <<Authorize, active_file_claims_for_path(path)>>
        \o (IF ttl = "beyond" THEN <<Panic>> ELSE <<>>)
        \o <<Insert("file_claims", claim, [path |-> path, claimed_by |-> agent, ttl |-> ttl]),
             write_event("file_claimed")>>)

list_file_claims(path, agent) ==
    Handler("list_file_claims", agent,
        <<Authorize, Select("file_claims", [path |-> path])>>)

delete_file_claim(claim, agent) ==
    Handler("delete_file_claim", agent, <<Authorize, Delete("file_claims", claim)>>)

(* Findings. *)
create_finding(finding, agent, kind) ==
    Handler("create_finding", agent,
        <<Authorize, Insert("findings", finding, [agent_id |-> agent, kind |-> kind]),
          write_event("finding_published")>>)

list_findings(agent) == Handler("list_findings", agent, <<Authorize, query_findings>>)
\* The findings are searched that a list would return.
search_findings(agent) == Handler("search_findings", agent, <<Authorize, query_findings>>)
get_finding(finding, agent) ==
    Handler("get_finding", agent, <<Authorize, Read("findings", finding)>>)

(* Messages and threads. *)
mark_read(message, agent) ==
    Handler("mark_read", agent,
        <<Authorize, Update("messages", message, [status |-> "read"]),
          get_message(message)>>)

\* Of a status, or of "any"; one that no message can have is rejected.  A kind is
\* looked at and selected by in the same way.
list_messages(status, agent) ==
    Handler("list_messages", agent,
        <<Authorize, Check(status \in MessageStatus \cup {"any"}),
          Select("messages", IF status = "any"
                             THEN [to_agent |-> agent]
                             ELSE [to_agent |-> agent, status |-> status])>>)

list_threads(agent) == Handler("list_threads", agent, <<Authorize, Select("threads", None)>>)

get_thread_detail(thread, agent) ==
    Handler("get_thread_detail", agent,
        <<Authorize, get_thread(thread), Select("messages", [thread_id |-> thread])>>)

\* close_thread, had the status been spelled otherwise in the statement.
close_thread_bug(thread, agent) ==
    Handler("close_thread", agent,
        <<Authorize, Update("threads", thread, [status |-> "close"]),
          get_thread(thread)>>)

close_thread(thread, agent) ==
    Handler("close_thread", agent,
        <<Authorize, Update("threads", thread, [status |-> "closed"]),
          get_thread(thread)>>)

create_message(message, agent, to, thread, subject) ==
    Handler("create_message", agent,
        <<Authorize>> \o insert_message(message, thread, to, subject)
        \o <<write_event("message_sent")>>)

\* The thread is that of the original and the reply goes to its sender; no
\* statement changes either.
reply_to_message(message, original, thread, agent, to, subject) ==
    Handler("reply_to_message", agent,
        <<Authorize, get_message(original)>> \o insert_message(message, thread, to, subject)
        \o <<write_event("message_replied")>>)

\* reply_to_thread, had the thread been read for the answer.
reply_to_thread_bug(message, thread, agent, to, subject) ==
    Handler("reply_to_thread", agent,
        <<Authorize>> \o insert_message(message, thread, to, subject)
        \o <<write_event("thread_replied")>> \o get_thread_detail(thread, agent).statements)

\* reply_to_thread authorizes, and get_thread_detail, which it calls, once more.
\* A thread that is closed takes replies, and ensure_thread leaves it closed; one
\* without a message, whose insertion had failed, takes none.
reply_to_thread(message, thread, agent, to, subject) ==
    Handler("reply_to_thread", agent,
        <<Authorize>> \o get_thread_detail(thread, agent).statements
        \o <<Some>> \o insert_message(message, thread, to, subject)
        \o <<write_event("thread_replied")>>)

(* Models, scores and analytics. *)
list_models(agent) == Handler("list_models", agent, <<Authorize, Select("models", None)>>)
list_capability_scores(agent) ==
    Handler("list_capability_scores", agent,
        <<Authorize, Select("capability_scores", None)>>)

\* update_capability_score, had the counts been replaced.
update_capability_score_bug(key, success, agent) ==
    Handler("update_capability_score", agent,
        <<Authorize,
          Upsert("capability_scores", key,
              [success_count |-> IF success THEN 1 ELSE 0,
               failure_count |-> IF success THEN 0 ELSE 1, age |-> 0]),
          Read("capability_scores", key)>>)

update_capability_score(key, success, agent) ==
    Handler("update_capability_score", agent,
        <<Authorize,
          [Upsert("capability_scores", key,
              [success_count |-> IF success THEN 1 ELSE 0,
               failure_count |-> IF success THEN 0 ELSE 1, age |-> 0])
           EXCEPT !.add = {"success_count", "failure_count"}],
          Read("capability_scores", key)>>)

create_step_metric(metric, pipeline, health, latency, agent) ==
    Handler("create_step_metric", agent,
        <<Authorize, insert_step_metric(metric,
              [pipeline_id |-> pipeline, health |-> health, latency_ms |-> latency])>>)

get_pipeline_analytics(pipeline, agent) ==
    Handler("get_pipeline_analytics", agent,
        <<Authorize, pipeline_step_metrics(pipeline)>>)

(* Pipelines, and their slots, events and artifacts. *)
\* The roles are those of the request's workflow, when its YAML parses.
create_pipeline(pipeline, roles, approve, parses, agent) ==
    Handler("create_pipeline", agent,
        <<Authorize, Check(parses),
          Insert("pipelines", pipeline,
                 [status |-> IF approve THEN "pending" ELSE "awaiting_approval"])>>
        \o [i \in DOMAIN roles |->
               Add("slots", <<pipeline, roles[i]>>,
                   [pipeline_id |-> pipeline, status |-> "assigned"])]
        \o <<insert_pipeline_event(pipeline, "pipeline_created")>>)

update_pipeline_status(pipeline, status, agent) ==
    Handler("update_pipeline_status", agent,
        <<Authorize, Update("pipelines", pipeline, [status |-> status]),
          insert_pipeline_event(pipeline, "pipeline_status_updated"),
          get_pipeline_by_id(pipeline)>>)

update_pipeline_slot(pipeline, role, status, agent) ==
    Handler("update_pipeline_slot", agent,
        <<Authorize, Update("slots", <<pipeline, role>>, [status |-> status]),
          insert_pipeline_event(pipeline, "slot_status_changed"),
          get_slot_by_role(pipeline, role)>>)

create_pipeline_event(key, pipeline, agent) ==
    Handler("create_pipeline_event", agent,
        <<Authorize, Insert("pipeline_events", key, OfPipeline(pipeline)),
          get_pipeline_event_by_id(key)>>)

create_artifact(key, pipeline, agent) ==
    Handler("create_artifact", agent,
        <<Authorize, Insert("artifacts", key, OfPipeline(pipeline)),
          insert_pipeline_event(pipeline, "artifact_created")>>)

list_pipelines(agent) ==
    Handler("list_pipelines", agent, <<Authorize, Select("pipelines", None)>>)
get_pipeline(pipeline, agent) ==
    Handler("get_pipeline", agent, <<Authorize, get_pipeline_by_id(pipeline)>>)
list_pipeline_slots(pipeline, agent) ==
    Handler("list_pipeline_slots", agent, <<Authorize, Select("slots", OfPipeline(pipeline))>>)
list_pipeline_events(pipeline, agent) ==
    Handler("list_pipeline_events", agent,
        <<Authorize, Select("pipeline_events", OfPipeline(pipeline))>>)
list_pipeline_artifacts(pipeline, agent) ==
    Handler("list_pipeline_artifacts", agent,
        <<Authorize, Select("artifacts", OfPipeline(pipeline))>>)

(* What a pipeline leaves beside them; of the memory, the items are searched *)
(* that a list would return.                                                *)
create_scheduler_decision(key, pipeline, agent) ==
    Handler("create_scheduler_decision", agent,
        <<Authorize>> \o insert_scheduler_decision(key, pipeline))
create_context_compression(key, pipeline, agent) ==
    Handler("create_context_compression", agent,
        <<Authorize>> \o insert_context_compression(key, pipeline))
create_semantic_memory(key, pipeline, agent) ==
    Handler("create_semantic_memory", agent,
        <<Authorize>> \o insert_semantic_memory(key, pipeline))

list_scheduler_decisions(pipeline, agent) ==
    Handler("list_scheduler_decisions", agent,
        <<Authorize, pipeline_scheduler_decisions(pipeline)>>)
list_context_compressions(pipeline, agent) ==
    Handler("list_context_compressions", agent,
        <<Authorize, pipeline_context_compressions(pipeline)>>)
list_semantic_memory(pipeline, agent) ==
    Handler("list_semantic_memory", agent,
        <<Authorize, pipeline_semantic_memory(pipeline)>>)

search_semantic_memory(pipeline, agent) ==
    Handler("search_semantic_memory", agent,
        <<Authorize, pipeline_semantic_memory(pipeline)>>)

get_working_context(key, agent) ==
    Handler("get_working_context", agent, <<Authorize, Read("working_context", key)>>)

\* Ends with get_working_context, which authorizes once more, after the write.
upsert_working_context(key, agent) ==
    Handler("upsert_working_context", agent,
        <<Authorize, Upsert("working_context", key, [summary |-> agent])>>
        \o get_working_context(key, agent).statements)

(* MCP servers; an error of upsert_mcp_health is ignored. *)
upsert_mcp(name, mode, agent) ==
    Handler("upsert_mcp", agent,
        <<Authorize>> \o upsert_mcp_server(name, mode)
        \o <<Otherwise(upsert_mcp_health(name, "healthy"), "ignore")>>)

list_mcp(agent) == Handler("list_mcp", agent, <<Authorize, list_mcp_servers>>)

get_mcp_health(name, agent) ==
    Handler("get_mcp_health", agent,
        <<Authorize, Otherwise(mcp_health(name), "missing")>>)

(* Handles of runtimes: a second look when the first did not find one. *)
Settle(op, agent, status) ==
    LET tries == set_runtime_status(agent, status) IN
    Handler(op, agent,
        <<Authorize, Otherwise(tries[1], "last"), Otherwise(tries[2], "last"),
          get_runtime_handle(agent)>>)

interrupt_runtime(agent) == Settle("interrupt_runtime", agent, "interrupted")
shutdown_runtime(agent) == Settle("shutdown_runtime", agent, "shutdown")
-----------------------------------------------------------------------------
\* A request: the handler it is routed to, the agent that sends it, Nobody when
\* it has no token, and what its path and its body say.
Sent(op, agent, args) == [op |-> op, agent |-> agent, args |-> args]

\* The router, but for the stream and for broadcast_message and message_to_role, which
\* send one message after another to the agents they find (module HubStream).
app(q) ==
    CASE q.op = "heartbeat" -> heartbeat(q.agent, q.args[1])
      [] q.op = "update_agent_status" -> update_agent_status(q.agent, q.args[1])
      [] q.op = "list_agents" -> list_agents(q.agent)
      [] q.op = "get_agent" -> get_agent(q.agent)
      [] q.op = "create_task" -> create_task(q.args[1], q.agent, q.args[2])
      [] q.op = "claim_task" -> claim_task(q.args[1], q.agent)
      [] q.op = "update_task_status" -> update_task_status(q.args[1], q.agent, q.args[2])
      [] q.op = "done_task" -> done_task(q.args[1], q.agent)
      [] q.op = "get_task" -> get_task(q.args[1], q.agent)
      [] q.op = "list_tasks" -> list_tasks(q.agent)
      [] q.op = "create_file_claim" -> create_file_claim(q.args[1], q.args[2], q.agent, q.args[3])
      [] q.op = "list_file_claims" -> list_file_claims(q.args[1], q.agent)
      [] q.op = "delete_file_claim" -> delete_file_claim(q.args[1], q.agent)
      [] q.op = "create_finding" -> create_finding(q.args[1], q.agent, q.args[2])
      [] q.op = "list_findings" -> list_findings(q.agent)
      [] q.op = "search_findings" -> search_findings(q.agent)
      [] q.op = "get_finding" -> get_finding(q.args[1], q.agent)
      [] q.op = "mark_read" -> mark_read(q.args[1], q.agent)
      [] q.op = "list_messages" -> list_messages(q.args[1], q.agent)
      [] q.op = "list_threads" -> list_threads(q.agent)
      [] q.op = "get_thread_detail" -> get_thread_detail(q.args[1], q.agent)
      [] q.op = "close_thread" -> close_thread(q.args[1], q.agent)
      [] q.op = "create_message" -> create_message(q.args[1], q.agent, q.args[2], q.args[3], q.args[4])
      [] q.op = "reply_to_message" -> reply_to_message(q.args[1], q.args[2], q.args[3], q.agent, q.args[4], q.args[5])
      [] q.op = "reply_to_thread" -> reply_to_thread(q.args[1], q.args[2], q.agent, q.args[3], q.args[4])
      [] q.op = "list_models" -> list_models(q.agent)
      [] q.op = "list_capability_scores" -> list_capability_scores(q.agent)
      [] q.op = "update_capability_score" -> update_capability_score(q.args[1], q.args[2], q.agent)
      [] q.op = "create_step_metric" -> create_step_metric(q.args[1], q.args[2], q.args[3], q.args[4], q.agent)
      [] q.op = "get_pipeline_analytics" -> get_pipeline_analytics(q.args[1], q.agent)
      [] q.op = "create_pipeline" -> create_pipeline(q.args[1], q.args[2], q.args[3], q.args[4], q.agent)
      [] q.op = "update_pipeline_status" -> update_pipeline_status(q.args[1], q.args[2], q.agent)
      [] q.op = "update_pipeline_slot" -> update_pipeline_slot(q.args[1], q.args[2], q.args[3], q.agent)
      [] q.op = "create_pipeline_event" -> create_pipeline_event(q.args[1], q.args[2], q.agent)
      [] q.op = "create_artifact" -> create_artifact(q.args[1], q.args[2], q.agent)
      [] q.op = "list_pipelines" -> list_pipelines(q.agent)
      [] q.op = "get_pipeline" -> get_pipeline(q.args[1], q.agent)
      [] q.op = "list_pipeline_slots" -> list_pipeline_slots(q.args[1], q.agent)
      [] q.op = "list_pipeline_events" -> list_pipeline_events(q.args[1], q.agent)
      [] q.op = "list_pipeline_artifacts" -> list_pipeline_artifacts(q.args[1], q.agent)
      [] q.op = "create_scheduler_decision" -> create_scheduler_decision(q.args[1], q.args[2], q.agent)
      [] q.op = "create_context_compression" -> create_context_compression(q.args[1], q.args[2], q.agent)
      [] q.op = "create_semantic_memory" -> create_semantic_memory(q.args[1], q.args[2], q.agent)
      [] q.op = "list_scheduler_decisions" -> list_scheduler_decisions(q.args[1], q.agent)
      [] q.op = "list_context_compressions" -> list_context_compressions(q.args[1], q.agent)
      [] q.op = "list_semantic_memory" -> list_semantic_memory(q.args[1], q.agent)
      [] q.op = "search_semantic_memory" -> search_semantic_memory(q.args[1], q.agent)
      [] q.op = "get_working_context" -> get_working_context(q.args[1], q.agent)
      [] q.op = "upsert_working_context" -> upsert_working_context(q.args[1], q.agent)
      [] q.op = "upsert_mcp" -> upsert_mcp(q.args[1], q.args[2], q.agent)
      [] q.op = "list_mcp" -> list_mcp(q.agent)
      [] q.op = "get_mcp_health" -> get_mcp_health(q.args[1], q.agent)
      [] q.op = "interrupt_runtime" -> interrupt_runtime(q.agent)
      [] q.op = "shutdown_runtime" -> shutdown_runtime(q.agent)
Operation ==
    {"heartbeat", "update_agent_status", "list_agents", "get_agent",
     "create_task", "claim_task", "update_task_status", "done_task",
     "get_task", "list_tasks", "create_file_claim", "list_file_claims",
     "delete_file_claim", "create_finding", "list_findings",
     "search_findings", "get_finding", "mark_read", "list_messages", "list_threads",
     "get_thread_detail", "close_thread", "create_message",
     "reply_to_message", "reply_to_thread", "list_models", "list_capability_scores",
     "update_capability_score", "create_step_metric",
     "get_pipeline_analytics", "create_pipeline",
     "update_pipeline_status", "update_pipeline_slot",
     "create_pipeline_event", "create_artifact", "list_pipelines",
     "get_pipeline", "list_pipeline_slots", "list_pipeline_events",
     "list_pipeline_artifacts", "create_scheduler_decision",
     "create_context_compression", "create_semantic_memory",
     "list_scheduler_decisions", "list_context_compressions",
     "list_semantic_memory", "search_semantic_memory",
     "get_working_context", "upsert_working_context", "upsert_mcp",
     "list_mcp", "get_mcp_health", "interrupt_runtime",
     "shutdown_runtime"}

\* What the extractors of the handlers let through; they answer 422 to a body with
\* another status.  A metric's id is a row number, and a path names a thread.
Extracted(q) ==
    LET is(op, i, values) == q.op = op => q.args[i] \in values IN
    /\ q.op \in Operation
    /\ is("heartbeat", 1, AgentStatus)
    /\ is("update_agent_status", 1, AgentStatus)
    /\ is("update_task_status", 2, TaskStatus)
    /\ is("create_finding", 2, FindingKind)
    /\ is("update_capability_score", 2, BOOLEAN)
    /\ is("create_step_metric", 1, Int)
    /\ is("create_step_metric", 3, RuntimeHealth)
    /\ is("create_step_metric", 4, Nat)
    /\ is("update_pipeline_status", 2, PipelineStatus)
    /\ is("update_pipeline_slot", 3, SlotStatus)
    /\ is("create_pipeline", 3, BOOLEAN)
    /\ is("create_pipeline", 4, BOOLEAN)
    /\ q.op = "reply_to_thread" => q.args[2] # Nobody
    /\ q.op = "create_pipeline" =>
          Len(q.args[2]) \in Nat /\ DOMAIN q.args[2] = 1 .. Len(q.args[2])

RowTable ==
    {"agents", "tasks", "file_claims", "findings", "threads", "messages", "models",
     "capability_scores", "step_metrics", "scheduler_decisions",
     "context_compressions", "semantic_memory", "working_context", "pipelines",
     "slots", "pipeline_events", "artifacts", "mcp_servers", "mcp_health",
     "runtime_handles"}

\* The columns that a row of the table always has.
Columns(table) ==
    {"at", "by"} \cup
    CASE table \in {"agents", "messages", "threads", "tasks", "runtime_handles",
                    "mcp_health", "pipelines", "slots"} -> {"status"}
      [] table = "step_metrics" -> {"health", "latency_ms"}
      [] table = "findings" -> {"kind"}
      [] table = "capability_scores" -> {"success_count", "failure_count", "age"}
      [] OTHER -> {}
-----------------------------------------------------------------------------
CONSTANT
    Workloads   \* by name, the requests clients send, once each or, with
                \* "repeat", again and again, and the rows there are before

\* The clients send what is answered, those that poll ask and change nothing, and
\* the rows there are at first were written by earlier requests; a table has finitely
\* many, and those of step_metrics are numbered.
ASSUME WorkloadAssumption ==
    \A w \in DOMAIN Workloads :
        LET requests == Workloads[w].requests
            rows     == Workloads[w].rows
        IN
        /\ IsFiniteSet(DOMAIN requests)
        /\ \A r \in DOMAIN requests :
              /\ Extracted(requests[r])
              /\ Workloads[w].repeat =>
                    \A i \in DOMAIN app(requests[r]).statements :
                        app(requests[r]).statements[i].do \in {"authorize", "read", "select"}
        /\ DOMAIN rows = RowTable
        /\ \A t \in RowTable : \A k \in DOMAIN rows[t] :
              /\ Columns(t) \subseteq DOMAIN rows[t][k]
              /\ Parses(t, rows[t][k])
              /\ rows[t][k].by \notin DOMAIN requests
        /\ DOMAIN rows["step_metrics"] \subseteq Int /\ IsFiniteSet(DOMAIN rows["step_metrics"])
        /\ \A k \in DOMAIN rows["messages"] :
              /\ "thread_id" \in DOMAIN rows["messages"][k]
              /\ rows["messages"][k].thread_id \in DOMAIN rows["threads"]

VARIABLES
    workload,   \* the name of one of them; it never changes
    db,         \* per table, its rows by key
    events,     \* the rows of table events: what they announce, and of whom
    step,       \* per request, the statement it is at
    seen,       \* per request, the row in the handler's hands
    found,      \* per request, the rows its last Select returned
    answer,     \* per request: "none" yet, "ok", "not_found", "refused" by the
                \* rate limit, "unauthorized", "rejected": 400 for what it says,
                \* "bad_request": 400 for a row, or "failed": 500, or no answer
    before      \* history: per request, those answered 200 when it was received

recordVars == <<db, events, step, seen, found, answer, before>>

Work == Workloads[workload]
Request == DOMAIN Work.requests

\* What serves each request of a workload.
Routed ==
    [w \in DOMAIN Workloads |->
        [r \in DOMAIN Workloads[w].requests |-> app(Workloads[w].requests[r])]]

RecordsInit ==
    /\ db = Work.rows
    /\ events = {}
    /\ step = [r \in Request |-> 1]
    /\ seen = [r \in Request |-> NoRow]
    /\ found = [r \in Request |-> None]
    /\ answer = [r \in Request |-> "none"]
    /\ before = [r \in Request |-> {}]
-----------------------------------------------------------------------------
Statements(r) == Routed[workload][r].statements

Due(r) == Statements(r)[step[r]]

\* Received, and not answered.
UnderWay(r) == step[r] > 1 /\ answer[r] = "none"

Answer(r, what) ==
    /\ answer' = [answer EXCEPT ![r] = what]
    /\ UNCHANGED step

GoOn(r) ==
    IF step[r] = Len(Statements(r))
    THEN Answer(r, "ok")
    ELSE /\ step' = [step EXCEPT ![r] = @ + 1]
         /\ UNCHANGED answer

\* What the handler does when its statement fails, or finds no row.
OtherwiseDo(r, error) ==
    CASE Due(r).otherwise = "answer"  -> Answer(r, error) /\ UNCHANGED seen
      [] Due(r).otherwise = "ignore"  -> Answer(r, "ok") /\ UNCHANGED seen
      [] Due(r).otherwise = "missing" ->
            /\ Answer(r, "ok")
            /\ seen' = [seen EXCEPT ![r] = [status |-> "missing"]]
      [] Due(r).otherwise = "last"    ->
            /\ step' = [step EXCEPT ![r] = Len(Statements(r))]
            /\ UNCHANGED <<answer, seen>>

\* authorize: the token is the hub's, and the rate limit admits the request.
Authorized(r) ==
    /\ answer[r] = "none"
    /\ Due(r).do = "authorize"
    /\ Work.requests[r].agent # Nobody
    /\ before' = IF step[r] > 1 THEN before
                 ELSE [before EXCEPT ![r] = {q \in Request : answer[q] = "ok"}]
    /\ GoOn(r)
    /\ UNCHANGED <<db, events, seen, found>>

\* The rate limit does not.
Refused(r) ==
    /\ answer[r] = "none"
    /\ Due(r).do = "authorize"
    /\ Work.requests[r].agent # Nobody
    /\ Answer(r, "refused")
    /\ UNCHANGED <<db, events, seen, found, before>>

\* A request without the token, answered before the limit is looked at.
Unauthorized(r) ==
    /\ answer[r] = "none"
    /\ Due(r).do = "authorize"
    /\ Work.requests[r].agent = Nobody
    /\ Answer(r, "unauthorized")
    /\ UNCHANGED <<db, events, seen, found, before>>

Row(s, r, time) ==
    [c \in DOMAIN s.columns \cup {"at", "by"} |->
        CASE c = "at" -> time [] c = "by" -> r [] OTHER -> s.columns[c]]

\* The table with the row under the key.
With(rows, key, row) ==
    [k \in DOMAIN rows \cup {key} |-> IF k = key THEN row ELSE rows[k]]

\* The row that an update, or an upsert on a row that exists, makes of it.
Changed(old, s, r, time) ==
    [c \in DOMAIN old |->
        IF c \in s.add THEN old[c] + s.columns[c]
        ELSE IF c \in DOMAIN Row(s, r, time) THEN Row(s, r, time)[c] ELSE old[c]]

\* The rows of s's table after s.
Written(s, r, time) ==
    LET rows == db[s.table] IN
    CASE s.do = "delete" -> [k \in DOMAIN rows \ {s.key} |-> rows[k]]
      [] s.do \in {"insert", "add"} -> With(rows, s.key, Row(s, r, time))
      [] s.do = "log"    -> With(rows, <<s.key, r>>, Row(s, r, time))    \* AUTOINCREMENT
      [] s.do = "ensure" ->
            IF s.key \in DOMAIN rows THEN rows ELSE With(rows, s.key, Row(s, r, time))
      [] s.do = "update" ->
            [k \in DOMAIN rows |-> IF k = s.key THEN Changed(rows[k], s, r, time) ELSE rows[k]]
      [] s.do = "upsert" ->
            With(rows, s.key, IF s.key \in DOMAIN rows
                              THEN Changed(rows[s.key], s, r, time)
                              ELSE Row(s, r, time))

\* A statement that writes; a record that is inserted was built by the handler.
Write(r, time) ==
    /\ UnderWay(r)
    /\ Due(r).do \in {"insert", "add", "log", "ensure", "update", "upsert", "delete"}
    /\ db' = [db EXCEPT ![Due(r).table] = Written(Due(r), r, time)]
    /\ seen' = [seen EXCEPT ![r] =
                   IF Due(r).do = "insert" THEN Row(Due(r), r, time) ELSE @]
    /\ GoOn(r)
    /\ UNCHANGED <<events, found, before>>

\* fetch_optional of one row, or 404; a handle that is found is the answer.
ReadRow(r) ==
    /\ UnderWay(r)
    /\ Due(r).do = "read"
    /\ LET rows == db[Due(r).table]
           k    == Due(r).key
       IN
       \/ /\ k \in DOMAIN rows
          /\ IF ~Parses(Due(r).table, rows[k])
             THEN OtherwiseDo(r, "bad_request")
             ELSE /\ seen' = [seen EXCEPT ![r] = rows[k]]
                  /\ IF Due(r).otherwise = "last" THEN Answer(r, "ok") ELSE GoOn(r)
       \/ /\ k \notin DOMAIN rows
          /\ OtherwiseDo(r, "not_found")
    /\ UNCHANGED <<db, events, found, before>>

\* fetch_all: the rows with the given columns.  One that does not parse makes
\* the whole answer 400.
SelectRows(r) ==
    /\ UnderWay(r)
    /\ Due(r).do = "select"
    /\ LET s    == Due(r)
           rows == db[s.table]
           keys == {k \in DOMAIN rows :
                       \A c \in DOMAIN s.columns : rows[k][c] = s.columns[c]}
       IN  /\ found' = [found EXCEPT ![r] = [k \in keys |-> rows[k]]]
           /\ IF \A k \in keys : Parses(s.table, rows[k])
              THEN GoOn(r)
              ELSE Answer(r, "bad_request")
    /\ UNCHANGED <<db, events, seen, before>>

\* The handler looks at what it has selected.
NotEmpty(r) ==
    /\ UnderWay(r)
    /\ Due(r).do = "some"
    /\ IF found[r] = None THEN Answer(r, "not_found") ELSE GoOn(r)
    /\ UNCHANGED <<db, events, seen, found, before>>

\* The handler looks at what the request says.
Checks(r) ==
    /\ UnderWay(r)
    /\ Due(r).do = "check"
    /\ IF Due(r).columns.valid THEN GoOn(r) ELSE Answer(r, "rejected")
    /\ UNCHANGED <<db, events, seen, found, before>>

\* write_event, with what the handler has in its hands.
WriteEvent(r) ==
    /\ UnderWay(r)
    /\ Due(r).do = "event"
    /\ events' = events \cup {[type |-> Due(r).table, of |-> r, row |-> seen[r]]}
    /\ GoOn(r)
    /\ UNCHANGED <<db, seen, found, before>>

\* A statement fails.
StatementFails(r) ==
    /\ UnderWay(r)
    /\ Due(r).do \notin {"authorize", "some", "check", "panic"}
    /\ OtherwiseDo(r, "failed")
    /\ UNCHANGED <<db, events, found, before>>

\* The handler is dropped at an await: it panics, its client is gone, or its
\* process ends.
Dropped(R) ==
    /\ answer' = [r \in Request |->
                     IF r \in R /\ UnderWay(r) THEN "failed" ELSE answer[r]]
    /\ UNCHANGED <<db, events, step, seen, found, before>>

DropsOne(r) == UnderWay(r) /\ Dropped({r})
=============================================================================
