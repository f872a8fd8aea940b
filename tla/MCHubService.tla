---------------------------- MODULE MCHubService ----------------------------
(***************************************************************************)
(* Workloads for module HubService.  Each exercises one group of handlers; *)
(* a run takes them all, one behaviour per workload and fault.             *)
(***************************************************************************)
EXTENDS HubServiceProperties, TLC

CONSTANTS h1, h2

Empty == [agents |-> None, tasks |-> None, file_claims |-> None, findings |-> None,
          threads |-> None, messages |-> None, models |-> None,
          capability_scores |-> None, step_metrics |-> None,
          scheduler_decisions |-> None, context_compressions |-> None,
          semantic_memory |-> None, working_context |-> None,
          pipelines |-> None, slots |-> None, pipeline_events |-> None,
          artifacts |-> None,
          mcp_servers |-> None, mcp_health |-> None, runtime_handles |-> None]

Preset(columns) == columns @@ [at |-> 0, by |-> "preset"]

Serve(requests, rows) ==
    [requests |-> requests, rows |-> rows, migrated |-> TRUE, hubs |-> {h1},
     horizon |-> 0, repeat |-> FALSE]

\* An empty database, two processes and no request.
Start == [Serve(None, Empty) EXCEPT !.migrated = FALSE, !.hubs = {h1, h2}]

\* One client that polls.
Poll == [Serve([r1 |-> Sent("list_agents", "ann", <<>>)], Empty) EXCEPT !.horizon = 5, !.repeat = TRUE]

\* Three agents and a file; one of the claims is deleted.
Claims ==
    [Serve([c1 |-> Sent("create_file_claim", "ann", <<"c1", "main.rs", "short">>),
            c2 |-> Sent("create_file_claim", "bob", <<"c2", "main.rs", "none">>),
            d1 |-> Sent("delete_file_claim", "bob", <<"c1">>)],
           [Empty EXCEPT !.file_claims =
              [c0 |-> Preset([path |-> "lib.rs", claimed_by |-> "ann", ttl |-> "none"])]])
     EXCEPT !.horizon = 1]

BadClaims ==
    Serve([c1 |-> Sent("create_file_claim", "ann", <<"c1", "main.rs", "beyond">>),
           l1 |-> Sent("list_file_claims", "bob", <<"main.rs">>),
           x1 |-> Sent("list_tasks", Nobody, <<>>)], Empty)

\* Two agents claim one task, whose status is changed meanwhile.
OpenTask == Preset([owner |-> Nobody, status |-> "open", created_by |-> "ann"])
Tasks ==
    Serve([c1 |-> Sent("claim_task", "ann", <<"t1">>), c2 |-> Sent("claim_task", "bob", <<"t1">>),
           u1 |-> Sent("update_task_status", "ann", <<"t1", "in_progress">>)],
          [Empty EXCEPT !.tasks = [t1 |-> OpenTask]])
NewTask ==
    Serve([n1 |-> Sent("create_task", "ann", <<"t2", "bob">>), d1 |-> Sent("done_task", "bob", <<"t2">>),
           g1 |-> Sent("get_task", "ann", <<"t2">>)], Empty)
TaskStatuses ==
    Serve([u1 |-> Sent("update_task_status", "ann", <<"t1", "blocked">>),
           u2 |-> Sent("update_task_status", "bob", <<"t1", "needs_review">>),
           d1 |-> Sent("done_task", "bob", <<"t1">>)],
          [Empty EXCEPT !.tasks = [t1 |-> OpenTask]])

Agents ==
    Serve([b1 |-> Sent("heartbeat", "ann", <<"online">>), s1 |-> Sent("update_agent_status", "ann", <<"working">>),
           g1 |-> Sent("get_agent", "ann", <<>>)], Empty)
Findings ==
    Serve([f1 |-> Sent("create_finding", "ann", <<"f1", "bug">>), l1 |-> Sent("list_findings", "bob", <<>>),
           q1 |-> Sent("search_findings", "bob", <<>>), g1 |-> Sent("get_finding", "bob", <<"f1">>)], Empty)
ModelList == Serve([m1 |-> Sent("list_models", "bob", <<>>), l1 |-> Sent("list_agents", "ann", <<>>)], Empty)

Thread == [Empty EXCEPT
    !.threads = [th |-> Preset([status |-> "open"])],
    !.messages = [m1 |-> Preset([to_agent |-> "bob", thread_id |-> "th", status |-> "unread"])]]
Threads ==
    Serve([p1 |-> Sent("reply_to_thread", "bob", <<"m2", "th", "ann", "plan">>), z1 |-> Sent("close_thread", "ann", <<"th">>),
           a1 |-> Sent("mark_read", "bob", <<"m1">>)], Thread)
Inbox ==
    Serve([a1 |-> Sent("mark_read", "bob", <<"m1">>), l1 |-> Sent("list_messages", "bob", <<"unread">>),
           l2 |-> Sent("list_threads", "bob", <<>>)], Thread)
Replies ==
    Serve([p1 |-> Sent("reply_to_message", "bob", <<"m2", "m1", "th", "ann", "plan">>),
           l1 |-> Sent("list_messages", "ann", <<"any">>)], Thread)

NewThread ==
    Serve([n1 |-> Sent("create_message", "ann", <<"m1", "bob", Nobody, "plan">>),
           n2 |-> Sent("create_message", "bob", <<"m3", "ann", "th", "plan">>),
           p1 |-> Sent("reply_to_thread", "bob", <<"m2", "m1", "ann", "plan">>)], Empty)

\* What each of these says is rejected.
Rejected ==
    Serve([n1 |-> Sent("create_message", "ann", <<"m1", "bob", Nobody, "empty">>),
           l1 |-> Sent("list_messages", "bob", <<"old">>),
           c1 |-> Sent("create_pipeline", "ann", <<"p1", <<>>, TRUE, FALSE>>)], Empty)

\* A pipeline that is created and changed by two clients.
Pipelines ==
    Serve([n1 |-> Sent("create_pipeline", "ann", <<"p1", <<"backend", "docs">>, FALSE, TRUE>>),
           u1 |-> Sent("update_pipeline_status", "bob", <<"p1", "running">>),
           l1 |-> Sent("list_pipelines", "bob", <<>>)], Empty)
OnePipeline == [Empty EXCEPT
    !.pipelines = [p1 |-> Preset([status |-> "running"])],
    !.slots = (<<"p1", "backend">> :> Preset([pipeline_id |-> "p1", status |-> "assigned"]))]
PipelineSlots ==
    Serve([u1 |-> Sent("update_pipeline_slot", "ann", <<"p1", "backend", "working">>),
           u2 |-> Sent("update_pipeline_slot", "bob", <<"p1", "backend", "vacant">>),
           l1 |-> Sent("list_pipeline_slots", "bob", <<"p1">>)], OnePipeline)
PipelineStatuses ==
    Serve([u1 |-> Sent("update_pipeline_status", "ann", <<"p1", "succeeded">>),
           u2 |-> Sent("update_pipeline_status", "bob", <<"p1", "cancelled">>),
           g1 |-> Sent("get_pipeline", "bob", <<"p1">>)], OnePipeline)
PipelineEvents ==
    Serve([e1 |-> Sent("create_pipeline_event", "ann", <<"e1", "p1">>),
           l1 |-> Sent("list_pipeline_events", "bob", <<"p1">>)], OnePipeline)
PipelineArtifacts ==
    Serve([a1 |-> Sent("create_artifact", "ann", <<"a1", "p1">>),
           l1 |-> Sent("list_pipeline_artifacts", "bob", <<"p1">>)], OnePipeline)

Servers ==
    Serve([m1 |-> Sent("upsert_mcp", "ann", <<"db", "shared">>), g1 |-> Sent("get_mcp_health", "bob", <<"db">>),
           l1 |-> Sent("list_mcp", "bob", <<>>)], Empty)
RuntimeCommands ==
    Serve([i1 |-> Sent("interrupt_runtime", "ann", <<>>), s1 |-> Sent("shutdown_runtime", "ann", <<>>)], Empty)

\* A pipeline's records; its nineteen metrics become twenty and twenty-one.
Metric(health, latency) ==
    Preset([pipeline_id |-> "p1", health |-> health, latency_ms |-> latency])
Metrics ==
    Serve([i1 |-> Sent("create_step_metric", "ann", <<20, "p1", "healthy", 5>>),
           i2 |-> Sent("create_step_metric", "ann", <<21, "p1", "crashed", 900>>),
           a1 |-> Sent("get_pipeline_analytics", "bob", <<"p1">>)],
          [Empty EXCEPT !.step_metrics =
              [k \in 1 .. 19 |-> Metric("healthy", 10 * ((7 * k) % 20))]])
Context ==
    Serve([u1 |-> Sent("upsert_working_context", "ann", <<"ctx">>),
           u2 |-> Sent("upsert_working_context", "bob", <<"ctx">>),
           g1 |-> Sent("get_working_context", "bob", <<"ctx">>)], Empty)
Records ==
    Serve([d1 |-> Sent("create_scheduler_decision", "ann", <<"d1", "p1">>),
           l1 |-> Sent("list_scheduler_decisions", "bob", <<"p1">>)], Empty)
MoreRecords ==
    Serve([c1 |-> Sent("create_context_compression", "ann", <<"c1", "p1">>),
           l1 |-> Sent("list_context_compressions", "bob", <<"p1">>)], Empty)
Memory ==
    Serve([s1 |-> Sent("create_semantic_memory", "ann", <<"s1", "p1">>),
           l1 |-> Sent("list_semantic_memory", "bob", <<"p1">>),
           q1 |-> Sent("search_semantic_memory", "bob", <<"p1">>)], Empty)

\* Outcomes of two runs at once, on records with less, with four, with five and
\* with more outcomes, fresh, a week old, older and much older.
Key(m) == <<"codex", m, "rust">>
Standing(s, f, age) ==
    Preset([success_count |-> s, failure_count |-> f, age |-> age])
FirstOutcomes ==
    Serve([u1 |-> Sent("update_capability_score", "ann", <<Key("big"), TRUE>>),
           u2 |-> Sent("update_capability_score", "bob", <<Key("big"), FALSE>>)], Empty)
LaterOutcomes(s, f, age) ==
    Serve([u1 |-> Sent("update_capability_score", "ann", <<Key("big"), TRUE>>),
           u2 |-> Sent("update_capability_score", "bob", <<Key("big"), FALSE>>),
           l1 |-> Sent("list_capability_scores", "bob", <<>>)],
          [Empty EXCEPT !.capability_scores =
             (Key("big") :> Standing(s, f, age)) @@ (Key("small") :> Standing(5, 0, 0))])

Listed ==
    <<Start, Poll, Claims, BadClaims, Tasks, NewTask,
      TaskStatuses, Agents, Findings, ModelList, Threads, Inbox, Replies, Rejected, Servers, RuntimeCommands, Metrics, Context, Records, MoreRecords, Memory,
      NewThread, Pipelines, PipelineSlots, PipelineStatuses, PipelineEvents,
      PipelineArtifacts>>
    \o <<FirstOutcomes, LaterOutcomes(0, 0, 0), LaterOutcomes(2, 2, 8), LaterOutcomes(0, 4, 21),
         LaterOutcomes(5, 0, 7), LaterOutcomes(2, 4, 0), LaterOutcomes(0, 5, 14),
         LaterOutcomes(4, 1, 8), LaterOutcomes(3, 3, 7), LaterOutcomes(7, 0, 21)>>
MCClaims == [w \in {"claims"} |->
    Serve([c1 |-> Sent("create_file_claim", "ann", <<"c1", "main.rs", "none">>),
           c2 |-> Sent("create_file_claim", "bob", <<"c2", "main.rs", "none">>)], Empty)]

MCWorkloads == [w \in DOMAIN Listed |-> Listed[w]]

MCModels == <<[id |-> "small", tier |-> "cheap", context_window |-> 0, runtime_source |-> "ollama"],
              [id |-> "big", tier |-> "premium", context_window |-> 200000, runtime_source |-> "codex"]>>

Prefer(runtime, model) == [runtime |-> runtime, model |-> model]
MCSlots ==
    {[preferred |-> <<Prefer("codex", "big"), Prefer("codex", "small"),
                      Prefer("claude_code", NoModel)>>,
      required_capabilities |-> <<"rust", "sql">>],
     \* two that score the same
     [preferred |-> <<Prefer("claude_code", "small"), Prefer("codex", "small"),
                      Prefer("claudex", "small")>>,
      required_capabilities |-> <<>>],
     [preferred |-> <<>>, required_capabilities |-> <<"rust">>]}
=============================================================================
