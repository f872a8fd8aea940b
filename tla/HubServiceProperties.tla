------------------------ MODULE HubServiceProperties ------------------------
(***************************************************************************)
(* What clients of the hub can rely on, with requests of several clients   *)
(* under way, statements that fail, clients that go and hubs that end.     *)
(***************************************************************************)
EXTENDS HubService, MigrationsProperties

Op(r) == Work.requests[r].op

\* The type invariant of the requests and their tables.  In particular every row
\* that some handler writes, some with literals in their SQL, is one that every
\* handler can read: a status no one parses would turn each list of its table
\* into a 400.
RecordsTypeOK ==
    /\ DOMAIN db = DOMAIN Work.rows
    /\ \A t \in DOMAIN db : \A k \in DOMAIN db[t] : Parses(t, db[t][k])
    /\ \A e \in events : e.of \in Request
    /\ \A r \in Request :
          /\ step[r] \in DOMAIN Statements(r)
          /\ answer[r] \in {"none", "ok", "not_found", "refused", "unauthorized", "rejected", "failed"}
          /\ \A k \in DOMAIN found[r] : "at" \in DOMAIN found[r][k]
          /\ before[r] \subseteq Request
    /\ \A r \in Request : UnderWay(r) => Serving

\* r's statement i has been run.
Ran(r, i) == step[r] > i \/ (answer[r] = "ok" /\ i <= Len(Statements(r)))

\* (create_file_claim looks, then inserts.)  Two agents that claim a file at the
\* same time may both find it free.  One that claims it after another's claim was
\* answered is told of that one, expired or not, unless it has been deleted.
LaterClaimIsWarned ==
    \A c, d \in Request :
        /\ Op(c) = "create_file_claim" /\ Op(d) = "create_file_claim"
        /\ c \in before[d] /\ answer[d] = "ok"
        /\ seen[c].path = seen[d].path
        => \/ \E k \in DOMAIN found[d] : found[d][k].by = c
           \/ \A k \in DOMAIN db["file_claims"] : db["file_claims"][k].by # c

\* (IMPLEMENTATION_PLAN.md: "File claims prevent concurrent edits"; the hub's test has
\* the second of two claims warned.)  Of two agents that both hold a claim of a file,
\* one was told of the other's.
OneIsWarned ==
    \A c, d \in Request :
        LET agent(r) == Work.requests[r].agent
            holds(r) == /\ Op(r) = "create_file_claim" /\ answer[r] = "ok"
                        /\ \E k \in DOMAIN db["file_claims"] : db["file_claims"][k].by = r
            told(q, r) == \E k \in DOMAIN found[q] : found[q][k].by = r
        IN  holds(c) /\ holds(d) /\ agent(c) # agent(d) /\ seen[c].path = seen[d].path
            => told(c, d) \/ told(d, c)

\* (Handlers write and then read what they answer, in two statements.)  A client
\* that was answered 200 and whose write is still the last one of a row it asked for was
\* told the row as it is, and so were those who watch the task's events: of two
\* agents that claim one task, the one that has it knows.
LastWriteIsTold ==
    \A t \in DOMAIN db \ {"mcp_health"} : \A k \in DOMAIN db[t] :
        LET row == db[t][k] IN
        /\ row.by \in Request /\ answer[row.by] = "ok"
        /\ \E i \in DOMAIN Statements(row.by) :
              LET s == Statements(row.by)[i] IN
              s.table = t /\ s.do \notin {"add", "log", "ensure"}
        =>
            /\ seen[row.by] = row
            /\ Op(row.by) = "update_task_status" =>
                  \E e \in events : e.type = "task_update" /\ e.row = row

\* (insert_message: the thread, then the message, without a transaction.)  A failure
\* or the end of the hub in between leaves a thread without messages and never a
\* message whose thread cannot be shown, answered or closed.
MessageHasThread ==
    \A k \in DOMAIN db["messages"] :
        db["messages"][k].thread_id \in DOMAIN db["threads"]

\* (update_capability_score.)  However the updates of several runs interleave and
\* whatever they were answered, the counts are those there were and the outcomes
\* whose statement ran.
OutcomesAreCounted ==
    \A k \in DOMAIN db["capability_scores"] :
        LET of(column) == {r \in Request :
                /\ Op(r) = "update_capability_score" /\ Ran(r, 2)
                /\ Statements(r)[2].key = k /\ Statements(r)[2].columns[column] = 1}
            old == IF k \in DOMAIN Work.rows["capability_scores"]
                   THEN Work.rows["capability_scores"][k]
                   ELSE [success_count |-> 0, failure_count |-> 0]
            new == db["capability_scores"][k]
        IN  /\ new.success_count = old.success_count + Cardinality(of("success_count"))
            /\ new.failure_count = old.failure_count + Cardinality(of("failure_count"))

\* (Handlers that call another handler authorize again, upsert_working_context after
\* its write.)  A request that was answered 429 can be sent again: no event is its own
\* and no row, but for one that it upserts under its key, adding to nothing, so that
\* the repeated request leaves one such row and not two, and counts nothing twice.
RefusedCanBeSentAgain ==
    \A r \in Request : answer[r] = "refused" =>
        /\ \A t \in DOMAIN db : \A k \in DOMAIN db[t] : db[t][k].by = r =>
              \E i \in DOMAIN Statements(r) :
                  LET s == Statements(r)[i] IN
                  s.do = "upsert" /\ s.add = {} /\ s.table = t /\ s.key = k
        /\ \A e \in events : e.of # r

\* (percentile.)  The median is the least latency that half of the steps do not
\* exceed, the 95th percentile that of 95 in 100, for every number of steps.
AnalyticsAreRanks ==
    \A r \in Request : Op(r) = "get_pipeline_analytics" /\ answer[r] = "ok" =>
        LET a == PipelineAnalytics(found[r])
            latency(k) == found[r][k].latency_ms
            measured == {k \in DOMAIN found[r] : latency(k) # 0}
            AtMost(x) == Cardinality({k \in measured : latency(k) <= x})
            Rank(x, pct) ==
                /\ \E k \in measured : latency(k) = x
                /\ 100 * AtMost(x) >= pct * Cardinality(measured)
                /\ \A k \in measured : latency(k) < x =>
                      100 * AtMost(latency(k)) < pct * Cardinality(measured)
        IN  measured # {} => Rank(a.p50_latency_ms, 50) /\ Rank(a.p95_latency_ms, 95)
-----------------------------------------------------------------------------
Scores == db["capability_scores"]

\* Requests of pipeline runs that were given the scores, which their scheduler
\* uses from then on.
Learners == {r \in Request : Op(r) = "list_capability_scores" /\ answer[r] = "ok"}

\* (scheduler.rs: "Maps success_rate [0,1] -> adjustment [-0.10, +0.10]".)
\* Whatever was recorded and however old it is, what was learned moves a score by
\* at most 0.10: as much as one step of the weights, so that a bad record alone
\* never makes a runtime unusable.
LearnedWithinBand ==
    \A r \in Learners : \A slot \in Slots : \A i \in DOMAIN slot.preferred :
        LET p == slot.preferred[i]
            delta == LearnedDelta(found[r], slot, p.runtime, ModelOf(Models, p.model))
        IN  -Percent(10) <= delta /\ delta <= Percent(10)

\* (assign takes the best in one pass, candidates sorts.)  With every database,
\* the runtime that assign chooses for a slot is the first of its candidates,
\* also when several score the same: the first attempt of a run and the fallback
\* order of its retries agree; without preferences and models neither has any.
ChosenIsFirstCandidate ==
    \A r \in Learners : \A slot \in Slots : \A profile \in SchedulerProfile :
        LET c == Candidates(found[r], Models, slot, profile)
            a == Assign(found[r], Models, slot, profile)
        IN  /\ Len(c) = IF slot.preferred = <<>> THEN Len(a) ELSE Len(slot.preferred)
            /\ IF a = <<>> THEN c = <<>> ELSE <<c[1]>> = a

\* An outcome of a record that counts already and is not stale moves what is
\* learned from it the right way.  (It need not otherwise: the fifth outcome makes
\* a record count, and any outcome makes a stale one fresh again, so that there a
\* success may lower a score.)
OutcomeMovesScoreRightly ==
    [][\A k \in DOMAIN Scores :
          LET old == Scores[k]
              new == Scores'[k]
          IN  Outcomes(old) >= 5 /\ old.age <= 7 /\ new # old =>
                 /\ Outcomes(new) >= 5
                 /\ IF new.success_count > old.success_count
                    THEN Delta(new) >= Delta(old)
                    ELSE Delta(new) <= Delta(old)]_serviceVars
=============================================================================
