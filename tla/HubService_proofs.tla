-------------------------- MODULE HubService_proofs --------------------------
(***************************************************************************)
(* What the hub's clients can rely on, for every workload, every number of *)
(* requests, processes and failures, and every state of the database.      *)
(*                                                                         *)
(* The invariant says of every row and event who wrote it, and of every    *)
(* request what it has in its hands because of the statements it has run.  *)
(***************************************************************************)
EXTENDS HubServiceProperties, HubRecords_proofs, HubProcess_proofs, Scores_proofs

\* The rows' types, and those of the handlers' variables.
ServiceTypeOK ==
    /\ workload \in DOMAIN Workloads
    /\ DOMAIN db = RowTable
    /\ \A t \in RowTable : \A k \in DOMAIN db[t] :
          /\ Columns(t) \subseteq DOMAIN db[t][k]
          /\ Parses(t, db[t][k])
    /\ DOMAIN step = Request /\ DOMAIN answer = Request /\ DOMAIN seen = Request
    /\ DOMAIN found = Request /\ DOMAIN before = Request
    /\ \A r \in Request :
          /\ step[r] \in DOMAIN Statements(r)
          /\ answer[r] \in {"none", "ok", "not_found", "refused", "unauthorized", "rejected", "failed"}
    /\ \A r \in Request : UnderWay(r) => Serving

\* What was selected are rows of a table that was asked for.
FoundInv ==
    \A r \in Request : \A k \in DOMAIN found[r] :
        \E i \in DOMAIN Statements(r) :
            LET s == Statements(r)[i] IN
            /\ s.do = "select"
            /\ Columns(s.table) \subseteq DOMAIN found[r][k]
            /\ Parses(s.table, found[r][k])

\* The key that a statement of r gives its row.
KeyOf(s, r) == IF s.do = "log" THEN <<s.key, r>> ELSE s.key

\* A thread that r reads is there before r makes sure of it.
Makes(r, i) ==
    Statements(r)[i].do = "ensure" =>
        \A j \in DOMAIN Statements(r) :
            Statements(r)[j].table = Statements(r)[i].table => Statements(r)[j].do # "read"

\* Every row and event of a request is of a statement that the request has run.
AuthorInv ==
    /\ \A t \in RowTable : \A k \in DOMAIN db[t] :
          LET r == db[t][k].by IN
          r \in Request =>
              \E i \in DOMAIN Statements(r) :
                  /\ Statements(r)[i].do \in Writing \ {"delete"}
                  /\ Statements(r)[i].table = t
                  /\ k = KeyOf(Statements(r)[i], r)
                  /\ Ran(r, i) /\ Makes(r, i)
    /\ \A e \in events :
          /\ e.of \in Request
          /\ \E i \in DOMAIN Statements(e.of) :
                Statements(e.of)[i].do = "event" /\ Ran(e.of, i)

\* What a request has read, upserted or ensured is there: only claims are deleted.
ThereInv ==
    \A r \in Request : \A i \in DOMAIN Statements(r) :
        LET s == Statements(r)[i] IN
        /\ Plain(Statements(r)) /\ Ran(r, i)
        /\ s.do \in {"read", "ensure", "upsert"} /\ s.table # "file_claims"
        => s.key \in DOMAIN db[s.table]

MessageInv ==
    \A k \in DOMAIN db["messages"] :
        /\ "thread_id" \in DOMAIN db["messages"][k]
        /\ db["messages"][k].thread_id \in DOMAIN db["threads"]

\* A request has the row it wrote in its hands once it has run the statement that
\* shows it, as long as the row is its own.
ToldInv ==
    \A r \in Request : \A i, j \in DOMAIN Statements(r) :
        /\ Told(Statements(r)[i]) /\ Shows(Statements(r), i, j)
        /\ step[r] > j \/ answer[r] = "ok"
        => LET rows == db[Statements(r)[i].table] IN
           \A k \in DOMAIN rows : rows[k].by = r => seen[r] = rows[k]

AnnouncedInv ==
    \A r \in Request : Op(r) = "update_task_status" /\ answer[r] = "ok" =>
        \E e \in events : e.type = "task_update" /\ e.row = seen[r]

\* An answer is given once, but to those that poll.
BeforeInv ==
    \A r \in Request :
        /\ before[r] \subseteq Request
        /\ \A q \in before[r] : Work.repeat \/ answer[q] = "ok"

PathOf(r) == Statements(r)[2].columns.path

\* A claim has the path of its request, and a later request for that path has
\* selected it unless it was deleted.
ClaimInv ==
    /\ \A k \in DOMAIN db["file_claims"] :
          LET c == db["file_claims"][k].by IN
          c \in Request => /\ Op(c) = "create_file_claim"
                           /\ db["file_claims"][k].path = PathOf(c)
    /\ \A c \in Request :
          Op(c) = "create_file_claim" /\ Ran(c, Len(Statements(c)) - 1) =>
              seen[c].path = PathOf(c)
    /\ \A c, d \in Request :
          /\ Op(c) = "create_file_claim" /\ Op(d) = "create_file_claim"
          /\ c \in before[d] /\ Ran(d, 2) /\ PathOf(c) = PathOf(d)
          => \/ \E k \in DOMAIN found[d] : found[d][k].by = c
             \/ \A k \in DOMAIN db["file_claims"] : db["file_claims"][k].by # c

\* The outcomes that were recorded under a key.
Recorded(column, k) ==
    {r \in Request :
        /\ Op(r) = "update_capability_score" /\ Ran(r, 2)
        /\ Statements(r)[2].key = k /\ Statements(r)[2].columns[column] = 1}

CountInv ==
    /\ DOMAIN Work.rows["capability_scores"] \subseteq DOMAIN Scores
    /\ \A k \in DOMAIN Scores :
          LET old == IF k \in DOMAIN Work.rows["capability_scores"]
                     THEN Work.rows["capability_scores"][k]
                     ELSE [success_count |-> 0, failure_count |-> 0]
          IN  /\ Scores[k].success_count
                    = old.success_count + Cardinality(Recorded("success_count", k))
              /\ Scores[k].failure_count
                    = old.failure_count + Cardinality(Recorded("failure_count", k))

\* Metrics are finitely many and numbered, and so are those that were asked for.
MetricInv ==
    /\ DOMAIN db["step_metrics"] \subseteq Int /\ IsFiniteSet(DOMAIN db["step_metrics"])
    /\ \A r \in Request : Op(r) = "get_pipeline_analytics" =>
          DOMAIN found[r] \subseteq Int /\ IsFiniteSet(DOMAIN found[r])

\* Only authorize answers 429.
RefusedInv ==
    \A r \in Request : answer[r] = "refused" => Statements(r)[step[r]].do = "authorize"

ServiceIInv ==
    /\ ServiceTypeOK
    /\ FoundInv
    /\ AuthorInv
    /\ ThereInv
    /\ MessageInv
    /\ ToldInv
    /\ AnnouncedInv
    /\ BeforeInv
    /\ ClaimInv
    /\ CountInv
    /\ MetricInv
    /\ RefusedInv
-----------------------------------------------------------------------------
(* The requests of a workload. *)
LEMMA Contract ==
  ASSUME workload \in DOMAIN Workloads, NEW r \in Request
  PROVE  LET ss == Statements(r) IN
         /\ Shape(ss) /\ ThreadsFirst(ss) /\ Tells(ss) /\ Aside(ss)
         /\ AsksFirst(ss)
         /\ \A i \in DOMAIN ss : ss[i].do \in Writing =>
               /\ ss[i].table = "capability_scores" => Op(r) = "update_capability_score"
               /\ ss[i].table = "file_claims" =>
                     ss[i].do = "delete" \/ Op(r) = "create_file_claim"
               /\ ss[i].table = "step_metrics" => ss[i].do = "insert" /\ ss[i].key \in Int
         /\ Op(r) = "create_file_claim" => Claiming(ss)
         /\ Op(r) = "update_capability_score" => Scoring(ss)
         /\ Op(r) = "update_task_status" => Announcing(ss)
         /\ Op(r) = "get_pipeline_analytics" => Asking(ss, "step_metrics")
         /\ Op(r) = "list_capability_scores" => Asking(ss, "capability_scores")
         /\ Work.repeat => \A i \in DOMAIN ss : ss[i].do \in {"authorize", "read", "select"}
<1> DEFINE q == Work.requests[r]
           h == app(q)
<1>1. Extracted(q)
  BY WorkloadAssumption DEF Request, Work
<1>2. Conforms(h) /\ h.op = q.op
  BY <1>1, RoutedConforms
<1>3. h.statements = Statements(r)
  BY DEF Statements, Routed, Request, Work
<1>4. h.op = Op(r)
  BY <1>2 DEF Op
<1>5. Work.repeat => \A i \in DOMAIN h.statements :
                        h.statements[i].do \in {"authorize", "read", "select"}
  BY WorkloadAssumption DEF Request, Work
<1> HIDE DEF h
<1> QED BY <1>2, <1>3, <1>4, <1>5 DEF Conforms, Owned, Named

\* What the next lemmas use most of it.
LEMMA ShapeOf ==
  ASSUME workload \in DOMAIN Workloads, NEW r \in Request
  PROVE  LET ss == Statements(r) IN
         /\ Len(ss) \in Nat \ {0} /\ DOMAIN ss = 1 .. Len(ss)
         /\ \A i \in DOMAIN ss :
               /\ ss[i].do \in Does
               /\ ss[i].otherwise \in {"answer", "ignore", "missing", "last"}
               /\ ss[i].do \in OnTable => ss[i].table \in RowTable
               /\ Fits(ss[i])
  BY Contract DEF Shape

\* The statements of a request are those of its workload, which never changes.
LEMMA SameStatements ==
  ASSUME UNCHANGED workload
  PROVE  /\ Work' = Work /\ Request' = Request
         /\ \A r : Statements(r)' = Statements(r) /\ Op(r)' = Op(r)
  BY DEF Work, Request, Statements, Op
-----------------------------------------------------------------------------
(* Rows. *)
\* Whether a row parses depends on the columns of its table alone.
LEMMA ParsesSame ==
  ASSUME NEW t \in RowTable, NEW old, NEW new, Parses(t, old),
         \A c \in Columns(t) \ {"at", "by"} : new[c] = old[c]
  PROVE  Parses(t, new)
  BY DEF RowTable, Columns, Parses, row_to_agent, row_to_message, row_to_thread, row_to_task,
         row_to_step_metric, row_to_agent_handle, row_to_mcp_health, row_to_pipeline,
         row_to_slot, row_to_finding, row_to_capability_score

\* A row that a statement writes has its columns, its time and its author.
LEMMA RowFacts ==
  ASSUME NEW s, NEW r, NEW time, s.do \in Writing \ {"delete"}, s.table \in RowTable, Fits(s)
  PROVE  LET row == Row(s, r, time) IN
         /\ DOMAIN row = DOMAIN s.columns \cup {"at", "by"}
         /\ row.by = r /\ row.at = time
         /\ \A c \in DOMAIN s.columns : row[c] = s.columns[c]
         /\ Columns(s.table) \subseteq DOMAIN row
         /\ Parses(s.table, row)
<1> DEFINE row == Row(s, r, time)
<1>1. /\ DOMAIN row = DOMAIN s.columns \cup {"at", "by"}
      /\ row.by = r /\ row.at = time
      /\ \A c \in DOMAIN s.columns : c \notin {"at", "by"} => row[c] = s.columns[c]
  BY DEF Row
<1>2. /\ \A c \in DOMAIN s.columns : row[c] = s.columns[c]
      /\ Columns(s.table) \subseteq DOMAIN row
  BY <1>1 DEF Fits
<1>3. \A c \in Columns(s.table) \ {"at", "by"} : row[c] = s.columns[c]
  BY <1>2 DEF Fits
<1> HIDE DEF row
<1>4. Parses(s.table, row)
  BY <1>3, ParsesSame DEF Fits
<1> QED BY <1>1, <1>2, <1>4 DEF row

\* A row that is changed keeps its columns and has those of the statement.
LEMMA ChangedFacts ==
  ASSUME NEW s, NEW r, NEW time, NEW old,
         s.do \in Writing \ {"delete"}, s.table \in RowTable, Fits(s),
         Columns(s.table) \subseteq DOMAIN old, Parses(s.table, old)
  PROVE  LET new == Changed(old, s, r, time) IN
         /\ DOMAIN new = DOMAIN old
         /\ new.by = r /\ new.at = time
         /\ \A c \in DOMAIN old \ (DOMAIN s.columns \cup s.add \cup {"at", "by"}) :
               new[c] = old[c]
         /\ \A c \in DOMAIN old \cap s.add : new[c] = old[c] + s.columns[c]
         /\ \A c \in (DOMAIN old \cap DOMAIN s.columns) \ s.add : new[c] = s.columns[c]
         /\ Parses(s.table, new)
<1> DEFINE row == Row(s, r, time)
           new == Changed(old, s, r, time)
<1>1. /\ DOMAIN row = DOMAIN s.columns \cup {"at", "by"}
      /\ row.by = r /\ row.at = time
      /\ \A c \in DOMAIN s.columns : row[c] = s.columns[c]
  BY RowFacts
<1>2. /\ {"at", "by"} \subseteq Columns(s.table)
      /\ s.add \subseteq {"success_count", "failure_count"}
      /\ "at" \notin DOMAIN s.columns /\ "by" \notin DOMAIN s.columns
  BY DEF Columns, Fits
<1>3. /\ DOMAIN new = DOMAIN old
      /\ \A c \in DOMAIN old :
            new[c] = IF c \in s.add THEN old[c] + s.columns[c]
                     ELSE IF c \in DOMAIN row THEN row[c] ELSE old[c]
  BY DEF Changed
<1> HIDE DEF row, new
<1>4. /\ new.by = r /\ new.at = time
      /\ \A c \in DOMAIN old \ (DOMAIN s.columns \cup s.add \cup {"at", "by"}) :
            new[c] = old[c]
      /\ \A c \in DOMAIN old \cap s.add : new[c] = old[c] + s.columns[c]
      /\ \A c \in (DOMAIN old \cap DOMAIN s.columns) \ s.add : new[c] = s.columns[c]
  BY <1>1, <1>2, <1>3
<1>5. CASE s.table # "capability_scores"
  <2>1. \A c \in Columns(s.table) \ {"at", "by"} : new[c] = s.columns[c]
    BY <1>4, <1>5 DEF Fits
  <2> QED BY <1>3, <1>4, <2>1, ParsesSame DEF new, Fits
<1>6. CASE s.table = "capability_scores"
  <2>1. /\ old.success_count \in Nat /\ old.failure_count \in Nat /\ old.age \in Nat
        /\ s.columns.success_count \in Nat /\ s.columns.failure_count \in Nat
        /\ s.columns.age \in Nat
    BY <1>6 DEF Parses, row_to_capability_score, Fits
  <2>2. {"success_count", "failure_count", "age"} \subseteq DOMAIN old \cap DOMAIN s.columns
    BY <1>6 DEF Columns, Fits
  <2>3. \A c \in {"success_count", "failure_count", "age"} :
           new[c] = old[c] + s.columns[c] \/ new[c] = s.columns[c]
    BY <1>4, <2>2
  <2>4. new.success_count \in Nat /\ new.failure_count \in Nat /\ new.age \in Nat
    BY <2>1, <2>3
  <2>5. Parses(s.table, new)
    BY <1>6, <2>4 DEF Parses, row_to_capability_score
  <2> QED BY <1>3, <1>4, <2>5 DEF new
<1> QED BY <1>5, <1>6
-----------------------------------------------------------------------------
(* What the actions do.  A step is that of one request, which goes on, is  *)
(* answered an error or skips the rest; or requests are dropped; or one is *)
(* sent again.                                                             *)

\* The new rows of statement s of r.
NewRow(s, r, k) ==
    LET rows == db[s.table]
        row  == db'[s.table][k]
    IN
    /\ s.do \in Writing \ {"delete"}
    /\ k = KeyOf(s, r)
    /\ \/ /\ s.do \in {"insert", "add", "log"} \/ k \notin DOMAIN rows
          /\ s.do # "update"
          /\ row = Row(s, r, now)
       \/ /\ s.do \in {"update", "upsert"} /\ k \in DOMAIN rows
          /\ row = Changed(rows[k], s, r, now)

\* Statement s of r has been executed.
Wrote(s, r) ==
    /\ DOMAIN db' = RowTable
    /\ \A t \in RowTable : t # s.table => db'[t] = db[t]
    /\ \A k \in DOMAIN db'[s.table] :
          \/ /\ k \in DOMAIN db[s.table] /\ db'[s.table][k] = db[s.table][k]
             /\ s.do \notin {"insert", "upsert"} \/ k # s.key
          \/ NewRow(s, r, k)
    /\ IF s.do = "delete"
       THEN s.table = "file_claims"
       ELSE DOMAIN db[s.table] \subseteq DOMAIN db'[s.table]
    /\ s.do \in {"insert", "ensure", "upsert"} => s.key \in DOMAIN db'[s.table]

\* Its statement succeeds.
Goes(r) ==
    LET s == Due(r) IN
    /\ IF step[r] = Len(Statements(r))
       THEN step'[r] = step[r] /\ answer'[r] = "ok"
       ELSE step'[r] = step[r] + 1 /\ answer'[r] = "none"
    /\ IF s.do \in Writing THEN Wrote(s, r) ELSE UNCHANGED db
    /\ IF s.do = "event"
       THEN events' = events \cup {[type |-> s.table, of |-> r, row |-> seen[r]]}
       ELSE UNCHANGED events
    /\ s.do = "insert" => seen'[r] = Row(s, r, now)
    /\ s.do = "read" => seen'[r] = db[s.table][s.key]
    /\ s.do \notin {"insert", "read"} => seen'[r] = seen[r]
    /\ s.do = "read" => s.key \in DOMAIN db[s.table]
    /\ found'[r] = IF s.do = "select"
                   THEN [k \in {l \in DOMAIN db[s.table] : \A c \in DOMAIN s.columns :
                                   db[s.table][l][c] = s.columns[c]} |-> db[s.table][k]]
                   ELSE found[r]
    /\ before'[r] = IF s.do = "authorize" /\ step[r] = 1
                    THEN {q \in Request : answer[q] = "ok"}
                    ELSE before[r]

\* It is answered an error.
Errs(r) ==
    /\ step'[r] = step[r]
    /\ answer'[r] \in {"not_found", "refused", "unauthorized", "rejected", "failed"}
    /\ answer'[r] = "refused" => Due(r).do = "authorize"
    /\ seen'[r] = seen[r] /\ found'[r] = found[r] /\ before'[r] = before[r]
    /\ UNCHANGED <<db, events>>

\* It is answered 200 early, or is at its last statement.
Skips(r) ==
    LET s == Due(r) IN
    /\ \/ /\ s.otherwise = "ignore"
          /\ step'[r] = step[r] /\ answer'[r] = "ok" /\ seen'[r] = seen[r]
       \/ /\ s.otherwise = "missing"
          /\ step'[r] = step[r] /\ answer'[r] = "ok"
       \/ /\ s.otherwise = "last"
          /\ step'[r] = Len(Statements(r)) /\ answer'[r] = "none" /\ seen'[r] = seen[r]
       \/ /\ s.otherwise = "last" /\ s.do = "read"
          /\ step'[r] = step[r] /\ answer'[r] = "ok"
          /\ s.key \in DOMAIN db[s.table] /\ seen'[r] = db[s.table][s.key]
    /\ found'[r] = found[r] /\ before'[r] = before[r]
    /\ UNCHANGED <<db, events>>

Domains ==
    /\ DOMAIN step' = Request /\ DOMAIN answer' = Request /\ DOMAIN seen' = Request
    /\ DOMAIN found' = Request /\ DOMAIN before' = Request

Serves(r) ==
    /\ answer[r] = "none"
    /\ Due(r).do = "authorize" \/ step[r] > 1
    /\ Domains
    /\ \A q \in Request \ {r} :
          /\ step'[q] = step[q] /\ answer'[q] = answer[q] /\ seen'[q] = seen[q]
          /\ found'[q] = found[q] /\ before'[q] = before[q]
    /\ Goes(r) \/ Errs(r) \/ Skips(r)
    /\ UNCHANGED workload

Drops ==
    /\ UNCHANGED <<db, events, step, seen, found, before, workload>>
    /\ DOMAIN answer' = Request
    /\ \A q \in Request :
          answer'[q] = answer[q] \/ (answer[q] = "none" /\ answer'[q] = "failed")

\* What a writing statement makes of the rows of its table.
LEMMA WriteEffect ==
  ASSUME ServiceTypeOK, NEW r \in Request, NEW s, s.do \in Writing, s.table \in RowTable,
         s.do = "delete" => s.table = "file_claims",
         db' = [db EXCEPT ![s.table] = Written(s, r, now)]
  PROVE  Wrote(s, r)
<1> DEFINE rows == db[s.table]
           new  == Written(s, r, now)
<1>1. /\ DOMAIN db' = RowTable /\ db'[s.table] = new
      /\ \A t \in RowTable : t # s.table => db'[t] = db[t]
  BY DEF ServiceTypeOK
<1>2. CASE s.do = "delete"
  <2>1. new = [k \in DOMAIN rows \ {s.key} |-> rows[k]]
    BY <1>2 DEF Written
  <2> QED BY <1>1, <1>2, <2>1 DEF Wrote
<1>3. CASE s.do \in {"insert", "add", "log"}
  <2>1. new = With(rows, KeyOf(s, r), Row(s, r, now))
    BY <1>3 DEF Written, KeyOf
  <2>2. /\ DOMAIN new = DOMAIN rows \cup {KeyOf(s, r)}
        /\ \A k \in DOMAIN new : new[k] = IF k = KeyOf(s, r) THEN Row(s, r, now) ELSE rows[k]
    BY <2>1 DEF With
  <2>3. s.do # "log" => KeyOf(s, r) = s.key
    BY DEF KeyOf
  <2> HIDE DEF new
  <2> QED BY <1>1, <1>3, <2>2, <2>3 DEF Wrote, NewRow, Writing
<1>4. CASE s.do = "ensure"
  <2>1. new = IF s.key \in DOMAIN rows THEN rows ELSE With(rows, s.key, Row(s, r, now))
    BY <1>4 DEF Written
  <2>2. /\ DOMAIN new = DOMAIN rows \cup {s.key}
        /\ \A k \in DOMAIN new : \/ k \in DOMAIN rows /\ new[k] = rows[k]
                                 \/ k = s.key /\ k \notin DOMAIN rows /\ new[k] = Row(s, r, now)
    BY <2>1 DEF With
  <2>3. KeyOf(s, r) = s.key
    BY <1>4 DEF KeyOf
  <2> HIDE DEF new
  <2> QED BY <1>1, <1>4, <2>2, <2>3 DEF Wrote, NewRow, Writing
<1>5. CASE s.do = "update"
  <2>1. new = [k \in DOMAIN rows |->
                  IF k = s.key THEN Changed(rows[k], s, r, now) ELSE rows[k]]
    BY <1>5 DEF Written
  <2>2. KeyOf(s, r) = s.key
    BY <1>5 DEF KeyOf
  <2>3. /\ DOMAIN new = DOMAIN rows
        /\ \A k \in DOMAIN new : \/ k # s.key /\ new[k] = rows[k]
                                 \/ k = s.key /\ new[k] = Changed(rows[k], s, r, now)
    BY <2>1
  <2> HIDE DEF new
  <2> QED BY <1>1, <1>5, <2>2, <2>3 DEF Wrote, NewRow, Writing
<1>6. CASE s.do = "upsert"
  <2>1. new = With(rows, s.key, IF s.key \in DOMAIN rows
                                THEN Changed(rows[s.key], s, r, now)
                                ELSE Row(s, r, now))
    BY <1>6 DEF Written
  <2>2. KeyOf(s, r) = s.key
    BY <1>6 DEF KeyOf
  <2>3. /\ DOMAIN new = DOMAIN rows \cup {s.key}
        /\ \A k \in DOMAIN new :
              \/ k # s.key /\ k \in DOMAIN rows /\ new[k] = rows[k]
              \/ k = s.key /\ k \in DOMAIN rows /\ new[k] = Changed(rows[k], s, r, now)
              \/ k = s.key /\ k \notin DOMAIN rows /\ new[k] = Row(s, r, now)
    BY <2>1 DEF With
  <2> HIDE DEF new
  <2> QED BY <1>1, <1>6, <2>2, <2>3 DEF Wrote, NewRow, Writing
<1> QED BY <1>2, <1>3, <1>4, <1>5, <1>6 DEF Writing

\* GoOn and Answer, request by request.
LEMMA GoOnEffect ==
  ASSUME ServiceTypeOK, NEW r \in Request, GoOn(r), answer[r] = "none"
  PROVE  /\ DOMAIN step' = Request /\ DOMAIN answer' = Request
         /\ \A q \in Request \ {r} : step'[q] = step[q] /\ answer'[q] = answer[q]
         /\ IF step[r] = Len(Statements(r))
            THEN step'[r] = step[r] /\ answer'[r] = "ok"
            ELSE step'[r] = step[r] + 1 /\ answer'[r] = "none"
  BY DEF ServiceTypeOK, GoOn, Answer

\* How a request goes on, or ends, after a statement that fails.
LEMMA AnswerEffect ==
  ASSUME ServiceTypeOK, NEW r \in Request, NEW what, Answer(r, what)
  PROVE  /\ DOMAIN step' = Request /\ DOMAIN answer' = Request
         /\ \A q \in Request \ {r} : step'[q] = step[q] /\ answer'[q] = answer[q]
         /\ step'[r] = step[r] /\ answer'[r] = what
  BY DEF ServiceTypeOK, Answer

\* A statement that fails ends the request, or the rest of it.
LEMMA OtherwiseEffect ==
  ASSUME ServiceTypeOK, NEW r \in Request, NEW error, OtherwiseDo(r, error),
         error \in {"not_found", "failed"}, answer[r] = "none",
         Due(r).do # "authorize", step[r] > 1,
         UNCHANGED <<db, events, found, before, workload>>
  PROVE  Serves(r)
<1>1. Due(r).otherwise \in {"answer", "ignore", "missing", "last"}
  BY ShapeOf DEF ServiceTypeOK, Due
<1>2. /\ DOMAIN found' = Request /\ DOMAIN before' = Request
      /\ \A q \in Request : found'[q] = found[q] /\ before'[q] = before[q]
  BY DEF ServiceTypeOK
<1>3. CASE Due(r).otherwise = "answer"
  <2>1. Answer(r, error) /\ UNCHANGED seen
    BY <1>3 DEF OtherwiseDo
  <2>2. Errs(r) /\ Domains
    BY <1>2, <2>1, AnswerEffect DEF Errs, Domains, ServiceTypeOK
  <2> QED BY <1>2, <2>1, <2>2, AnswerEffect DEF Serves
<1>4. CASE Due(r).otherwise = "ignore"
  <2>1. Answer(r, "ok") /\ UNCHANGED seen
    BY <1>4 DEF OtherwiseDo
  <2>2. Skips(r) /\ Domains
    BY <1>2, <1>4, <2>1, AnswerEffect DEF Skips, Domains, ServiceTypeOK
  <2> QED BY <1>2, <2>1, <2>2, AnswerEffect DEF Serves
<1>5. CASE Due(r).otherwise = "missing"
  <2>1. Answer(r, "ok") /\ seen' = [seen EXCEPT ![r] = [status |-> "missing"]]
    BY <1>5 DEF OtherwiseDo
  <2>2. Skips(r) /\ Domains
    BY <1>2, <1>5, <2>1, AnswerEffect DEF Skips, Domains, ServiceTypeOK
  <2>3. \A q \in Request \ {r} : seen'[q] = seen[q]
    BY <2>1 DEF ServiceTypeOK
  <2> QED BY <1>2, <2>1, <2>2, <2>3, AnswerEffect DEF Serves
<1>6. CASE Due(r).otherwise = "last"
  <2>1. step' = [step EXCEPT ![r] = Len(Statements(r))] /\ UNCHANGED <<answer, seen>>
    BY <1>6 DEF OtherwiseDo
  <2>2. Skips(r) /\ Domains
    BY <1>2, <1>6, <2>1 DEF Skips, Domains, ServiceTypeOK
  <2>3. \A q \in Request \ {r} : step'[q] = step[q]
    BY <2>1 DEF ServiceTypeOK
  <2> QED BY <1>2, <2>1, <2>2, <2>3 DEF Serves
<1> QED BY <1>1, <1>3, <1>4, <1>5, <1>6

\* A statement that succeeds, but for the write of the row or the event.
LEMMA AuthorizedServes ==
  ASSUME ServiceTypeOK, NEW r \in Request, UNCHANGED workload,
         Authorized(r) \/ Refused(r) \/ Unauthorized(r)
  PROVE  Serves(r)
<1>1. CASE Authorized(r)
  <2>1. /\ GoOn(r) /\ answer[r] = "none" /\ Due(r).do = "authorize"
        /\ UNCHANGED <<db, events, seen, found>>
        /\ before' = IF step[r] > 1 THEN before
                     ELSE [before EXCEPT ![r] = {q \in Request : answer[q] = "ok"}]
    BY <1>1 DEF Authorized
  <2>2. /\ DOMAIN before' = Request
        /\ \A q \in Request \ {r} : before'[q] = before[q]
        /\ before'[r] = IF step[r] = 1 THEN {q \in Request : answer[q] = "ok"}
                        ELSE before[r]
    BY <2>1, ShapeOf DEF ServiceTypeOK
  <2>3. Goes(r) /\ Domains
    BY <2>1, <2>2, GoOnEffect DEF Goes, Domains, ServiceTypeOK, Writing
  <2> QED BY <2>1, <2>2, <2>3, GoOnEffect DEF Serves
<1>2. CASE Refused(r) \/ Unauthorized(r)
  <2>1. /\ answer[r] = "none" /\ Due(r).do = "authorize"
        /\ Answer(r, "refused") \/ Answer(r, "unauthorized")
        /\ UNCHANGED <<db, events, seen, found, before>>
    BY <1>2 DEF Refused, Unauthorized
  <2>2. Errs(r) /\ Domains
    BY <2>1, AnswerEffect DEF Errs, Domains, ServiceTypeOK
  <2> QED BY <2>1, <2>2, AnswerEffect DEF Serves
<1> QED BY <1>1, <1>2

\* A statement that writes is a step of one request.
LEMMA WriteServes ==
  ASSUME ServiceTypeOK, NEW r \in Request, UNCHANGED workload, Write(r, now)
  PROVE  Serves(r)
<1> DEFINE s == Due(r)
<1>1. /\ answer[r] = "none" /\ step[r] > 1 /\ s.do \in Writing
      /\ db' = [db EXCEPT ![s.table] = Written(s, r, now)]
      /\ seen' = [seen EXCEPT ![r] = IF s.do = "insert" THEN Row(s, r, now) ELSE @]
      /\ GoOn(r)
      /\ UNCHANGED <<events, found, before>>
  BY DEF Write, UnderWay, Writing
<1>2. step[r] \in DOMAIN Statements(r) /\ s.do \notin {"event", "read", "select", "authorize"}
  BY <1>1 DEF ServiceTypeOK, Writing
<1>3. s.table \in RowTable /\ (s.do = "delete" => s.table = "file_claims")
  BY <1>1, <1>2, Contract DEF ServiceTypeOK, Shape, OnTable, Due
<1> HIDE DEF s
<1>4. Wrote(s, r)
  BY <1>1, <1>3, WriteEffect
<1>5. /\ seen'[r] = IF s.do = "insert" THEN Row(s, r, now) ELSE seen[r]
      /\ \A q \in Request \ {r} : seen'[q] = seen[q]
  BY <1>1 DEF ServiceTypeOK
<1>6. Goes(r) /\ Domains
  BY <1>1, <1>2, <1>4, <1>5, GoOnEffect DEF Goes, Domains, ServiceTypeOK, s
<1> QED BY <1>1, <1>5, <1>6, GoOnEffect DEF Serves

\* So is one that reads a row, or finds none,
LEMMA ReadRowServes ==
  ASSUME ServiceTypeOK, NEW r \in Request, UNCHANGED workload, ReadRow(r)
  PROVE  Serves(r)
<1> DEFINE s    == Due(r)
           rows == db[s.table]
<1>1. /\ answer[r] = "none" /\ step[r] > 1 /\ s.do = "read"
      /\ UNCHANGED <<db, events, found, before>>
  BY DEF ReadRow, UnderWay
<1>2. s.table \in RowTable
  BY <1>1, Contract DEF ServiceTypeOK, Shape, OnTable, Due
<1>3. \A k \in DOMAIN rows : Parses(s.table, rows[k])
  BY <1>2 DEF ServiceTypeOK
<1>4. \/ /\ s.key \in DOMAIN rows
         /\ seen' = [seen EXCEPT ![r] = rows[s.key]]
         /\ IF s.otherwise = "last" THEN Answer(r, "ok") ELSE GoOn(r)
      \/ OtherwiseDo(r, "not_found")
  BY <1>3 DEF ReadRow
<1>5. CASE OtherwiseDo(r, "not_found")
  BY <1>1, <1>5, OtherwiseEffect
<1>6. CASE /\ s.key \in DOMAIN rows
           /\ seen' = [seen EXCEPT ![r] = rows[s.key]]
           /\ IF s.otherwise = "last" THEN Answer(r, "ok") ELSE GoOn(r)
  <2>1. /\ seen'[r] = rows[s.key] /\ DOMAIN seen' = Request
        /\ \A q \in Request \ {r} : seen'[q] = seen[q]
    BY <1>6 DEF ServiceTypeOK
  <2>2. CASE s.otherwise = "last"
    <3>1. Skips(r) /\ Domains
      BY <1>1, <1>6, <2>1, <2>2, AnswerEffect DEF Skips, Domains, ServiceTypeOK
    <3> QED BY <1>1, <1>6, <2>1, <2>2, <3>1, AnswerEffect DEF Serves
  <2>3. CASE s.otherwise # "last"
    <3>1. Goes(r) /\ Domains
      BY <1>1, <1>6, <2>1, <2>3, GoOnEffect DEF Goes, Domains, ServiceTypeOK, Writing
    <3> QED BY <1>1, <1>6, <2>1, <2>3, <3>1, GoOnEffect DEF Serves
  <2> QED BY <2>2, <2>3
<1> QED BY <1>4, <1>5, <1>6

\* one that selects rows,
LEMMA SelectRowsServes ==
  ASSUME ServiceTypeOK, NEW r \in Request, UNCHANGED workload, SelectRows(r)
  PROVE  Serves(r)
<1> DEFINE s    == Due(r)
           rows == db[s.table]
           keys == {k \in DOMAIN rows :
                       \A c \in DOMAIN s.columns : rows[k][c] = s.columns[c]}
<1>1. /\ answer[r] = "none" /\ step[r] > 1 /\ s.do = "select"
      /\ UNCHANGED <<db, events, seen, before>>
      /\ found' = [found EXCEPT ![r] = [k \in keys |-> rows[k]]]
  BY DEF SelectRows, UnderWay
<1>2. s.table \in RowTable
  BY <1>1, Contract DEF ServiceTypeOK, Shape, OnTable, Due
<1>3. \A k \in DOMAIN rows : Parses(s.table, rows[k])
  BY <1>2 DEF ServiceTypeOK
<1>4. GoOn(r)
  BY <1>3 DEF SelectRows
<1>5. /\ found'[r] = [k \in keys |-> rows[k]] /\ DOMAIN found' = Request
      /\ \A q \in Request \ {r} : found'[q] = found[q]
  BY <1>1 DEF ServiceTypeOK
<1>6. Goes(r) /\ Domains
  BY <1>1, <1>4, <1>5, GoOnEffect DEF Goes, Domains, ServiceTypeOK, Writing
<1> QED BY <1>1, <1>4, <1>5, <1>6, GoOnEffect DEF Serves

\* and everything else that a handler does.
LEMMA RestServes ==
  ASSUME ServiceTypeOK, NEW r \in Request, UNCHANGED workload,
         NotEmpty(r) \/ Checks(r) \/ WriteEvent(r) \/ StatementFails(r)
  PROVE  Serves(r)
<1>1. CASE NotEmpty(r)
  <2>1. /\ answer[r] = "none" /\ step[r] > 1 /\ Due(r).do = "some"
        /\ Answer(r, "not_found") \/ GoOn(r)
        /\ UNCHANGED <<db, events, seen, found, before>>
    BY <1>1 DEF NotEmpty, UnderWay
  <2>2. CASE GoOn(r)
    <3>1. Goes(r) /\ Domains
      BY <2>1, <2>2, GoOnEffect DEF Goes, Domains, ServiceTypeOK, Writing
    <3> QED BY <2>1, <2>2, <3>1, GoOnEffect DEF Serves
  <2>3. CASE Answer(r, "not_found")
    <3>1. Errs(r) /\ Domains
      BY <2>1, <2>3, AnswerEffect DEF Errs, Domains, ServiceTypeOK
    <3> QED BY <2>1, <2>3, <3>1, AnswerEffect DEF Serves
  <2> QED BY <2>1, <2>2, <2>3
<1>2. CASE WriteEvent(r)
  <2>1. /\ answer[r] = "none" /\ step[r] > 1 /\ Due(r).do = "event"
        /\ events' = events \cup {[type |-> Due(r).table, of |-> r, row |-> seen[r]]}
        /\ GoOn(r)
        /\ UNCHANGED <<db, seen, found, before>>
    BY <1>2 DEF WriteEvent, UnderWay
  <2>2. Goes(r) /\ Domains
    BY <2>1, GoOnEffect DEF Goes, Domains, ServiceTypeOK, Writing
  <2> QED BY <2>1, <2>2, GoOnEffect DEF Serves
<1>3. CASE StatementFails(r)
  BY <1>3, OtherwiseEffect DEF StatementFails, UnderWay
<1>4. CASE Checks(r)
  <2>1. /\ answer[r] = "none" /\ step[r] > 1 /\ Due(r).do = "check"
        /\ Answer(r, "rejected") \/ GoOn(r)
        /\ UNCHANGED <<db, events, seen, found, before>>
    BY <1>4 DEF Checks, UnderWay
  <2>2. CASE GoOn(r)
    <3>1. Goes(r) /\ Domains
      BY <2>1, <2>2, GoOnEffect DEF Goes, Domains, ServiceTypeOK, Writing
    <3> QED BY <2>1, <2>2, <3>1, GoOnEffect DEF Serves
  <2>3. CASE Answer(r, "rejected")
    <3>1. Errs(r) /\ Domains
      BY <2>1, <2>3, AnswerEffect DEF Errs, Domains, ServiceTypeOK
    <3> QED BY <2>1, <2>3, <3>1, AnswerEffect DEF Serves
  <2> QED BY <2>1, <2>2, <2>3
<1> QED BY <1>1, <1>2, <1>3, <1>4

\* Every step is one of these, and nothing is under way after a hub has ended.
LEMMA ServiceStep ==
  ASSUME ServiceTypeOK, StartIInv, [ServiceNext]_serviceVars
  PROVE  /\ \/ \E r \in Request : Serves(r)
            \/ Drops
            \/ \E r \in Request : Repeats(r)
         /\ Serving' \/ \A r \in Request : ~UnderWay(r)'
<1>1. DOMAIN stage = Hub
  BY DEF StartIInv, StartTypeOK
<1>2. CASE UNCHANGED serviceVars
  <2>1. UNCHANGED <<recordVars, workload, stage>>
    BY <1>2 DEF serviceVars, startVars
  <2>2. Drops
    BY <2>1 DEF Drops, recordVars, ServiceTypeOK
  <2>3. (Serving' <=> Serving) /\ \A r \in Request : UnderWay(r)' <=> UnderWay(r)
    BY <2>1 DEF Serving, UnderWay, recordVars
  <2> QED BY <2>2, <2>3 DEF ServiceTypeOK
<1>3. ASSUME NEW h \in Hub, Starts(h)
      PROVE  /\ Drops
             /\ Serving' \/ \A r \in Request : ~UnderWay(r)'
  <2>1. UNCHANGED <<recordVars, workload>> /\ StartStep(h)
    BY <1>3 DEF Starts
  <2>2. Drops
    BY <2>1 DEF Drops, recordVars, ServiceTypeOK
  <2>3. stage[h] # "serving" /\ \A g \in Hub \ {h} : stage'[g] = stage[g]
    BY <1>1, <2>1 DEF StartStep, StartHub, Look, Execute, RecordVersion, Bind, NextVersion
  <2>4. Serving => Serving'
    BY <2>3 DEF Serving
  <2>5. \A r \in Request : UnderWay(r)' <=> UnderWay(r)
    BY <2>1 DEF UnderWay, recordVars
  <2> QED BY <2>2, <2>4, <2>5 DEF ServiceTypeOK
<1>4. ASSUME NEW h \in Hub, Ends(h)
      PROVE  /\ Drops
             /\ Serving' \/ \A r \in Request : ~UnderWay(r)'
  <2>1. /\ UNCHANGED workload
        /\ \A g \in Hub \ {h} : stage'[g] = stage[g]
    BY <1>1, <1>4 DEF Ends, EndHub
  <2>2. CASE stage[h] = "serving"
    <3>1. Dropped(Request)
      BY <1>4, <2>2 DEF Ends
    <3>2. Drops
      BY <2>1, <3>1 DEF Dropped, Drops, UnderWay
    <3>3. \A r \in Request : ~UnderWay(r)'
      BY <3>1 DEF Dropped, UnderWay
    <3> QED BY <3>2, <3>3
  <2>3. CASE stage[h] # "serving"
    <3>1. UNCHANGED recordVars
      BY <1>4, <2>3 DEF Ends
    <3>2. Drops
      BY <2>1, <3>1 DEF Drops, recordVars, ServiceTypeOK
    <3>3. Serving => Serving'
      BY <2>1, <2>3 DEF Serving
    <3>4. \A r \in Request : UnderWay(r)' <=> UnderWay(r)
      BY <3>1 DEF UnderWay, recordVars
    <3> QED BY <3>2, <3>3, <3>4 DEF ServiceTypeOK
  <2> QED BY <2>2, <2>3
<1>5. ASSUME NEW r \in Request, Handles(r)
      PROVE  (Serves(r) \/ Drops) /\ Serving'
  <2>1. Serving /\ UNCHANGED <<startVars, workload>>
    BY <1>5 DEF Handles
  <2>2. Serving'
    BY <2>1 DEF Serving, startVars
  <2>3. CASE DropsOne(r)
    BY <2>1, <2>2, <2>3 DEF DropsOne, Dropped, Drops, UnderWay
  <2>4. CASE ~DropsOne(r)
    <3>1. \/ Authorized(r) \/ Refused(r) \/ Unauthorized(r)
          \/ Write(r, now) \/ ReadRow(r) \/ SelectRows(r)
          \/ NotEmpty(r) \/ Checks(r) \/ WriteEvent(r) \/ StatementFails(r)
      BY <1>5, <2>4 DEF Handles
    <3> QED BY <2>1, <2>2, <3>1, AuthorizedServes, WriteServes, ReadRowServes,
               SelectRowsServes, RestServes
  <2> QED BY <2>3, <2>4
<1>6. ASSUME NEW r \in Request, Repeats(r)
      PROVE  Serving' \/ \A q \in Request : ~UnderWay(q)'
  <2>1. /\ UNCHANGED <<startVars, workload>>
        /\ \A q \in Request : UnderWay(q)' => UnderWay(q)
    BY <1>6 DEF Repeats, UnderWay, ServiceTypeOK
  <2>2. Serving => Serving'
    BY <2>1 DEF Serving, startVars
  <2> QED BY <2>1, <2>2 DEF ServiceTypeOK
<1>7. CASE TimePasses
  <2>1. UNCHANGED <<startVars, recordVars, workload>>
    BY <1>7 DEF TimePasses
  <2>2. Drops
    BY <2>1 DEF Drops, recordVars, ServiceTypeOK
  <2>3. (Serving' <=> Serving) /\ \A r \in Request : UnderWay(r)' <=> UnderWay(r)
    BY <2>1 DEF Serving, UnderWay, recordVars, startVars
  <2> QED BY <2>2, <2>3 DEF ServiceTypeOK
<1> QED BY <1>2, <1>3, <1>4, <1>5, <1>6, <1>7 DEF ServiceNext
-----------------------------------------------------------------------------
(* What has run after a step. *)
RanAfter(r, i) == step'[r] > i \/ (answer'[r] = "ok" /\ i <= Len(Statements(r)))

\* A step of a request runs its due statement at most, and no other's.
LEMMA RanServed ==
  ASSUME ServiceTypeOK, NEW r \in Request, Serves(r)
  PROVE  /\ step[r] \in DOMAIN Statements(r) /\ step[r] \in Nat \ {0}
         /\ Goes(r) => RanAfter(r, step[r])
         /\ \A q \in Request \ {r} : \A i \in DOMAIN Statements(q) : RanAfter(q, i) <=> Ran(q, i)
         /\ \A i \in DOMAIN Statements(r) :
               /\ Ran(r, i) <=> i < step[r]
               /\ Ran(r, i) => RanAfter(r, i)
               /\ Goes(r) => (RanAfter(r, i) <=> i <= step[r])
               /\ Errs(r) => (RanAfter(r, i) <=> i < step[r])
<1>1. /\ step[r] \in DOMAIN Statements(r) /\ answer[r] = "none"
      /\ Len(Statements(r)) \in Nat \ {0}
      /\ DOMAIN Statements(r) = 1 .. Len(Statements(r))
  BY ShapeOf DEF ServiceTypeOK, Serves
<1>4. ASSUME NEW q \in Request \ {r}, NEW i \in DOMAIN Statements(q)
      PROVE  RanAfter(q, i) <=> Ran(q, i)
  BY DEF Ran, RanAfter, Serves
<1>5. ASSUME NEW i \in DOMAIN Statements(r)
      PROVE  /\ Ran(r, i) <=> i < step[r]
             /\ Goes(r) => (RanAfter(r, i) <=> i <= step[r])
             /\ Errs(r) => (RanAfter(r, i) <=> i < step[r])
  <2>1. Ran(r, i) <=> i < step[r]
    BY <1>1 DEF Ran
  <2>2. Goes(r) => (RanAfter(r, i) <=> i <= step[r])
    BY <1>1 DEF RanAfter, Goes
  <2>3. Errs(r) => (RanAfter(r, i) <=> i < step[r])
    BY <1>1 DEF RanAfter, Errs
  <2> QED BY <2>1, <2>2, <2>3
<1>6. ASSUME NEW i \in DOMAIN Statements(r), Skips(r), Ran(r, i)
      PROVE  RanAfter(r, i)
  <2>1. i < step[r] /\ i <= Len(Statements(r)) /\ step[r] <= Len(Statements(r))
    BY <1>1, <1>5, <1>6
  <2>2. \/ answer'[r] = "ok"
        \/ step'[r] = Len(Statements(r))
    BY <1>6 DEF Skips
  <2> QED BY <1>1, <2>1, <2>2 DEF RanAfter
<1>7. Goes(r) \/ Errs(r) \/ Skips(r)
  BY DEF Serves
<1>8. \A i \in DOMAIN Statements(r) : Ran(r, i) => RanAfter(r, i)
  BY <1>1, <1>5, <1>6, <1>7
<1>9. Goes(r) => RanAfter(r, step[r])
  BY <1>1 DEF Goes, RanAfter
<1> QED BY <1>1, <1>4, <1>5, <1>8, <1>9

\* Dropping requests runs no statement.
LEMMA RanDropped ==
  ASSUME ServiceTypeOK, Drops
  PROVE  \A q \in Request : \A i : RanAfter(q, i) <=> Ran(q, i)
  BY DEF Drops, Ran, RanAfter

\* A request that is sent again has run nothing.
LEMMA RepeatsEffect ==
  ASSUME ServiceTypeOK, NEW r \in Request, Repeats(r)
  PROVE  /\ UNCHANGED <<workload, db, events, seen, found, before>>
         /\ Work.repeat /\ answer[r] # "none"
         /\ DOMAIN step' = Request /\ DOMAIN answer' = Request
         /\ step'[r] = 1 /\ answer'[r] = "none"
         /\ \A q \in Request \ {r} : step'[q] = step[q] /\ answer'[q] = answer[q]
         /\ \A q \in Request \ {r} : \A i : RanAfter(q, i) <=> Ran(q, i)
         /\ \A i \in DOMAIN Statements(r) : ~RanAfter(r, i)
<1>1. /\ UNCHANGED <<workload, db, events, seen, found, before>>
      /\ Work.repeat /\ answer[r] # "none"
      /\ DOMAIN step' = Request /\ DOMAIN answer' = Request
      /\ step'[r] = 1 /\ answer'[r] = "none"
      /\ \A q \in Request \ {r} : step'[q] = step[q] /\ answer'[q] = answer[q]
  BY DEF Repeats, ServiceTypeOK
<1>4. \A q \in Request \ {r} : \A i : RanAfter(q, i) <=> Ran(q, i)
  BY <1>1 DEF Ran, RanAfter
<1>5. \A i \in DOMAIN Statements(r) : ~RanAfter(r, i)
  BY <1>1, ShapeOf DEF ServiceTypeOK, RanAfter
<1> QED BY <1>1, <1>4, <1>5

\* A new row says who wrote it and when, and every handler can read it.
LEMMA NewRowFacts ==
  ASSUME ServiceTypeOK, NEW r \in Request, NEW i \in DOMAIN Statements(r),
         Statements(r)[i].do \in Writing, NEW k, NewRow(Statements(r)[i], r, k)
  PROVE  LET s   == Statements(r)[i]
             row == db'[s.table][k]
         IN
         /\ s.do # "delete" /\ s.table \in RowTable /\ k = KeyOf(s, r)
         /\ row.by = r /\ row.at = now
         /\ Columns(s.table) \subseteq DOMAIN row /\ Parses(s.table, row)
<1> DEFINE s == Statements(r)[i]
           rows == db[s.table]
<1>1. s.do \in Writing \ {"delete"} /\ s.table \in RowTable /\ Fits(s) /\ k = KeyOf(s, r)
  BY ShapeOf DEF ServiceTypeOK, NewRow, OnTable
<1>2. \/ db'[s.table][k] = Row(s, r, now)
      \/ k \in DOMAIN rows /\ db'[s.table][k] = Changed(rows[k], s, r, now)
  BY DEF NewRow
<1>3. \A l \in DOMAIN rows : Columns(s.table) \subseteq DOMAIN rows[l] /\ Parses(s.table, rows[l])
  BY <1>1 DEF ServiceTypeOK
<1> HIDE DEF s
<1>4. CASE db'[s.table][k] = Row(s, r, now)
  <2>1. Row(s, r, now).by = r /\ Row(s, r, now).at = now
    BY DEF Row
  <2>2. Columns(s.table) \subseteq DOMAIN Row(s, r, now)
    BY <1>1, RowFacts
  <2>3. Parses(s.table, Row(s, r, now))
    BY <1>1, RowFacts
  <2> QED BY <1>1, <1>4, <2>1, <2>2, <2>3 DEF s
<1>5. CASE k \in DOMAIN rows /\ db'[s.table][k] = Changed(rows[k], s, r, now)
  BY <1>1, <1>3, <1>5, ChangedFacts DEF s
<1> QED BY <1>2, <1>4, <1>5

\* After any step of a request, a row is as it was or written by its statement.
LEMMA RowsServed ==
  ASSUME ServiceTypeOK, NEW r \in Request, Serves(r)
  PROVE  LET s == Due(r) IN
         /\ DOMAIN db' = RowTable
         /\ s = Statements(r)[step[r]]
         /\ \A t \in RowTable :
               /\ t # "file_claims" => DOMAIN db[t] \subseteq DOMAIN db'[t]
               /\ \A k \in DOMAIN db'[t] :
                     \/ k \in DOMAIN db[t] /\ db'[t][k] = db[t][k]
                     \/ /\ Goes(r) /\ s.do \in Writing /\ t = s.table /\ Wrote(s, r)
                        /\ s.do # "delete" /\ NewRow(s, r, k) /\ k = KeyOf(s, r)
                        /\ db'[t][k].by = r
                        /\ Columns(t) \subseteq DOMAIN db'[t][k] /\ Parses(t, db'[t][k])
<1> DEFINE s == Due(r)
<1>1. s = Statements(r)[step[r]] /\ step[r] \in DOMAIN Statements(r)
  BY DEF Due, ServiceTypeOK
<1>2. CASE UNCHANGED db
  BY <1>1, <1>2 DEF ServiceTypeOK
<1>3. CASE Goes(r) /\ s.do \in Writing
  <2>1. Wrote(s, r)
    BY <1>3 DEF Goes
  <2>2. \A k : NewRow(s, r, k) =>
           /\ s.do # "delete" /\ s.table \in RowTable /\ k = KeyOf(s, r)
           /\ db'[s.table][k].by = r
           /\ Columns(s.table) \subseteq DOMAIN db'[s.table][k]
           /\ Parses(s.table, db'[s.table][k])
    BY <1>1, <1>3, NewRowFacts
  <2> HIDE DEF s
  <2>3. DOMAIN db' = RowTable
    BY <2>1 DEF Wrote
  <2>4. ASSUME NEW t \in RowTable
        PROVE  /\ t # "file_claims" => DOMAIN db[t] \subseteq DOMAIN db'[t]
               /\ \A k \in DOMAIN db'[t] :
                     \/ k \in DOMAIN db[t] /\ db'[t][k] = db[t][k]
                     \/ t = s.table /\ NewRow(s, r, k)
    BY <2>1 DEF Wrote
  <2> QED BY <1>1, <1>3, <2>1, <2>2, <2>3, <2>4 DEF s
<1>4. UNCHANGED db \/ (Goes(r) /\ s.do \in Writing)
  BY DEF Serves, Goes, Errs, Skips
<1> QED BY <1>2, <1>3, <1>4
-----------------------------------------------------------------------------
(* The steps keep the invariant, part by part. *)
LEMMA TypeServed ==
  ASSUME ServiceTypeOK, NEW r \in Request, Serves(r), Serving' \/ \A q \in Request : ~UnderWay(q)'
  PROVE  ServiceTypeOK'
<1> DEFINE n == Len(Statements(r))
<1>1. /\ step[r] \in DOMAIN Statements(r) /\ answer[r] = "none"
      /\ n \in Nat \ {0} /\ DOMAIN Statements(r) = 1 .. n
  BY ShapeOf DEF ServiceTypeOK, Serves
<1>2. /\ step'[r] \in DOMAIN Statements(r)
      /\ answer'[r] \in {"none", "ok", "not_found", "refused", "unauthorized", "rejected", "failed"}
  <2>1. CASE Goes(r)
    BY <1>1, <2>1 DEF Goes
  <2>2. CASE Errs(r)
    BY <1>1, <2>2 DEF Errs
  <2>3. CASE Skips(r)
    BY <1>1, <2>3 DEF Skips
  <2> QED BY <2>1, <2>2, <2>3 DEF Serves
<1>3. \A q \in Request :
        /\ step'[q] \in DOMAIN Statements(q)
        /\ answer'[q] \in {"none", "ok", "not_found", "refused", "unauthorized", "rejected", "failed"}
  BY <1>2 DEF Serves, ServiceTypeOK
<1>4. /\ DOMAIN db' = RowTable
      /\ \A t \in RowTable : \A k \in DOMAIN db'[t] :
            /\ Columns(t) \subseteq DOMAIN db'[t][k]
            /\ Parses(t, db'[t][k])
  BY RowsServed DEF ServiceTypeOK
<1>5. /\ Request' = Request /\ workload' = workload
      /\ \A q : Statements(q)' = Statements(q)
  BY SameStatements DEF Serves
<1> QED BY <1>3, <1>4, <1>5 DEF ServiceTypeOK, Serves, Domains

\* No other step disturbs the types.
LEMMA TypeOther ==
  ASSUME ServiceTypeOK, Drops \/ \E r \in Request : Repeats(r),
         Serving' \/ \A q \in Request : ~UnderWay(q)'
  PROVE  ServiceTypeOK'
<1>1. CASE Drops
  <2>1. UNCHANGED <<workload, db, step, seen, found, before>>
    BY <1>1 DEF Drops
  <2>2. Request' = Request /\ \A q : Statements(q)' = Statements(q)
    BY <2>1, SameStatements
  <2>3. \A q \in Request :
           answer'[q] \in {"none", "ok", "not_found", "refused", "unauthorized", "rejected", "failed"}
    BY <1>1 DEF Drops, ServiceTypeOK
  <2> QED BY <1>1, <2>1, <2>2, <2>3 DEF ServiceTypeOK, Drops
<1>2. ASSUME NEW r \in Request, Repeats(r)
      PROVE  ServiceTypeOK'
  <2>1. UNCHANGED <<workload, db, seen, found, before>>
    BY <1>2, RepeatsEffect
  <2>2. Request' = Request /\ \A q : Statements(q)' = Statements(q)
    BY <2>1, SameStatements
  <2>3. 1 \in DOMAIN Statements(r)
    BY ShapeOf DEF ServiceTypeOK
  <2>4. \A q \in Request :
          /\ step'[q] \in DOMAIN Statements(q)
          /\ answer'[q] \in {"none", "ok", "not_found", "refused", "unauthorized", "rejected", "failed"}
    BY <1>2, <2>3, RepeatsEffect DEF ServiceTypeOK
  <2>5. DOMAIN step' = Request /\ DOMAIN answer' = Request
    BY <1>2, RepeatsEffect
  <2> QED BY <2>1, <2>2, <2>4, <2>5 DEF ServiceTypeOK
<1> QED BY <1>1, <1>2

\* What was selected stays, if the step selects nothing.
LEMMA FoundKept ==
  ASSUME ServiceTypeOK, FoundInv,
         (\E r \in Request : Serves(r)) \/ Drops \/ \E r \in Request : Repeats(r)
  PROVE  FoundInv'
<1>1. UNCHANGED workload
  BY RepeatsEffect DEF Serves, Drops
<1>2. Request' = Request /\ \A q : Statements(q)' = Statements(q)
  BY <1>1, SameStatements
<1>3. CASE UNCHANGED found
  BY <1>2, <1>3 DEF FoundInv
<1>4. ASSUME NEW r \in Request, Serves(r), NEW k \in DOMAIN found'[r], found'[r] # found[r]
      PROVE  \E i \in DOMAIN Statements(r) :
                LET s == Statements(r)[i] IN
                /\ s.do = "select"
                /\ Columns(s.table) \subseteq DOMAIN found'[r][k]
                /\ Parses(s.table, found'[r][k])
  <2> DEFINE s == Due(r)
  <2>1. Goes(r) /\ s.do = "select"
    BY <1>4 DEF Serves, Goes, Errs, Skips
  <2>2. step[r] \in DOMAIN Statements(r) /\ s = Statements(r)[step[r]]
    BY DEF ServiceTypeOK, Due
  <2>3. s.table \in RowTable
    BY <2>1, <2>2, ShapeOf DEF ServiceTypeOK, OnTable
  <2>4. k \in DOMAIN db[s.table] /\ found'[r][k] = db[s.table][k]
    BY <1>4, <2>1 DEF Goes
  <2> HIDE DEF s
  <2>5. Columns(s.table) \subseteq DOMAIN found'[r][k] /\ Parses(s.table, found'[r][k])
    BY <2>3, <2>4 DEF ServiceTypeOK
  <2> QED BY <2>1, <2>2, <2>5
<1>5. ASSUME NEW r \in Request, Serves(r)
      PROVE  FoundInv'
  <2>1. \A q \in Request \ {r} : found'[q] = found[q]
    BY <1>5 DEF Serves
  <2>2. \A q \in Request : \A k \in DOMAIN found'[q] :
           \E i \in DOMAIN Statements(q) :
                LET s == Statements(q)[i] IN
                /\ s.do = "select"
                /\ Columns(s.table) \subseteq DOMAIN found'[q][k]
                /\ Parses(s.table, found'[q][k])
    BY <1>4, <1>5, <2>1 DEF FoundInv
  <2> QED BY <1>2, <2>2 DEF FoundInv
<1>6. Drops \/ (\E r \in Request : Repeats(r)) => UNCHANGED found
  BY RepeatsEffect DEF Drops
<1> QED BY <1>3, <1>5, <1>6

\* What a row or event says of the statements of its request stays true.
LEMMA AuthorServed ==
  ASSUME ServiceTypeOK, AuthorInv, ThereInv, NEW r \in Request, Serves(r)
  PROVE  AuthorInv'
<1> DEFINE s == Due(r)
<1>1. /\ step[r] \in DOMAIN Statements(r) /\ s = Statements(r)[step[r]]
      /\ workload \in DOMAIN Workloads
  BY DEF ServiceTypeOK, Due
<1>2. Request' = Request /\ \A q : Statements(q)' = Statements(q)
  BY SameStatements DEF Serves
<1>3. \A q \in Request : \A i \in DOMAIN Statements(q) : Ran(q, i) => RanAfter(q, i)
  BY RanServed
<1>4. \A q, i : Makes(q, i)' <=> Makes(q, i)
  BY <1>2 DEF Makes
<1>5. ASSUME NEW t \in RowTable, NEW k \in DOMAIN db'[t], db'[t][k].by \in Request
      PROVE  \E i \in DOMAIN Statements(db'[t][k].by) :
                /\ Statements(db'[t][k].by)[i].do \in Writing \ {"delete"}
                /\ Statements(db'[t][k].by)[i].table = t
                /\ k = KeyOf(Statements(db'[t][k].by)[i], db'[t][k].by)
                /\ RanAfter(db'[t][k].by, i)
                /\ Makes(db'[t][k].by, i)
  <2>1. CASE k \in DOMAIN db[t] /\ db'[t][k] = db[t][k]
    BY <1>3, <1>5, <2>1 DEF AuthorInv
  <2>2. CASE ~(k \in DOMAIN db[t] /\ db'[t][k] = db[t][k])
    <3>1. /\ Goes(r) /\ s.do \in Writing \ {"delete"} /\ t = s.table /\ NewRow(s, r, k)
          /\ k = KeyOf(s, r) /\ db'[t][k].by = r
      BY <2>2, RowsServed
    <3>2. RanAfter(r, step[r])
      BY <1>1, <3>1, RanServed
    <3>3. Makes(r, step[r])
      <4>1. SUFFICES ASSUME s.do = "ensure", NEW j \in DOMAIN Statements(r),
                            Statements(r)[j].table = s.table, Statements(r)[j].do = "read"
                     PROVE  FALSE
        BY <1>1 DEF Makes
      <4>2. /\ s.table = "threads" /\ j < step[r] /\ Statements(r)[j].key = s.key
            /\ Plain(Statements(r))
        BY <1>1, <4>1, Contract DEF Aside, Untold
      <4>3. Ran(r, j)
        BY <4>2, RanServed
      <4>4. s.key \in DOMAIN db[t]
        BY <3>1, <4>1, <4>2, <4>3 DEF ThereInv
      <4>5. k = s.key
        BY <3>1, <4>1 DEF KeyOf
      <4>6. k \notin DOMAIN db[t]
        BY <3>1, <4>1 DEF NewRow
      <4> QED BY <4>4, <4>5, <4>6
    <3> QED BY <1>1, <3>1, <3>2, <3>3
  <2> QED BY <2>1, <2>2
<1>6. ASSUME NEW e \in events'
      PROVE  /\ e.of \in Request
             /\ \E i \in DOMAIN Statements(e.of) :
                   Statements(e.of)[i].do = "event" /\ RanAfter(e.of, i)
  <2>1. CASE e \in events
    BY <1>3, <2>1 DEF AuthorInv
  <2>2. CASE e \notin events
    <3>1. Goes(r) /\ s.do = "event" /\ e.of = r
      BY <1>6, <2>2 DEF Serves, Goes, Errs, Skips
    <3>2. RanAfter(r, step[r])
      BY <1>1, <3>1, RanServed
    <3> QED BY <1>1, <3>1, <3>2
  <2> QED BY <2>1, <2>2
<1> QED BY <1>2, <1>4, <1>5, <1>6 DEF AuthorInv, Ran, RanAfter

\* Those that send their request again write nothing.
LEMMA NothingOfRepeated ==
  ASSUME ServiceTypeOK, AuthorInv, Work.repeat
  PROVE  /\ \A t \in RowTable : \A k \in DOMAIN db[t] : db[t][k].by \notin Request
         /\ events = {}
<1>1. \A r \in Request : \A i \in DOMAIN Statements(r) :
         Statements(r)[i].do \in {"authorize", "read", "select"}
  BY Contract DEF ServiceTypeOK
<1>2. \A d \in Writing \cup {"event"} : d \notin {"authorize", "read", "select"}
  BY DEF Writing
<1> QED BY <1>1, <1>2 DEF AuthorInv

\* Rows and their authors stay when no statement runs.
LEMMA AuthorOther ==
  ASSUME ServiceTypeOK, AuthorInv, Drops \/ \E r \in Request : Repeats(r)
  PROVE  AuthorInv'
<1>1. UNCHANGED <<workload, db, events>>
  BY RepeatsEffect DEF Drops
<1>2. Request' = Request /\ \A q : Statements(q)' = Statements(q)
  BY <1>1, SameStatements
<1>3. \A q, i : Makes(q, i)' <=> Makes(q, i)
  BY <1>2 DEF Makes
<1>4. CASE Drops
  BY <1>1, <1>2, <1>3, <1>4, RanDropped DEF AuthorInv, Ran, RanAfter
<1>5. CASE \E r \in Request : Repeats(r)
  <2>1. Work.repeat
    BY <1>5, RepeatsEffect
  <2> QED BY <1>1, <1>2, <2>1, NothingOfRepeated DEF AuthorInv
<1> QED BY <1>4, <1>5

\* A step of a request leaves there what another has read, upserted or ensured.
LEMMA ThereServed ==
  ASSUME ServiceTypeOK, ThereInv, NEW r \in Request, Serves(r)
  PROVE  ThereInv'
<1> DEFINE s == Due(r)
<1>1. /\ step[r] \in DOMAIN Statements(r) /\ s = Statements(r)[step[r]]
      /\ workload \in DOMAIN Workloads
  BY DEF ServiceTypeOK, Due
<1>2. Request' = Request /\ \A q : Statements(q)' = Statements(q)
  BY SameStatements DEF Serves
<1>3. ASSUME NEW q \in Request, NEW i \in DOMAIN Statements(q),
             Plain(Statements(q)), RanAfter(q, i),
             Statements(q)[i].do \in {"read", "ensure", "upsert"},
             Statements(q)[i].table # "file_claims"
      PROVE  Statements(q)[i].key \in DOMAIN db'[Statements(q)[i].table]
  <2>1. Statements(q)[i].table \in RowTable
    BY <1>1, <1>3, ShapeOf DEF OnTable, Writing
  <2>2. DOMAIN db[Statements(q)[i].table] \subseteq DOMAIN db'[Statements(q)[i].table]
    BY <1>3, <2>1, RowsServed
  <2>3. CASE Ran(q, i)
    BY <1>3, <2>2, <2>3 DEF ThereInv
  <2>4. CASE ~Ran(q, i)
    <3>1. q = r
      BY <1>3, <2>4, RanServed
    <3>2. Goes(r) \/ Errs(r)
      BY <1>1, <1>3, <3>1 DEF Serves, Skips, Plain
    <3>3. Goes(r) /\ i = step[r]
      BY <1>1, <1>3, <2>4, <3>1, <3>2, RanServed, ShapeOf
    <3>4. CASE s.do = "read"
      BY <1>1, <2>2, <3>1, <3>3, <3>4 DEF Goes
    <3>5. CASE s.do \in {"ensure", "upsert"}
      BY <1>1, <3>1, <3>3, <3>5 DEF Goes, Wrote, Writing
    <3> QED BY <1>1, <1>3, <3>1, <3>3, <3>4, <3>5
  <2> QED BY <2>3, <2>4
<1> QED BY <1>2, <1>3 DEF ThereInv, Ran, RanAfter

\* So does a step that runs no statement.
LEMMA ThereOther ==
  ASSUME ServiceTypeOK, ThereInv, Drops \/ \E r \in Request : Repeats(r)
  PROVE  ThereInv'
<1>1. UNCHANGED <<workload, db>>
  BY RepeatsEffect DEF Drops
<1>2. Request' = Request /\ \A q : Statements(q)' = Statements(q)
  BY <1>1, SameStatements
<1>3. \A q \in Request : \A i \in DOMAIN Statements(q) : RanAfter(q, i) => Ran(q, i)
  BY RanDropped, RepeatsEffect
<1> QED BY <1>1, <1>2, <1>3 DEF ThereInv, Ran, RanAfter

\* A message is inserted after its thread was ensured.
LEMMA MessageServed ==
  ASSUME ServiceTypeOK, ThereInv, MessageInv, NEW r \in Request, Serves(r)
  PROVE  MessageInv'
<1> DEFINE s == Due(r)
<1>1. /\ step[r] \in DOMAIN Statements(r) /\ s = Statements(r)[step[r]]
      /\ workload \in DOMAIN Workloads
  BY DEF ServiceTypeOK, Due
<1>2. {"messages", "threads"} \subseteq RowTable
  BY DEF RowTable
<1>3. DOMAIN db["threads"] \subseteq DOMAIN db'["threads"]
  BY <1>2, RowsServed
<1>4. ASSUME NEW k \in DOMAIN db'["messages"]
      PROVE  /\ "thread_id" \in DOMAIN db'["messages"][k]
             /\ db'["messages"][k].thread_id \in DOMAIN db'["threads"]
  <2>1. CASE k \in DOMAIN db["messages"] /\ db'["messages"][k] = db["messages"][k]
    BY <1>3, <2>1 DEF MessageInv
  <2>2. CASE ~(k \in DOMAIN db["messages"] /\ db'["messages"][k] = db["messages"][k])
    <3>1. s.do \in Writing /\ s.do # "delete" /\ s.table = "messages" /\ NewRow(s, r, k)
      BY <1>2, <2>2, RowsServed
    <3>2. Fits(s)
      BY <1>1, ShapeOf
    <3>3. CASE s.do = "update" /\ "thread_id" \notin DOMAIN s.columns
      <4>1. /\ k \in DOMAIN db["messages"]
            /\ db'["messages"][k] = Changed(db["messages"][k], s, r, now)
        BY <3>1, <3>3 DEF NewRow
      <4>2. /\ "thread_id" \in DOMAIN db["messages"][k]
            /\ db["messages"][k].thread_id \in DOMAIN db["threads"]
        BY <4>1 DEF MessageInv
      <4>3. "thread_id" \notin s.add
        BY <3>1, <3>2 DEF Fits
      <4>4. /\ DOMAIN db'["messages"][k] = DOMAIN db["messages"][k]
            /\ db'["messages"][k].thread_id = db["messages"][k].thread_id
        BY <3>3, <4>1, <4>2, <4>3 DEF Changed, Row
      <4> QED BY <1>3, <4>2, <4>4
    <3>4. CASE ~(s.do = "update" /\ "thread_id" \notin DOMAIN s.columns)
      <4> DEFINE i == step[r] - 1
      <4>1. /\ s.do = "insert" /\ "thread_id" \in DOMAIN s.columns
            /\ i \in DOMAIN Statements(r)
            /\ Statements(r)[i].do = "ensure"
            /\ Statements(r)[i].table = "threads"
            /\ Statements(r)[i].key = s.columns.thread_id
            /\ Plain(Statements(r))
        BY <1>1, <3>1, <3>4, Contract DEF ThreadsFirst
      <4>2. Ran(r, i)
        BY <4>1, RanServed
      <4>3. s.columns.thread_id \in DOMAIN db["threads"]
        BY <4>1, <4>2 DEF ThereInv
      <4>4. db'["messages"][k] = Row(s, r, now)
        BY <3>1, <4>1 DEF NewRow
      <4>5. /\ "thread_id" \in DOMAIN db'["messages"][k]
            /\ db'["messages"][k].thread_id = s.columns.thread_id
        BY <4>1, <4>4 DEF Row
      <4> QED BY <1>3, <4>3, <4>5
    <3> QED BY <3>3, <3>4
  <2> QED BY <2>1, <2>2
<1> QED BY <1>4 DEF MessageInv

\* The request that is answered 429 is at its authorize.
LEMMA RefusedServed ==
  ASSUME ServiceTypeOK, RefusedInv, NEW r \in Request, Serves(r)
  PROVE  RefusedInv'
<1>1. Request' = Request /\ \A q : Statements(q)' = Statements(q)
  BY SameStatements DEF Serves
<1>2. ASSUME NEW q \in Request, answer'[q] = "refused"
      PROVE  Statements(q)[step'[q]].do = "authorize"
  <2>1. CASE q = r
    BY <1>2, <2>1 DEF Serves, Goes, Errs, Skips, Due
  <2>2. CASE q # r
    BY <1>2, <2>2 DEF Serves, RefusedInv
  <2> QED BY <2>1, <2>2
<1> QED BY <1>1, <1>2 DEF RefusedInv

\* No other step answers 429.
LEMMA RefusedOther ==
  ASSUME ServiceTypeOK, RefusedInv, Drops \/ \E r \in Request : Repeats(r)
  PROVE  RefusedInv'
<1>1. UNCHANGED workload
  BY RepeatsEffect DEF Drops
<1>2. Request' = Request /\ \A q : Statements(q)' = Statements(q)
  BY <1>1, SameStatements
<1>3. \A q \in Request : answer'[q] = "refused" => answer[q] = "refused" /\ step'[q] = step[q]
  BY RepeatsEffect DEF Drops
<1> QED BY <1>2, <1>3 DEF RefusedInv

\* An answer stays, but of those that poll.
LEMMA BeforeKept ==
  ASSUME ServiceTypeOK, BeforeInv,
         (\E r \in Request : Serves(r)) \/ Drops \/ \E r \in Request : Repeats(r)
  PROVE  BeforeInv'
<1>1. UNCHANGED workload
  BY RepeatsEffect DEF Serves, Drops
<1>2. Request' = Request /\ Work' = Work
  BY <1>1, SameStatements
<1>3. \A q \in Request : answer[q] = "ok" => Work.repeat \/ answer'[q] = "ok"
  BY RepeatsEffect DEF Serves, Drops
<1>4. \A q \in Request :
         before'[q] = before[q] \/ before'[q] = {p \in Request : answer[p] = "ok"}
  BY RepeatsEffect DEF Serves, Drops, Goes, Errs, Skips
<1> QED BY <1>2, <1>3, <1>4 DEF BeforeInv

\* The event of a task's status is written with the row that is answered.
LEMMA AnnouncedServed ==
  ASSUME ServiceTypeOK, AnnouncedInv, NEW r \in Request, Serves(r)
  PROVE  AnnouncedInv'
<1>1. Request' = Request /\ \A q : Op(q)' = Op(q)
  BY SameStatements DEF Serves
<1>2. events \subseteq events'
  BY DEF Serves, Goes, Errs, Skips
<1>3. ASSUME NEW q \in Request, Op(q) = "update_task_status", answer'[q] = "ok"
      PROVE  \E e \in events' : e.type = "task_update" /\ e.row = seen'[q]
  <2>1. CASE q # r
    BY <1>2, <1>3, <2>1 DEF Serves, AnnouncedInv
  <2>2. CASE q = r
    <3>1. Announcing(Statements(r)) /\ step[r] \in DOMAIN Statements(r)
      BY <1>3, <2>2, Contract DEF ServiceTypeOK
    <3>2. Goes(r)
      BY <1>3, <2>2, <3>1 DEF Serves, Errs, Skips, Due, Announcing, Plain
    <3>3. Due(r).do = "event" /\ Due(r).table = "task_update"
      BY <1>3, <2>2, <3>1, <3>2 DEF Goes, Due, Announcing
    <3>4. /\ seen'[r] = seen[r]
          /\ [type |-> "task_update", of |-> r, row |-> seen[r]] \in events'
      BY <3>2, <3>3 DEF Goes
    <3> QED BY <2>2, <3>4
  <2> QED BY <2>1, <2>2
<1> QED BY <1>1, <1>3 DEF AnnouncedInv

\* Events and answers stay when no statement runs.
LEMMA AnnouncedOther ==
  ASSUME ServiceTypeOK, AnnouncedInv, Drops \/ \E r \in Request : Repeats(r)
  PROVE  AnnouncedInv'
<1>1. UNCHANGED <<workload, events, seen>>
  BY RepeatsEffect DEF Drops
<1>2. Request' = Request /\ \A q : Op(q)' = Op(q)
  BY <1>1, SameStatements
<1>3. \A q \in Request : answer'[q] = "ok" => answer[q] = "ok"
  BY RepeatsEffect DEF Drops
<1> QED BY <1>1, <1>2, <1>3 DEF AnnouncedInv

\* What a request wrote to a table whose row it shows is at one key.
LEMMA OneKey ==
  ASSUME ServiceTypeOK, AuthorInv, NEW r \in Request, NEW i \in DOMAIN Statements(r),
         Told(Statements(r)[i]),
         NEW k \in DOMAIN db[Statements(r)[i].table],
         db[Statements(r)[i].table][k].by = r
  PROVE  k = Statements(r)[i].key /\ Ran(r, i)
<1> DEFINE s == Statements(r)[i]
<1>1. s.do \in Writing \ {"delete", "log"} /\ workload \in DOMAIN Workloads
  BY DEF Told, Writing, ServiceTypeOK
<1>2. s.table \in RowTable
  BY <1>1, ShapeOf DEF OnTable
<1>3. PICK j \in DOMAIN Statements(r) :
         /\ Statements(r)[j].do \in Writing \ {"delete"}
         /\ Statements(r)[j].table = s.table
         /\ k = KeyOf(Statements(r)[j], r)
         /\ Ran(r, j)
  BY <1>2 DEF AuthorInv
<1>4. j = i
  BY <1>1, <1>3, Contract DEF Tells
<1> QED BY <1>1, <1>3, <1>4 DEF KeyOf

\* A step of a request keeps in its hands, or reads, the row that is still its own.
LEMMA ToldServed ==
  ASSUME ServiceTypeOK, AuthorInv, ToldInv, NEW r \in Request, Serves(r)
  PROVE  ToldInv'
<1>1. Request' = Request /\ \A q : Statements(q)' = Statements(q)
  BY SameStatements DEF Serves
<1>2. ASSUME NEW q \in Request, NEW i \in DOMAIN Statements(q), NEW j \in DOMAIN Statements(q),
             Told(Statements(q)[i]), Shows(Statements(q), i, j),
             step'[q] > j \/ answer'[q] = "ok",
             NEW k \in DOMAIN db'[Statements(q)[i].table],
             db'[Statements(q)[i].table][k].by = q
      PROVE  seen'[q] = db'[Statements(q)[i].table][k]
  <2> DEFINE t == Statements(q)[i].table
             w == Statements(q)[i]
  <2>1. w.do \in {"insert", "update", "upsert"} /\ t \in RowTable
    BY <1>2, ShapeOf DEF Told, ServiceTypeOK, OnTable, Writing
  <2>2. CASE q # r
    <3>1. k \in DOMAIN db[t] /\ db'[t][k] = db[t][k]
      BY <1>2, <2>1, <2>2, RowsServed
    <3>2. /\ step[q] > j \/ answer[q] = "ok"
          /\ seen'[q] = seen[q]
      BY <1>2, <2>2 DEF Serves
    <3> QED BY <1>2, <3>1, <3>2 DEF ToldInv
  <2>3. CASE q = r
    <3> DEFINE m == step[r]
               s == Due(r)
    <3>1. /\ m \in DOMAIN Statements(r) /\ s = Statements(r)[m] /\ answer[r] = "none"
          /\ workload \in DOMAIN Workloads
      BY DEF ServiceTypeOK, Due, Serves
    <3>2. /\ m \in Nat /\ i \in Nat /\ j \in Nat /\ i <= j
          /\ Len(Statements(r)) \in Nat /\ m <= Len(Statements(r)) /\ j <= Len(Statements(r))
      BY <1>2, <2>3, <3>1, ShapeOf DEF Shows
    <3>3. /\ \A n \in DOMAIN Statements(r) :
                Statements(r)[n].do \in Writing /\ Statements(r)[n].table = t => n = i
          /\ \A n \in DOMAIN Statements(r) : n > i =>
                /\ Statements(r)[n].do # "insert"
                /\ Statements(r)[n].do = "read" =>
                      Statements(r)[n].table = t /\ Statements(r)[n].key = w.key
      BY <1>2, <2>3, <3>1, Contract DEF Tells
    <3>4. \A l \in DOMAIN db[t] : db[t][l].by = r => l = w.key /\ i < m
      BY <1>2, <2>3, <3>1, OneKey, RanServed
    <3>5. ASSUME k \in DOMAIN db[t], db'[t][k] = db[t][k], m > i, s.do = "read",
                 seen'[r] = db[s.table][s.key]
          PROVE  seen'[r] = db'[t][k]
      BY <1>2, <2>3, <3>1, <3>3, <3>4, <3>5
    <3>6. CASE m = i
      <4>1. ~(k \in DOMAIN db[t] /\ db'[t][k] = db[t][k])
        BY <1>2, <2>3, <3>2, <3>4, <3>6
      <4>2. /\ Goes(r) /\ NewRow(s, r, k)
        BY <1>2, <2>1, <2>3, <4>1, RowsServed
      <4>3. i = j
        BY <1>2, <2>3, <3>1, <3>2, <3>6, <4>2 DEF Goes
      <4>4. s.do = "insert"
        BY <1>2, <2>3, <3>1, <3>2, <3>6, <4>3 DEF Shows
      <4>5. db'[t][k] = Row(s, r, now)
        BY <2>3, <3>1, <3>6, <4>2, <4>4 DEF NewRow
      <4>6. seen'[r] = Row(s, r, now)
        BY <4>2, <4>4 DEF Goes
      <4> QED BY <2>3, <4>5, <4>6
    <3>7. CASE m < i
      <4>1. ~(k \in DOMAIN db[t] /\ db'[t][k] = db[t][k])
        BY <1>2, <2>3, <3>2, <3>4, <3>7
      <4>2. s.do \in Writing /\ t = s.table
        BY <1>2, <2>1, <2>3, <4>1, RowsServed
      <4> QED BY <3>1, <3>2, <3>3, <3>7, <4>2
    <3>8. CASE m > i
      <4>1. k \in DOMAIN db[t] /\ db'[t][k] = db[t][k]
        <5>1. ~(s.do \in Writing /\ t = s.table)
          BY <3>1, <3>2, <3>3, <3>8
        <5> QED BY <1>2, <2>1, <2>3, <5>1, RowsServed
      <4>2. s.do # "insert" /\ s.otherwise # "missing"
        BY <1>2, <2>3, <3>1, <3>3, <3>8 DEF Shows
      <4>3. CASE m > j
        <5>1. seen[r] = db[t][k]
          BY <1>2, <2>3, <4>1, <4>3 DEF ToldInv
        <5>2. CASE seen'[r] = seen[r]
          BY <2>3, <4>1, <5>1, <5>2
        <5>3. CASE s.do = "read" /\ seen'[r] = db[s.table][s.key]
          BY <2>3, <3>5, <3>8, <4>1, <5>3
        <5> QED BY <4>2, <5>2, <5>3 DEF Serves, Goes, Errs, Skips
      <4>4. CASE m = j
        <5>1. s.do = "read"
          BY <1>2, <2>3, <3>1, <3>2, <3>8, <4>4 DEF Shows
        <5>2. CASE Goes(r)
          <6>1. seen'[r] = db[s.table][s.key]
            BY <5>1, <5>2 DEF Goes
          <6> QED BY <2>3, <3>5, <3>8, <4>1, <5>1, <6>1
        <5>3. ~Errs(r)
          BY <1>2, <2>3, <3>2, <4>4 DEF Errs
        <5>4. CASE Skips(r)
          <6>1. s.otherwise = "last" /\ j = Len(Statements(r))
            BY <1>2, <2>3, <3>1, <3>2, <4>2, <4>4, <5>4 DEF Skips, Shows
          <6>2. seen'[r] = db[s.table][s.key]
            BY <1>2, <2>3, <3>2, <5>4, <6>1 DEF Skips
          <6> QED BY <2>3, <3>5, <3>8, <4>1, <5>1, <6>2
        <5> QED BY <5>2, <5>3, <5>4 DEF Serves
      <4>5. CASE m < j
        <5>1. ~Goes(r)
          BY <1>2, <2>3, <3>2, <4>5 DEF Goes
        <5>2. ~Errs(r)
          BY <1>2, <2>3, <3>2, <4>5 DEF Errs
        <5>3. Skips(r)
          BY <5>1, <5>2 DEF Serves
        <5>4. s.otherwise # "ignore" /\ (s.otherwise = "last" => j = Len(Statements(r)))
          BY <1>2, <2>3, <3>1, <3>2, <4>5 DEF Shows
        <5>5. s.do = "read" /\ seen'[r] = db[s.table][s.key]
          BY <1>2, <2>3, <3>2, <4>2, <4>5, <5>3, <5>4 DEF Skips
        <5> QED BY <2>3, <3>5, <3>8, <4>1, <5>5
      <4> QED BY <3>2, <4>3, <4>4, <4>5
    <3> QED BY <3>2, <3>6, <3>7, <3>8
  <2> QED BY <2>2, <2>3
<1> QED BY <1>1, <1>2 DEF ToldInv

\* Dropped requests have not been answered 200.
LEMMA ToldOther ==
  ASSUME ServiceTypeOK, ToldInv, Drops \/ \E r \in Request : Repeats(r)
  PROVE  ToldInv'
<1>1. UNCHANGED <<workload, db, seen>>
  BY RepeatsEffect DEF Drops
<1>2. Request' = Request /\ \A q : Statements(q)' = Statements(q)
  BY <1>1, SameStatements
<1>3. \A q \in Request : \A j \in DOMAIN Statements(q) :
         step'[q] > j \/ answer'[q] = "ok" => step[q] > j \/ answer[q] = "ok"
  BY RepeatsEffect, ShapeOf DEF Drops, ServiceTypeOK
<1> QED BY <1>1, <1>2, <1>3 DEF ToldInv

\* Where create_file_claim looks, and where it inserts.
LEMMA ClaimingStatements ==
  ASSUME workload \in DOMAIN Workloads, NEW c \in Request, Op(c) = "create_file_claim"
  PROVE  LET ss == Statements(c)
             n  == Len(Statements(c)) - 1
         IN
         /\ Plain(ss) /\ n \in {3, 4} /\ n \in DOMAIN ss /\ 2 \in DOMAIN ss
         /\ ss[2].do = "select" /\ ss[2].table = "file_claims"
         /\ DOMAIN ss[2].columns = {"path"}
         /\ ss[n].do = "insert" /\ ss[n].table = "file_claims"
         /\ "path" \in DOMAIN ss[n].columns /\ ss[n].columns.path = PathOf(c)
         /\ \A i \in DOMAIN ss : ss[i].do # "read" /\ (ss[i].do = "select" => i = 2)
         /\ \A i \in DOMAIN ss : ss[i].do \in Writing => i = n
  BY Contract, ShapeOf DEF Claiming, PathOf

\* A claim is inserted after the select of its request; a later request selects it.
LEMMA ClaimServed ==
  ASSUME ServiceTypeOK, AuthorInv, BeforeInv, ClaimInv, NEW r \in Request, Serves(r)
  PROVE  ClaimInv'
<1> DEFINE s == Due(r)
           m == step[r]
           claims == "file_claims"
<1>1. /\ Request' = Request /\ \A q : Statements(q)' = Statements(q) /\ Op(q)' = Op(q)
      /\ \A q : PathOf(q)' = PathOf(q)
  BY SameStatements DEF Serves, PathOf
<1>2. /\ m \in DOMAIN Statements(r) /\ s = Statements(r)[m] /\ answer[r] = "none"
      /\ workload \in DOMAIN Workloads /\ m \in Nat
      /\ claims \in RowTable
  BY RanServed DEF ServiceTypeOK, Due, Serves, RowTable
<1>3. ASSUME Op(r) = "create_file_claim"
      PROVE  ~Skips(r) /\ (s.do \notin {"insert", "read"} \/ Errs(r) => seen'[r] = seen[r])
  BY <1>2, <1>3, ClaimingStatements DEF Plain, Serves, Goes, Errs, Skips
<1>4. ASSUME NEW k \in DOMAIN db'[claims], db'[claims][k].by \in Request
      PROVE  /\ Op(db'[claims][k].by) = "create_file_claim"
             /\ db'[claims][k].path = PathOf(db'[claims][k].by)
  <2>1. CASE k \in DOMAIN db[claims] /\ db'[claims][k] = db[claims][k]
    BY <1>4, <2>1 DEF ClaimInv
  <2>2. CASE ~(k \in DOMAIN db[claims] /\ db'[claims][k] = db[claims][k])
    <3>1. /\ s.do \in Writing /\ s.do # "delete" /\ s.table = claims /\ NewRow(s, r, k)
          /\ db'[claims][k].by = r
      BY <1>2, <2>2, RowsServed
    <3>2. Op(r) = "create_file_claim"
      BY <1>2, <3>1, Contract
    <3>3. m = Len(Statements(r)) - 1
      BY <1>2, <3>1, <3>2, ClaimingStatements
    <3>4. s.do = "insert" /\ "path" \in DOMAIN s.columns /\ s.columns.path = PathOf(r)
      BY <1>2, <3>2, <3>3, ClaimingStatements
    <3>5. db'[claims][k] = Row(s, r, now)
      BY <3>1, <3>4 DEF NewRow
    <3>6. db'[claims][k].path = PathOf(r)
      BY <3>4, <3>5 DEF Row
    <3> QED BY <3>1, <3>2, <3>6
  <2> QED BY <2>1, <2>2
<1>5. ASSUME NEW c \in Request, Op(c) = "create_file_claim",
             RanAfter(c, Len(Statements(c)) - 1)
      PROVE  seen'[c].path = PathOf(c)
  <2> DEFINE n == Len(Statements(c)) - 1
  <2>1. n \in DOMAIN Statements(c) /\ n \in Nat
    BY <1>2, <1>5, ClaimingStatements
  <2>2. CASE c # r
    <3>1. Ran(c, n)
      BY <1>5, <2>1, <2>2, RanServed
    <3>2. seen'[c] = seen[c]
      BY <2>2 DEF Serves
    <3> QED BY <1>5, <3>1, <3>2 DEF ClaimInv
  <2>3. CASE c = r /\ Ran(r, n)
    <3>1. m > n
      BY <1>2, <2>1, <2>3, RanServed
    <3>2. s.do \notin Writing
      BY <1>2, <1>5, <2>1, <2>3, <3>1, ClaimingStatements
    <3>3. seen[r].path = PathOf(r)
      BY <1>5, <2>3 DEF ClaimInv
    <3>4. s.do # "read"
      BY <1>2, <1>5, <2>3, ClaimingStatements
    <3> QED BY <1>3, <1>5, <2>3, <3>2, <3>3, <3>4 DEF Writing
  <2>4. CASE c = r /\ ~Ran(r, n)
    <3>1. Goes(r) /\ m = n
      BY <1>2, <1>3, <1>5, <2>1, <2>4, RanServed DEF Serves
    <3>2. seen'[r] = Row(s, r, now)
      BY <1>2, <1>5, <2>4, <3>1, ClaimingStatements DEF Goes
    <3>3. "path" \in DOMAIN s.columns /\ s.columns.path = PathOf(r)
      BY <1>2, <1>5, <2>4, <3>1, ClaimingStatements
    <3> QED BY <2>4, <3>2, <3>3 DEF Row
  <2> QED BY <2>2, <2>3, <2>4
<1>6. ASSUME NEW c \in Request, NEW d \in Request,
             Op(c) = "create_file_claim", Op(d) = "create_file_claim",
             c \in before'[d], RanAfter(d, 2), PathOf(c) = PathOf(d)
      PROVE  \/ \E k \in DOMAIN found'[d] : found'[d][k].by = c
             \/ \A k \in DOMAIN db'[claims] : db'[claims][k].by # c
  <2>1. 2 \in DOMAIN Statements(d)
    BY <1>2, <1>6, ClaimingStatements
  <2>2. c \in before[d]
    <3>1. CASE d # r
      BY <1>6, <3>1 DEF Serves
    <3>2. CASE d = r
      <4>1. m = 1 => ~RanAfter(r, 2)
        BY <1>2, <1>3, <1>6, <2>1, <3>2, RanServed DEF Serves
      <4>2. before'[r] = before[r]
        BY <1>6, <3>2, <4>1 DEF Serves, Goes, Errs, Skips
      <4> QED BY <1>6, <3>2, <4>2
    <3> QED BY <3>1, <3>2
  <2>3. answer[c] = "ok"
    <3>1. ~Work.repeat
      <4>1. Statements(c)[Len(Statements(c)) - 1].do = "insert"
            /\ Len(Statements(c)) - 1 \in DOMAIN Statements(c)
        BY <1>2, <1>6, ClaimingStatements
      <4> QED BY <1>2, <4>1, Contract
    <3> QED BY <2>2, <3>1 DEF BeforeInv
  <2>4. c # r
    BY <1>2, <2>3
  <2>5. \A k \in DOMAIN db'[claims] : db'[claims][k].by = c =>
           k \in DOMAIN db[claims] /\ db'[claims][k] = db[claims][k]
    BY <1>2, <2>4, RowsServed
  <2>6. CASE Ran(d, 2)
    <3>1. found'[d] = found[d]
      <4>1. CASE d # r
        BY <4>1 DEF Serves
      <4>2. CASE d = r
        <5>1. m > 2
          BY <1>2, <2>1, <2>6, <4>2, RanServed
        <5>2. s.do # "select"
          BY <1>2, <1>6, <4>2, <5>1, ClaimingStatements
        <5> QED BY <4>2, <5>2 DEF Serves, Goes, Errs, Skips
      <4> QED BY <4>1, <4>2
    <3> QED BY <1>6, <2>2, <2>5, <2>6, <3>1 DEF ClaimInv
  <2>7. CASE ~Ran(d, 2)
    <3>1. d = r
      BY <1>6, <2>1, <2>7, RanServed
    <3>2. Goes(r) /\ m = 2
      BY <1>2, <1>3, <1>6, <2>1, <2>7, <3>1, RanServed DEF Serves
    <3>3. /\ s.do = "select" /\ s.table = claims /\ DOMAIN s.columns = {"path"}
          /\ s.columns.path = PathOf(d)
      BY <1>2, <1>6, <3>1, <3>2, ClaimingStatements DEF PathOf
    <3>4. found'[r] = [k \in {l \in DOMAIN db[claims] : db[claims][l].path = PathOf(d)} |->
                          db[claims][k]]
      BY <3>2, <3>3 DEF Goes
    <3>5. UNCHANGED db
      BY <3>2, <3>3 DEF Goes, Writing
    <3>6. \A k \in DOMAIN db[claims] : db[claims][k].by = c => db[claims][k].path = PathOf(c)
      BY DEF ClaimInv
    <3> QED BY <1>6, <3>1, <3>4, <3>5, <3>6
  <2> QED BY <2>6, <2>7
<1> QED BY <1>1, <1>4, <1>5, <1>6 DEF ClaimInv, Ran, RanAfter

\* Claims and what was selected stay when no statement runs.
LEMMA ClaimOther ==
  ASSUME ServiceTypeOK, ClaimInv, Drops \/ \E r \in Request : Repeats(r)
  PROVE  ClaimInv'
<1>1. UNCHANGED <<workload, db, seen, found, before>>
  BY RepeatsEffect DEF Drops
<1>2. /\ Request' = Request /\ \A q : Statements(q)' = Statements(q) /\ Op(q)' = Op(q)
      /\ \A q : PathOf(q)' = PathOf(q)
  BY <1>1, SameStatements DEF PathOf
<1>3. \A q \in Request : \A i \in DOMAIN Statements(q) : RanAfter(q, i) => Ran(q, i)
  BY RanDropped, RepeatsEffect
<1>4. \A c \in Request : Op(c) = "create_file_claim" =>
         2 \in DOMAIN Statements(c) /\ Len(Statements(c)) - 1 \in DOMAIN Statements(c)
  BY ClaimingStatements DEF ServiceTypeOK
<1>5. \A c \in Request : Op(c) = "create_file_claim" =>
         /\ RanAfter(c, 2) => Ran(c, 2)
         /\ RanAfter(c, Len(Statements(c)) - 1) => Ran(c, Len(Statements(c)) - 1)
  BY <1>3, <1>4
<1> QED BY <1>1, <1>2, <1>5 DEF ClaimInv, Ran, RanAfter

\* The three statements of update_capability_score, of which one counts.
LEMMA ScoringStatements ==
  ASSUME workload \in DOMAIN Workloads, NEW r \in Request, Op(r) = "update_capability_score"
  PROVE  LET s == Statements(r)[2] IN
         /\ Plain(Statements(r)) /\ 2 \in DOMAIN Statements(r)
         /\ s.do = "upsert" /\ s.table = "capability_scores"
         /\ DOMAIN s.columns = {"success_count", "failure_count", "age"}
         /\ s.columns.success_count \in {0, 1} /\ s.columns.failure_count \in {0, 1}
         /\ s.columns.failure_count = 1 - s.columns.success_count /\ s.columns.age = 0
         /\ s.add = {"success_count", "failure_count"}
         /\ \A i \in DOMAIN Statements(r) : Statements(r)[i].do \in Writing => i = 2
<1>1. Scoring(Statements(r)) /\ Tells(Statements(r)) /\ Shape(Statements(r))
  BY Contract
<1>2. \A i \in DOMAIN Statements(r) : i \in {1, 2, 3}
  BY <1>1 DEF Scoring, Shape
<1>3. \A i \in DOMAIN Statements(r) : Statements(r)[i].do \in Writing => i = 2
  BY <1>1, <1>2 DEF Scoring, Shape, Writing
<1>4. 2 \in DOMAIN Statements(r)
  BY <1>1 DEF Scoring, Shape
<1> QED BY <1>1, <1>3, <1>4 DEF Scoring

\* Of a key's outcomes, at most the one recorded by the step is new.
LEMMA RecordedServed ==
  ASSUME ServiceTypeOK, NEW r \in Request, Serves(r), NEW column, NEW k
  PROVE  LET new == Recorded(column, k)'
             old == Recorded(column, k)
             s   == Statements(r)[2]
         IN
         IF /\ Op(r) = "update_capability_score" /\ step[r] = 2 /\ Goes(r)
            /\ s.key = k /\ s.columns[column] = 1
         THEN r \notin old /\ new = old \cup {r}
         ELSE new = old
<1> DEFINE C(q) == /\ Op(q) = "update_capability_score"
                   /\ Statements(q)[2].key = k /\ Statements(q)[2].columns[column] = 1
<1>1. Request' = Request /\ \A q : Statements(q)' = Statements(q) /\ Op(q)' = Op(q)
  BY SameStatements DEF Serves
<1>2. /\ Recorded(column, k) = {q \in Request : C(q) /\ Ran(q, 2)}
      /\ Recorded(column, k)' = {q \in Request : C(q) /\ RanAfter(q, 2)}
  BY <1>1 DEF Recorded, Ran, RanAfter
<1>3. \A q \in Request : C(q) => 2 \in DOMAIN Statements(q) /\ Plain(Statements(q))
  BY ScoringStatements DEF ServiceTypeOK
<1>4. \A q \in Request \ {r} : C(q) => (Ran(q, 2) <=> RanAfter(q, 2))
  BY <1>3, RanServed
<1>5. CASE ~C(r)
  BY <1>2, <1>4, <1>5
<1>6. CASE C(r)
  <2>1. Goes(r) \/ Errs(r)
    BY <1>3, <1>6 DEF Serves, Skips, Plain, Due, ServiceTypeOK
  <2>2. CASE step[r] = 2 /\ Goes(r)
    <3>1. ~Ran(r, 2) /\ RanAfter(r, 2)
      BY <1>3, <1>6, <2>2, RanServed
    <3> QED BY <1>2, <1>4, <1>6, <2>2, <3>1
  <2>3. CASE ~(step[r] = 2 /\ Goes(r))
    <3>1. Ran(r, 2) <=> RanAfter(r, 2)
      BY <1>3, <1>6, <2>1, <2>3, RanServed
    <3> QED BY <1>2, <1>4, <1>6, <2>3, <3>1
  <2> QED BY <2>2, <2>3
<1> QED BY <1>5, <1>6

\* One more outcome is one more in the set of them.
LEMMA OneMore ==
  ASSUME workload \in DOMAIN Workloads, NEW column, NEW k
  PROVE  /\ Cardinality(Recorded(column, k)) \in Nat
         /\ \A r \in Request \ Recorded(column, k) :
               Cardinality(Recorded(column, k) \cup {r}) = Cardinality(Recorded(column, k)) + 1
<1>1. IsFiniteSet(Request)
  BY WorkloadAssumption DEF Request, Work
<1>2. IsFiniteSet(Recorded(column, k))
  BY <1>1, FS_Subset DEF Recorded
<1> QED BY <1>2, FS_CardinalityType, FS_AddElement

\* A count is raised by the statement that runs, in one step.
LEMMA CountServed ==
  ASSUME ServiceTypeOK, ThereInv, CountInv, NEW r \in Request, Serves(r)
  PROVE  CountInv'
<1> DEFINE s == Due(r)
           w == Statements(r)[2]
           table == "capability_scores"
           rows == Work.rows[table]
           Base(k) == IF k \in DOMAIN rows THEN rows[k]
                      ELSE [success_count |-> 0, failure_count |-> 0]
           Recording(k) == /\ Op(r) = "update_capability_score" /\ step[r] = 2 /\ Goes(r)
                           /\ w.key = k
<1>1. Work' = Work
  BY SameStatements DEF Serves
<1>2. /\ step[r] \in DOMAIN Statements(r) /\ s = Statements(r)[step[r]]
      /\ workload \in DOMAIN Workloads /\ table \in RowTable
  BY DEF ServiceTypeOK, Due, RowTable
<1>3. DOMAIN rows \subseteq DOMAIN db'[table]
  BY <1>2, RowsServed DEF CountInv, Scores
<1>4. ASSUME NEW k \in DOMAIN db[table], db'[table][k] = db[table][k], ~Recording(k)
      PROVE  /\ db'[table][k].success_count
                    = Base(k).success_count + Cardinality(Recorded("success_count", k)')
             /\ db'[table][k].failure_count
                    = Base(k).failure_count + Cardinality(Recorded("failure_count", k)')
  <2>1. /\ Recorded("success_count", k)' = Recorded("success_count", k)
        /\ Recorded("failure_count", k)' = Recorded("failure_count", k)
    BY <1>4, RecordedServed
  <2> QED BY <1>4, <2>1 DEF CountInv, Scores
<1>5. ASSUME NEW k \in DOMAIN db'[table], ~(k \in DOMAIN db[table] /\ db'[table][k] = db[table][k])
      PROVE  Recording(k)
  <2>1. /\ Goes(r) /\ s.do \in Writing /\ s.table = table /\ NewRow(s, r, k)
        /\ k = KeyOf(s, r)
    BY <1>2, <1>5, RowsServed
  <2>2. Op(r) = "update_capability_score"
    BY <1>2, <2>1, Contract
  <2>3. step[r] = 2 /\ s.do = "upsert"
    BY <1>2, <2>1, <2>2, ScoringStatements
  <2> QED BY <1>2, <2>1, <2>2, <2>3 DEF KeyOf
<1>6. ASSUME NEW k, Recording(k)
      PROVE  /\ db'[table][k].success_count
                    = Base(k).success_count + Cardinality(Recorded("success_count", k)')
             /\ db'[table][k].failure_count
                    = Base(k).failure_count + Cardinality(Recorded("failure_count", k)')
  <2>1. /\ w.do = "upsert" /\ w.table = table /\ s = w
        /\ DOMAIN w.columns = {"success_count", "failure_count", "age"}
        /\ w.columns.success_count \in {0, 1} /\ w.columns.failure_count \in {0, 1}
        /\ w.add = {"success_count", "failure_count"}
    BY <1>2, <1>6, ScoringStatements
  <2>2. Wrote(w, r)
    BY <1>6, <2>1 DEF Goes, Writing
  <2>3. k \in DOMAIN db'[table] /\ NewRow(w, r, k)
    BY <1>6, <2>1, <2>2 DEF Wrote
  <2>4. ASSUME NEW column \in {"success_count", "failure_count"}
        PROVE  db'[table][k][column]
                  = (IF k \in DOMAIN db[table] THEN db[table][k][column] ELSE 0)
                    + w.columns[column]
    <3>1. CASE k \notin DOMAIN db[table]
      <4>1. db'[table][k] = Row(w, r, now)
        BY <2>1, <2>3, <3>1 DEF NewRow
      <4>2. db'[table][k][column] = w.columns[column]
        BY <2>1, <4>1 DEF Row
      <4> QED BY <2>1, <2>4, <3>1, <4>2
    <3>2. CASE k \in DOMAIN db[table]
      <4>1. db'[table][k] = Changed(db[table][k], w, r, now)
        BY <2>1, <2>3, <3>2 DEF NewRow
      <4>2. column \in DOMAIN db[table][k]
        BY <1>2, <2>4, <3>2 DEF ServiceTypeOK, Columns
      <4> QED BY <2>1, <2>4, <3>2, <4>1, <4>2 DEF Changed
    <3> QED BY <3>1, <3>2
  <2>5. ASSUME NEW column \in {"success_count", "failure_count"}
        PROVE  Cardinality(Recorded(column, k)')
                  = Cardinality(Recorded(column, k)) + w.columns[column]
    <3>1. CASE w.columns[column] = 1
      <4>1. r \notin Recorded(column, k) /\ Recorded(column, k)' = Recorded(column, k) \cup {r}
        BY <1>6, <3>1, RecordedServed
      <4> QED BY <1>2, <3>1, <4>1, OneMore
    <3>2. CASE w.columns[column] = 0
      <4>1. Recorded(column, k)' = Recorded(column, k)
        BY <1>6, <3>2, RecordedServed
      <4> QED BY <1>2, <3>2, <4>1, OneMore
    <3> QED BY <2>1, <2>5, <3>1, <3>2
  <2>6. ASSUME NEW column \in {"success_count", "failure_count"}, k \notin DOMAIN db[table]
        PROVE  Cardinality(Recorded(column, k)) = 0
    <3>1. \A q \in Request : Op(q) = "update_capability_score" /\ Ran(q, 2) =>
             Statements(q)[2].key \in DOMAIN db[table]
      BY <1>2, ScoringStatements DEF ThereInv
    <3>2. Recorded(column, k) = {}
      BY <2>6, <3>1 DEF Recorded
    <3> QED BY <3>2, FS_EmptySet
  <2>7. CASE k \in DOMAIN db[table]
    <3>1. /\ db[table][k].success_count
                = Base(k).success_count + Cardinality(Recorded("success_count", k))
          /\ db[table][k].failure_count
                = Base(k).failure_count + Cardinality(Recorded("failure_count", k))
      BY <2>7 DEF CountInv, Scores
    <3>2. Base(k).success_count \in Nat /\ Base(k).failure_count \in Nat
      <4>1. CASE k \in DOMAIN rows
        BY <1>2, <4>1, WorkloadAssumption DEF Work, Parses, row_to_capability_score
      <4>2. CASE k \notin DOMAIN rows
        BY <4>2
      <4> QED BY <4>1, <4>2
    <3> HIDE DEF Base
    <3>3. \A column \in {"success_count", "failure_count"} :
             Cardinality(Recorded(column, k)) \in Nat
      BY <1>2, OneMore
    <3>4. /\ db'[table][k].success_count = db[table][k].success_count + w.columns.success_count
          /\ db'[table][k].failure_count = db[table][k].failure_count + w.columns.failure_count
      BY <2>4, <2>7
    <3>5. /\ Cardinality(Recorded("success_count", k)')
                = Cardinality(Recorded("success_count", k)) + w.columns.success_count
          /\ Cardinality(Recorded("failure_count", k)')
                = Cardinality(Recorded("failure_count", k)) + w.columns.failure_count
      BY <2>5
    <3> QED BY <2>1, <3>1, <3>2, <3>3, <3>4, <3>5
  <2>8. CASE k \notin DOMAIN db[table]
    <3>1. Base(k).success_count = 0 /\ Base(k).failure_count = 0
      BY <2>8 DEF CountInv, Scores
    <3> HIDE DEF Base
    <3>2. /\ db'[table][k].success_count = w.columns.success_count
          /\ db'[table][k].failure_count = w.columns.failure_count
      BY <2>1, <2>4, <2>8
    <3>3. /\ Cardinality(Recorded("success_count", k)') = w.columns.success_count
          /\ Cardinality(Recorded("failure_count", k)') = w.columns.failure_count
      BY <2>1, <2>5, <2>6, <2>8
    <3> QED BY <2>1, <3>1, <3>2, <3>3
  <2> QED BY <2>7, <2>8
<1>7. \A k \in DOMAIN db'[table] :
         /\ db'[table][k].success_count
                = Base(k).success_count + Cardinality(Recorded("success_count", k)')
         /\ db'[table][k].failure_count
                = Base(k).failure_count + Cardinality(Recorded("failure_count", k)')
  BY <1>4, <1>5, <1>6
<1> QED BY <1>1, <1>3, <1>7 DEF CountInv, Scores

\* Counts stay when no statement runs.
LEMMA CountOther ==
  ASSUME ServiceTypeOK, CountInv, Drops \/ \E r \in Request : Repeats(r)
  PROVE  CountInv'
<1>1. UNCHANGED <<workload, db>>
  BY RepeatsEffect DEF Drops
<1>2. /\ Work' = Work /\ Request' = Request
      /\ \A q : Statements(q)' = Statements(q) /\ Op(q)' = Op(q)
  BY <1>1, SameStatements
<1>3. \A q \in Request : Op(q) = "update_capability_score" => (RanAfter(q, 2) <=> Ran(q, 2))
  <2>1. CASE Drops
    BY <2>1, RanDropped
  <2>2. CASE \E r \in Request : Repeats(r)
    <3>1. Work.repeat
      BY <2>2, RepeatsEffect
    <3>2. \A q \in Request : Op(q) # "update_capability_score"
      <4> SUFFICES ASSUME NEW q \in Request, Op(q) = "update_capability_score"
                   PROVE  FALSE
        OBVIOUS
      <4>1. 2 \in DOMAIN Statements(q) /\ Statements(q)[2].do = "upsert"
        BY ScoringStatements DEF ServiceTypeOK
      <4> QED BY <3>1, <4>1, Contract DEF ServiceTypeOK
    <3> QED BY <3>2
  <2> QED BY <2>1, <2>2
<1>4. \A column, k : Recorded(column, k)' = Recorded(column, k)
  BY <1>2, <1>3 DEF Recorded, Ran, RanAfter
<1> QED BY <1>1, <1>2, <1>4 DEF CountInv, Scores

\* A metric gets a number of its own; what is selected of them is a part of them.
LEMMA MetricServed ==
  ASSUME ServiceTypeOK, MetricInv, NEW r \in Request, Serves(r)
  PROVE  MetricInv'
<1> DEFINE s == Due(r)
           t == "step_metrics"
<1>1. /\ step[r] \in DOMAIN Statements(r) /\ s = Statements(r)[step[r]]
      /\ workload \in DOMAIN Workloads /\ t \in RowTable
  BY DEF ServiceTypeOK, Due, RowTable
<1>2. Request' = Request /\ \A q : Op(q)' = Op(q)
  BY SameStatements DEF Serves
<1>3. DOMAIN db'[t] \subseteq Int /\ IsFiniteSet(DOMAIN db'[t])
  <2>1. CASE DOMAIN db'[t] \subseteq DOMAIN db[t]
    BY <2>1, FS_Subset DEF MetricInv
  <2>2. CASE \E k \in DOMAIN db'[t] : k \notin DOMAIN db[t]
    <3>1. PICK k \in DOMAIN db'[t] : k \notin DOMAIN db[t]
      BY <2>2
    <3>2. Goes(r) /\ s.do \in Writing /\ s.table = t /\ k = KeyOf(s, r)
      BY <1>1, <3>1, RowsServed
    <3>3. s.do = "insert" /\ s.key \in Int
      BY <1>1, <3>2, Contract
    <3>4. k = s.key
      BY <3>2, <3>3 DEF KeyOf
    <3>5. DOMAIN db'[t] \subseteq DOMAIN db[t] \cup {k}
      BY <1>1, <3>2, RowsServed
    <3>6. IsFiniteSet(DOMAIN db[t] \cup {k})
      BY FS_AddElement DEF MetricInv
    <3> QED BY <3>3, <3>4, <3>5, <3>6, FS_Subset DEF MetricInv
  <2> QED BY <2>1, <2>2
<1>4. ASSUME NEW q \in Request, Op(q) = "get_pipeline_analytics"
      PROVE  DOMAIN found'[q] \subseteq Int /\ IsFiniteSet(DOMAIN found'[q])
  <2>1. CASE found'[q] = found[q]
    BY <1>4, <2>1 DEF MetricInv
  <2>2. CASE found'[q] # found[q]
    <3>1. q = r /\ Goes(r) /\ s.do = "select"
      BY <2>2 DEF Serves, Goes, Errs, Skips
    <3>2. s.table = t
      BY <1>1, <1>4, <3>1, Contract DEF Asking
    <3>3. DOMAIN found'[q] \subseteq DOMAIN db[t]
      BY <3>1, <3>2 DEF Goes
    <3> QED BY <3>3, FS_Subset DEF MetricInv
  <2> QED BY <2>1, <2>2
<1> QED BY <1>2, <1>3, <1>4 DEF MetricInv

\* Metrics stay when no statement runs.
LEMMA MetricOther ==
  ASSUME ServiceTypeOK, MetricInv, Drops \/ \E r \in Request : Repeats(r)
  PROVE  MetricInv'
<1>1. UNCHANGED <<workload, db, found>>
  BY RepeatsEffect DEF Drops
<1>2. Request' = Request /\ \A q : Op(q)' = Op(q)
  BY <1>1, SameStatements
<1> QED BY <1>1, <1>2 DEF MetricInv
-----------------------------------------------------------------------------
(* The hub is one that starts and admits requests as modules Migrations and *)
(* RateLimit say.                                                           *)
\* With requests under way and answered, databases that have rows and hubs that are
\* dropped with what they were doing, a hub still starts step by step as Migrations
\* has it: what is proved of StartSpec is true of the service.
THEOREM ServiceStarts == ServiceSpec => StartSpec
<1>1. ServiceInit => StartInit
  BY DEF ServiceInit
<1>2. [ServiceNext]_serviceVars => [StartNext]_startVars
  <2> SUFFICES ASSUME [ServiceNext]_serviceVars
               PROVE  [StartNext]_startVars
    OBVIOUS
  <2>1. ASSUME NEW h \in Hub, Starts(h) \/ Ends(h)
        PROVE  StartNext
    BY <2>1 DEF Starts, Ends, StartNext
  <2>2. ASSUME NEW r \in Request, Handles(r) \/ Repeats(r)
        PROVE  UNCHANGED startVars
    BY <2>2 DEF Handles, Repeats
  <2>3. CASE TimePasses
    BY <2>3 DEF TimePasses
  <2>4. CASE UNCHANGED serviceVars
    BY <2>4 DEF serviceVars
  <2> QED BY <2>1, <2>2, <2>3, <2>4 DEF ServiceNext
<1> QED BY <1>1, <1>2, PTL DEF ServiceSpec, StartSpec

\* Whatever the requests are and whatever becomes of them, the hub admits them as
\* RateLimit has it, and forgets what it has admitted only when it ends.
THEOREM ServiceLimits == ServiceSpec => LimitSpec
<1>1. ServiceInit => LimitInit
  BY DEF ServiceInit
<1>2. [ServiceNext]_serviceVars => [LimitNext]_limitVars
  <2> SUFFICES ASSUME [ServiceNext]_serviceVars
               PROVE  [LimitNext]_limitVars
    OBVIOUS
  <2>1. ASSUME NEW h \in Hub, Starts(h) \/ Ends(h)
        PROVE  [LimitNext]_limitVars
    BY <2>1 DEF Starts, Ends, LimitNext
  <2>2. ASSUME NEW r \in Request, Handles(r) \/ Repeats(r)
        PROVE  [LimitNext]_limitVars
    BY <2>2 DEF Handles, Repeats, LimitNext
  <2>3. CASE TimePasses
    BY <2>3 DEF TimePasses, LimitNext
  <2>4. CASE UNCHANGED serviceVars
    BY <2>4 DEF serviceVars
  <2> QED BY <2>1, <2>2, <2>3, <2>4 DEF ServiceNext
<1> QED BY <1>1, <1>2, PTL DEF ServiceSpec, LimitSpec

\* A hub that serves these requests has the whole schema.
THEOREM ServiceHasSchema == ServiceSpec => []ServesWholeSchema
  BY ServiceStarts, ServingHasSchema

\* However often it was started beside another or ended, a database that was left
\* with a column of a version that is not recorded never serves them again.
THEOREM ServiceIsWedged == ServiceSpec => WedgedForEver
  BY ServiceStarts, TornDatabaseIsWedged

\* One process admits at most twice its limit of them around the end of a window.
THEOREM ServiceBurst == ServiceSpec => []BurstBound
  BY ServiceLimits, BurstIsBounded
-----------------------------------------------------------------------------
(* The invariant. *)
LEMMA ServiceInitial == ServiceInit => ServiceIInv
<1> SUFFICES ASSUME ServiceInit
             PROVE  ServiceIInv
  OBVIOUS
<1>1. /\ workload \in DOMAIN Workloads
      /\ db = Work.rows /\ events = {}
      /\ step = [r \in Request |-> 1]
      /\ seen = [r \in Request |-> NoRow]
      /\ found = [r \in Request |-> None]
      /\ answer = [r \in Request |-> "none"]
      /\ before = [r \in Request |-> {}]
  BY DEF ServiceInit, RecordsInit
<1>2. \A r \in Request : 1 \in DOMAIN Statements(r) /\ DOMAIN Statements(r) \subseteq Nat \ {0}
  BY <1>1, ShapeOf
<1>3. \A r \in Request : \A i \in DOMAIN Statements(r) : ~Ran(r, i)
  BY <1>1, <1>2 DEF Ran
<1>4. /\ DOMAIN db = RowTable
      /\ \A t \in RowTable : \A k \in DOMAIN db[t] :
            /\ Columns(t) \subseteq DOMAIN db[t][k]
            /\ Parses(t, db[t][k])
            /\ db[t][k].by \notin Request
      /\ \A k \in DOMAIN db["messages"] :
            /\ "thread_id" \in DOMAIN db["messages"][k]
            /\ db["messages"][k].thread_id \in DOMAIN db["threads"]
  BY <1>1, WorkloadAssumption DEF Work, Request
<1>5. {"capability_scores", "file_claims"} \subseteq RowTable
  BY DEF RowTable
<1>6. ServiceTypeOK
  BY <1>1, <1>2, <1>4 DEF ServiceTypeOK, UnderWay
<1>7. FoundInv
  BY <1>1 DEF FoundInv, None
<1>8. AuthorInv
  BY <1>1, <1>4 DEF AuthorInv
<1>9. ThereInv
  BY <1>3 DEF ThereInv
<1>10. MessageInv
  BY <1>4 DEF MessageInv
<1>11. ToldInv
  <2>1. \A r \in Request : \A j \in DOMAIN Statements(r) : ~(step[r] > j \/ answer[r] = "ok")
    BY <1>1, <1>2
  <2> QED BY <2>1 DEF ToldInv
<1>12. AnnouncedInv /\ RefusedInv /\ BeforeInv
  BY <1>1 DEF AnnouncedInv, RefusedInv, BeforeInv
<1>13. ClaimInv
  <2>1. \A c \in Request : Op(c) = "create_file_claim" =>
           ~Ran(c, Len(Statements(c)) - 1) /\ ~Ran(c, 2)
    BY <1>1, <1>3, ClaimingStatements
  <2> QED BY <1>4, <1>5, <2>1 DEF ClaimInv
<1>14. CountInv
  <2>1. \A r \in Request : Op(r) = "update_capability_score" => ~Ran(r, 2)
    BY <1>1, <1>3, ScoringStatements
  <2>2. \A column, k : Recorded(column, k) = {}
    BY <2>1 DEF Recorded
  <2>3. \A column, k : Cardinality(Recorded(column, k)) = 0
    BY <2>2, FS_EmptySet
  <2>4. Scores = Work.rows["capability_scores"]
    BY <1>1 DEF Scores
  <2>5. \A k \in DOMAIN Scores :
           Scores[k].success_count \in Nat /\ Scores[k].failure_count \in Nat
    BY <1>4, <1>5 DEF Scores, Parses, row_to_capability_score
  <2> QED BY <2>3, <2>4, <2>5 DEF CountInv
<1>15. MetricInv
  <2>1. DOMAIN Work.rows["step_metrics"] \subseteq Int /\ IsFiniteSet(DOMAIN Work.rows["step_metrics"])
    BY <1>1, WorkloadAssumption DEF Work
  <2>2. \A r \in Request : DOMAIN found[r] = {}
    BY <1>1 DEF None
  <2> QED BY <1>1, <2>1, <2>2, FS_EmptySet DEF MetricInv
<1> QED BY <1>6, <1>7, <1>8, <1>9, <1>10, <1>11, <1>12, <1>13, <1>14, <1>15 DEF ServiceIInv

\* Every step of the service preserves the invariant.
LEMMA ServicePreserved ==
  ServiceIInv /\ StartIInv /\ [ServiceNext]_serviceVars => ServiceIInv'
<1> SUFFICES ASSUME ServiceIInv, StartIInv, [ServiceNext]_serviceVars
             PROVE  ServiceIInv'
  OBVIOUS
<1> USE DEF ServiceIInv
<1>1. Serving' \/ \A r \in Request : ~UnderWay(r)'
  BY ServiceStep
<1>2. FoundInv' /\ BeforeInv'
  BY ServiceStep, FoundKept, BeforeKept
<1>3. ASSUME NEW r \in Request, Serves(r)
      PROVE  ServiceIInv'
  BY <1>1, <1>2, <1>3, TypeServed, AuthorServed, ThereServed, MessageServed, RefusedServed,
     AnnouncedServed, ToldServed, ClaimServed, CountServed, MetricServed
<1>4. CASE Drops \/ \E r \in Request : Repeats(r)
  <2>1. MessageInv'
    BY <1>4, RepeatsEffect DEF Drops, MessageInv
  <2> QED BY <1>1, <1>2, <1>4, <2>1, TypeOther, AuthorOther, ThereOther, RefusedOther,
             AnnouncedOther, ToldOther, ClaimOther, CountOther, MetricOther
<1> QED BY <1>3, <1>4, ServiceStep

\* The invariant of the service: whose the rows are, and what each request holds.
THEOREM ServiceInductive == ServiceSpec => []ServiceIInv
<1>1. ServiceSpec => []StartIInv
  BY ServiceStarts, StartInductive
<1> QED BY <1>1, ServiceInitial, ServicePreserved, PTL DEF ServiceSpec
-----------------------------------------------------------------------------
(* What clients can rely on. *)
\* Every row that some handler writes, some with literals in their SQL, is one that
\* every handler can read, and what is under way is so in a process that serves.
THEOREM ServiceTyped == ServiceSpec => []RecordsTypeOK
<1>1. ServiceIInv => RecordsTypeOK
  <2> SUFFICES ASSUME ServiceIInv
               PROVE  RecordsTypeOK
    OBVIOUS
  <2> USE DEF ServiceIInv
  <2>1. DOMAIN Work.rows = RowTable
    BY WorkloadAssumption DEF ServiceTypeOK, Work
  <2>2. \A r \in Request : \A k \in DOMAIN found[r] : "at" \in DOMAIN found[r][k]
    BY DEF FoundInv, Columns
  <2>3. \A e \in events : e.of \in Request
    BY DEF AuthorInv
  <2>4. \A r \in Request : before[r] \subseteq Request
    BY DEF BeforeInv
  <2> QED BY <2>1, <2>2, <2>3, <2>4 DEF RecordsTypeOK, ServiceTypeOK
<1> QED BY <1>1, ServiceInductive, PTL

\* The thread of every message is there, wherever insert_message was interrupted.
THEOREM MessagesAreInThreads == ServiceSpec => []MessageHasThread
<1>1. ServiceIInv => MessageHasThread
  BY DEF ServiceIInv, MessageInv, MessageHasThread
<1> QED BY <1>1, ServiceInductive, PTL

\* 429 is an answer that can be retried: no event is of the request, and no row that
\* it would not upsert again.
THEOREM RefusedCanRetry == ServiceSpec => []RefusedCanBeSentAgain
<1>1. ServiceIInv => RefusedCanBeSentAgain
  <2> SUFFICES ASSUME ServiceIInv, NEW r \in Request, answer[r] = "refused"
               PROVE  /\ \A t \in DOMAIN db : \A k \in DOMAIN db[t] : db[t][k].by = r =>
                            \E i \in DOMAIN Statements(r) :
                                LET s == Statements(r)[i] IN
                                s.do = "upsert" /\ s.add = {} /\ s.table = t /\ s.key = k
                      /\ \A e \in events : e.of # r
    BY DEF RefusedCanBeSentAgain
  <2> USE DEF ServiceIInv
  <2>1. /\ AsksFirst(Statements(r)) /\ workload \in DOMAIN Workloads
        /\ step[r] \in DOMAIN Statements(r) /\ DOMAIN db = RowTable
    BY Contract DEF ServiceTypeOK
  <2>2. Statements(r)[step[r]].do = "authorize"
    BY DEF RefusedInv
  <2>3. \A i \in DOMAIN Statements(r) : Ran(r, i) =>
           \/ Statements(r)[i].do \notin Writing \cup {"event"}
           \/ Statements(r)[i].do = "upsert" /\ Statements(r)[i].add = {}
    BY <2>1, <2>2, ShapeOf DEF AsksFirst, Ran
  <2>4. ASSUME NEW t \in DOMAIN db, NEW k \in DOMAIN db[t], db[t][k].by = r
        PROVE  \E i \in DOMAIN Statements(r) :
                   LET s == Statements(r)[i] IN
                   s.do = "upsert" /\ s.add = {} /\ s.table = t /\ s.key = k
    <3>1. PICK i \in DOMAIN Statements(r) :
             /\ Statements(r)[i].do \in Writing \ {"delete"}
             /\ Statements(r)[i].table = t
             /\ k = KeyOf(Statements(r)[i], r)
             /\ Ran(r, i)
      BY <2>1, <2>4 DEF AuthorInv
    <3>2. Statements(r)[i].do = "upsert" /\ Statements(r)[i].add = {}
      BY <2>3, <3>1
    <3> QED BY <3>1, <3>2 DEF KeyOf
  <2>5. \A e \in events : e.of # r
    BY <2>3 DEF AuthorInv
  <2> QED BY <2>4, <2>5
<1> QED BY <1>1, ServiceInductive, PTL

\* An agent that claims a file after another's claim of it was answered is told of
\* that claim, whatever happens between its own look and its insert.
THEOREM LaterClaimsAreWarned == ServiceSpec => []LaterClaimIsWarned
<1>1. ServiceIInv => LaterClaimIsWarned
  <2> SUFFICES ASSUME ServiceIInv, NEW c \in Request, NEW d \in Request,
                      Op(c) = "create_file_claim", Op(d) = "create_file_claim",
                      c \in before[d], answer[d] = "ok", seen[c].path = seen[d].path
               PROVE  \/ \E k \in DOMAIN found[d] : found[d][k].by = c
                      \/ \A k \in DOMAIN db["file_claims"] : db["file_claims"][k].by # c
    BY DEF LaterClaimIsWarned
  <2> USE DEF ServiceIInv
  <2>1. workload \in DOMAIN Workloads
    BY DEF ServiceTypeOK
  <2>2. ~Work.repeat
    BY <2>1, ClaimingStatements, Contract
  <2>3. answer[c] = "ok"
    BY <2>2 DEF BeforeInv
  <2>4. /\ Ran(c, Len(Statements(c)) - 1) /\ Ran(d, Len(Statements(d)) - 1) /\ Ran(d, 2)
    BY <2>1, <2>3, ClaimingStatements DEF Ran
  <2>5. PathOf(c) = PathOf(d)
    BY <2>4 DEF ClaimInv
  <2> QED BY <2>4, <2>5 DEF ClaimInv
<1> QED BY <1>1, ServiceInductive, PTL

\* The client whose write a row still shows was told that row, however its write and
\* read were interleaved with those of others.
THEOREM LastWritesAreTold == ServiceSpec => []LastWriteIsTold
<1>1. ServiceIInv => LastWriteIsTold
  <2> SUFFICES ASSUME ServiceIInv,
                      NEW t \in DOMAIN db \ {"mcp_health"}, NEW k \in DOMAIN db[t],
                      NEW r, r = db[t][k].by, r \in Request, answer[r] = "ok",
                      NEW i \in DOMAIN Statements(r),
                      Statements(r)[i].table = t,
                      Statements(r)[i].do \notin {"add", "log", "ensure"}
               PROVE  /\ seen[r] = db[t][k]
                      /\ Op(r) = "update_task_status" =>
                            \E e \in events : e.type = "task_update" /\ e.row = db[t][k]
    BY DEF LastWriteIsTold
  <2> USE DEF ServiceIInv
  <2>1. /\ workload \in DOMAIN Workloads /\ t \in RowTable
        /\ Tells(Statements(r)) /\ Aside(Statements(r))
    BY Contract DEF ServiceTypeOK
  <2>2. PICK j \in DOMAIN Statements(r) :
           /\ Statements(r)[j].do \in Writing \ {"delete"}
           /\ Statements(r)[j].table = t
           /\ Makes(r, j)
    BY <2>1 DEF AuthorInv
  <2>3. Statements(r)[j].do \notin Untold
    BY <2>1, <2>2 DEF Aside, Untold, Makes
  <2>4. Told(Statements(r)[j])
    BY <2>2, <2>3 DEF Told, Untold, Writing
  <2>5. PICK n \in DOMAIN Statements(r) : Shows(Statements(r), j, n)
    BY <2>1, <2>4 DEF Tells
  <2>6. seen[r] = db[t][k]
    BY <2>2, <2>4, <2>5 DEF ToldInv
  <2> QED BY <2>6 DEF AnnouncedInv
<1> QED BY <1>1, ServiceInductive, PTL

\* However the updates of a score interleave and fail, its counts are those that
\* there were and one for each outcome whose statement ran.
THEOREM CountsAreExact == ServiceSpec => []OutcomesAreCounted
<1>1. ServiceIInv => OutcomesAreCounted
  BY DEF ServiceIInv, CountInv, Recorded, OutcomesAreCounted, Scores
<1> QED BY <1>1, ServiceInductive, PTL
-----------------------------------------------------------------------------
(* What is computed from the rows that were asked for. *)
\* Whatever interleaves with the request, the metrics it is answered with are ones
\* whose percentiles are ranks.
THEOREM AnalyticsRankMetrics == ServiceSpec => []AnalyticsAreRanks
<1>1. ServiceIInv => AnalyticsAreRanks
  <2> SUFFICES ASSUME ServiceIInv, NEW r \in Request, Op(r) = "get_pipeline_analytics",
                      {k \in DOMAIN found[r] : found[r][k].latency_ms # 0} # {}
               PROVE  LET a == PipelineAnalytics(found[r])
                          latency(k) == found[r][k].latency_ms
                          measured == {k \in DOMAIN found[r] : latency(k) # 0}
                          AtMost(x) == Cardinality({k \in measured : latency(k) <= x})
                          Rank(x, pct) ==
                              /\ \E k \in measured : latency(k) = x
                              /\ 100 * AtMost(x) >= pct * Cardinality(measured)
                              /\ \A k \in measured : latency(k) < x =>
                                    100 * AtMost(latency(k)) < pct * Cardinality(measured)
                      IN  Rank(a.p50_latency_ms, 50) /\ Rank(a.p95_latency_ms, 95)
    BY DEF AnalyticsAreRanks
  <2> USE DEF ServiceIInv
  <2> DEFINE rows == found[r]
             a == PipelineAnalytics(rows)
             measured == {k \in DOMAIN rows : rows[k].latency_ms # 0}
             AtMost(x) == Cardinality({k \in measured : rows[k].latency_ms <= x})
             Rank(x, pct) ==
                 /\ \E k \in measured : rows[k].latency_ms = x
                 /\ 100 * AtMost(x) >= pct * Cardinality(measured)
                 /\ \A k \in measured : rows[k].latency_ms < x =>
                       100 * AtMost(rows[k].latency_ms) < pct * Cardinality(measured)
  <2>1. IsFiniteSet(DOMAIN rows) /\ DOMAIN rows \subseteq Int
    BY DEF MetricInv
  <2>2. \A k \in DOMAIN rows : rows[k].latency_ms \in Nat
    <3> TAKE k \in DOMAIN rows
    <3>1. PICK i \in DOMAIN Statements(r) :
             Statements(r)[i].do = "select" /\ Parses(Statements(r)[i].table, rows[k])
      BY DEF FoundInv
    <3>2. Statements(r)[i].table = "step_metrics"
      BY <3>1, Contract DEF Asking, ServiceTypeOK
    <3> QED BY <3>1, <3>2 DEF Parses, row_to_step_metric
  <2>3. /\ a.p50_latency_ms = Percentile(SortedLatencies(rows), 50)
        /\ a.p95_latency_ms = Percentile(SortedLatencies(rows), 95)
    BY DEF PipelineAnalytics
  <2>4. \A pct \in 1 .. 100 : Rank(Percentile(SortedLatencies(rows), pct), pct)
    BY <2>1, <2>2, PercentileIsRank
  <2>5. Rank(a.p50_latency_ms, 50) /\ Rank(a.p95_latency_ms, 95)
    <3> HIDE DEF Rank, a
    <3> QED BY <2>3, <2>4
  <2> QED BY <2>5
<1> QED BY <1>1, ServiceInductive, PTL

\* The scores that a run was given have counts and an age.
LEMMA LearnersReadScores ==
  ASSUME ServiceIInv, NEW r \in Learners
  PROVE  ReadScores(found[r])
<1> USE DEF ServiceIInv
<1> SUFFICES ASSUME NEW k \in DOMAIN found[r]
             PROVE  row_to_capability_score(found[r][k])
  BY DEF ReadScores, row_to_capability_score
<1>1. r \in Request /\ Op(r) = "list_capability_scores"
  BY DEF Learners
<1>2. PICK i \in DOMAIN Statements(r) :
         Statements(r)[i].do = "select" /\ Parses(Statements(r)[i].table, found[r][k])
  BY <1>1 DEF FoundInv
<1>3. Statements(r)[i].table = "capability_scores"
  BY <1>1, <1>2, Contract DEF Asking, ServiceTypeOK
<1> QED BY <1>2, <1>3 DEF Parses

\* Whatever the runs recorded, what a scheduler learns from it moves a score by at
\* most 0.10, for every number of outcomes, capabilities and days.
THEOREM LearningIsBounded == ServiceSpec => []LearnedWithinBand
<1>1. ServiceIInv => LearnedWithinBand
  <2> SUFFICES ASSUME ServiceIInv, NEW r \in Learners, NEW slot \in Slots,
                      NEW i \in DOMAIN slot.preferred
               PROVE  LET p == slot.preferred[i]
                          delta == LearnedDelta(found[r], slot, p.runtime, ModelOf(Models, p.model))
                      IN  -Percent(10) <= delta /\ delta <= Percent(10)
    BY DEF LearnedWithinBand
  <2> DEFINE m == ModelOf(Models, slot.preferred[i].model)
             boost == LearnedBoost(found[r], slot.preferred[i].runtime, m,
                                   slot.required_capabilities)
             delta == LearnedDelta(found[r], slot, slot.preferred[i].runtime, m)
  <2>1. -Percent(10) <= boost /\ boost <= Percent(10)
    BY LearnersReadScores, SlotsAssumption, LearnedBoostWithin DEF WorkflowSlot
  <2>2. -Percent(10) <= 0 /\ 0 <= Percent(10)
    BY SMT DEF Percent, Unit
  <2>3. delta = 0 \/ delta = boost
    BY DEF LearnedDelta
  <2> HIDE DEF boost, delta
  <2> QED BY <2>1, <2>2, <2>3 DEF delta, m
<1> QED BY <1>1, ServiceInductive, PTL

\* The runtime that is assigned first is the one the fallbacks begin with, for every
\* database, every list of models and every slot.
THEOREM ChoicesAgree == ServiceSpec => []ChosenIsFirstCandidate
<1>1. ServiceIInv => ChosenIsFirstCandidate
  <2> SUFFICES ASSUME ServiceIInv, NEW r \in Learners, NEW slot \in Slots,
                      NEW profile \in SchedulerProfile
               PROVE  LET c == Candidates(found[r], Models, slot, profile)
                          a == Assign(found[r], Models, slot, profile)
                      IN  /\ Len(c) = IF slot.preferred = <<>> THEN Len(a)
                                      ELSE Len(slot.preferred)
                          /\ IF a = <<>> THEN c = <<>> ELSE <<c[1]>> = a
    BY DEF ChosenIsFirstCandidate
  <2> DEFINE c == Candidates(found[r], Models, slot, profile)
             a == Assign(found[r], Models, slot, profile)
  <2>1. CASE slot.preferred = <<>>
    <3>1. c = a
      BY <2>1 DEF Candidates
    <3>2. a = <<>> \/ \E x : a = <<x>>
      BY <2>1 DEF Assign
    <3> HIDE DEF c, a
    <3>3. a # <<>> => <<a[1]>> = a
      BY <3>2
    <3> QED BY <2>1, <3>1, <3>3 DEF c, a
  <2>2. CASE slot.preferred # <<>>
    <3>1. Len(c) = Len(slot.preferred) /\ <<c[1]>> = a
      BY <2>2, LearnersReadScores, SlotsAssumption, CandidatesBeginWithAssign
    <3> HIDE DEF c, a
    <3>2. a # <<>>
      BY <3>1
    <3> QED BY <2>2, <3>1, <3>2 DEF c, a
  <2> QED BY <2>1, <2>2
<1> QED BY <1>1, ServiceInductive, PTL
-----------------------------------------------------------------------------
(* One outcome more. *)
\* With another success the share of successes does not fall, nor does it rise with
\* another failure: as products, for both counts.
LEMMA SharesOrdered ==
  ASSUME NEW s \in Nat, NEW f \in Nat
  PROVE  /\ s * ((s + 1) + f) <= (s + 1) * (s + f)
         /\ s * (s + f) <= s * (s + (f + 1))
OBVIOUS

\* What a step of a request makes of a record that there was.
LEMMA RecordServed ==
  ASSUME ServiceTypeOK, NEW r \in Request, Serves(r),
         NEW k \in DOMAIN Scores, Scores'[k] # Scores[k]
  PROVE  LET old == Scores[k]
             new == Scores'[k]
         IN  /\ old.success_count \in Nat /\ old.failure_count \in Nat /\ old.age \in Nat
             /\ new.age = 0
             /\ \/ /\ new.success_count = old.success_count + 1
                   /\ new.failure_count = old.failure_count
                \/ /\ new.success_count = old.success_count
                   /\ new.failure_count = old.failure_count + 1
<1> DEFINE s == Due(r)
           table == "capability_scores"
           old == db[table][k]
           new == db'[table][k]
<1>1. /\ step[r] \in DOMAIN Statements(r) /\ s = Statements(r)[step[r]]
      /\ workload \in DOMAIN Workloads /\ table \in RowTable
  BY DEF ServiceTypeOK, Due, RowTable
<1>2. k \in DOMAIN db[table] /\ k \in DOMAIN db'[table] /\ new # old
  BY <1>1, RowsServed DEF Scores
<1>3. s.do \in Writing /\ s.table = table /\ NewRow(s, r, k)
  BY <1>1, <1>2, RowsServed
<1>4. Op(r) = "update_capability_score"
  BY <1>1, <1>3, Contract
<1>5. step[r] = 2
  BY <1>1, <1>3, <1>4, ScoringStatements
<1>6. /\ s.do = "upsert"
      /\ DOMAIN s.columns = {"success_count", "failure_count", "age"}
      /\ s.columns.success_count \in {0, 1}
      /\ s.columns.failure_count = 1 - s.columns.success_count /\ s.columns.age = 0
      /\ s.add = {"success_count", "failure_count"}
  BY <1>1, <1>4, <1>5, ScoringStatements
<1>7. new = Changed(old, s, r, now)
  BY <1>2, <1>3, <1>6 DEF NewRow
<1>8. /\ {"success_count", "failure_count", "age"} \subseteq DOMAIN old
      /\ old.success_count \in Nat /\ old.failure_count \in Nat /\ old.age \in Nat
  BY <1>1, <1>2 DEF ServiceTypeOK, Columns, Parses, row_to_capability_score
<1>9. DOMAIN Row(s, r, now) = DOMAIN s.columns \cup {"at", "by"} /\ Row(s, r, now).age = 0
  BY <1>6 DEF Row
<1> HIDE DEF s, old, new
<1>10. /\ new.success_count = old.success_count + s.columns.success_count
       /\ new.failure_count = old.failure_count + s.columns.failure_count
       /\ new.age = 0
  BY <1>6, <1>7, <1>8, <1>9 DEF Changed
<1>11. \/ s.columns.success_count = 1 /\ s.columns.failure_count = 0
       \/ s.columns.success_count = 0 /\ s.columns.failure_count = 1
  BY <1>6
<1> QED BY <1>8, <1>10, <1>11 DEF old, new, Scores

\* An outcome of a record that counts and is fresh moves what is learned from it the
\* right way, however many outcomes it has.
THEOREM OutcomesMoveScores == ServiceSpec => OutcomeMovesScoreRightly
<1> DEFINE Moved(k) ==
             LET old == Scores[k]
                 new == Scores'[k]
             IN  Outcomes(old) >= 5 /\ old.age <= 7 /\ new # old =>
                    /\ Outcomes(new) >= 5
                    /\ IF new.success_count > old.success_count
                       THEN Delta(new) >= Delta(old)
                       ELSE Delta(new) <= Delta(old)
<1>1. ASSUME ServiceIInv, StartIInv, [ServiceNext]_serviceVars, NEW k \in DOMAIN Scores
      PROVE  Moved(k)
  <2> USE DEF ServiceIInv
  <2> DEFINE old == Scores[k]
             new == Scores'[k]
  <2> SUFFICES ASSUME Outcomes(old) >= 5, old.age <= 7, new # old
               PROVE  /\ Outcomes(new) >= 5
                      /\ IF new.success_count > old.success_count
                         THEN Delta(new) >= Delta(old)
                         ELSE Delta(new) <= Delta(old)
    OBVIOUS
  <2>1. PICK r \in Request : Serves(r)
    <3>1. Drops \/ (\E r \in Request : Repeats(r)) => UNCHANGED db
      BY DEF Drops, Repeats
    <3> QED BY <1>1, <3>1, ServiceStep DEF Scores
  <2>2. /\ old.success_count \in Nat /\ old.failure_count \in Nat /\ old.age \in Nat
        /\ new.age = 0
        /\ \/ /\ new.success_count = old.success_count + 1
              /\ new.failure_count = old.failure_count
           \/ /\ new.success_count = old.success_count
              /\ new.failure_count = old.failure_count + 1
    BY <1>1, <2>1, RecordServed
  <2> HIDE DEF old, new
  <2>3. Outcomes(new) >= 5 /\ Outcomes(old) # 0 /\ Outcomes(new) # 0
    BY <2>2 DEF Outcomes
  <2>4. CASE /\ new.success_count = old.success_count + 1
             /\ new.failure_count = old.failure_count
    <3>1. old.success_count * Outcomes(new) <= new.success_count * Outcomes(old)
      BY <2>2, <2>4, SharesOrdered DEF Outcomes
    <3>2. Delta(old) <= Delta(new)
      BY <2>2, <2>3, <2>4, <3>1, FreshDeltasOrdered
    <3>3. /\ Delta(old) \in Int /\ Delta(new) \in Int
      BY <2>2, <2>3, <2>4, DeltaWithin
    <3> QED BY <2>2, <2>3, <2>4, <3>2, <3>3
  <2>5. CASE /\ new.success_count = old.success_count
             /\ new.failure_count = old.failure_count + 1
    <3>1. new.success_count * Outcomes(old) <= old.success_count * Outcomes(new)
      BY <2>2, <2>5, SharesOrdered DEF Outcomes
    <3>2. Delta(new) <= Delta(old)
      BY <2>2, <2>3, <2>5, <3>1, FreshDeltasOrdered
    <3> QED BY <2>2, <2>3, <2>5, <3>2
  <2> QED BY <2>2, <2>4, <2>5
<1>2. ServiceIInv /\ StartIInv /\ [ServiceNext]_serviceVars
         => [\A k \in DOMAIN Scores : Moved(k)]_serviceVars
  BY <1>1
<1>3. ServiceSpec => []StartIInv
  BY ServiceStarts, StartInductive
<1> QED BY <1>2, <1>3, ServiceInductive, PTL DEF ServiceSpec, OutcomeMovesScoreRightly
=============================================================================
