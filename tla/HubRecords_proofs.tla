-------------------------- MODULE HubRecords_proofs --------------------------
(***************************************************************************)
(* What every handler of the hub has in common, whatever its arguments:    *)
(* the theorems about HubService rest on this and on nothing else of the   *)
(* statements that the handlers run.                                       *)
(***************************************************************************)
EXTENDS HubRecords, SequenceTheorems, TLAPS

Writing == {"insert", "add", "log", "ensure", "update", "upsert", "delete"}
OnTable == Writing \cup {"read", "select"}
Does == OnTable \cup {"authorize", "event", "some", "check", "panic"}

\* What a statement writes has the columns of its table and parses, and a row
\* says itself when and by whom it was written.
Fits(s) ==
    s.do \in Writing \ {"delete"} =>
        /\ Columns(s.table) \subseteq DOMAIN s.columns \cup {"at", "by"}
        /\ "at" \notin DOMAIN s.columns /\ "by" \notin DOMAIN s.columns
        /\ Parses(s.table, s.columns)
        /\ s.add \subseteq {"success_count", "failure_count"}
        /\ s.add # {} => s.table = "capability_scores"

\* A handler authorizes first, and its statements are on tables there are.
Shape(ss) ==
    /\ Len(ss) \in Nat \ {0}
    /\ DOMAIN ss = 1 .. Len(ss)
    /\ ss[1].do = "authorize"
    /\ \A i \in DOMAIN ss :
          /\ ss[i].do \in Does
          /\ ss[i].otherwise \in {"answer", "ignore", "missing", "last"}
          /\ ss[i].do \in OnTable <=> ss[i].table \in RowTable
          /\ ss[i].do = "delete" => ss[i].table = "file_claims"
          /\ Fits(ss[i])

\* An error of any statement is the answer.
Plain(ss) == \A i \in DOMAIN ss : ss[i].otherwise = "answer"

\* What is written before a statement that may answer 429 is written anew when the
\* request is sent again.
AsksFirst(ss) ==
    \A i, j \in DOMAIN ss :
        ss[i].do = "authorize" /\ j < i =>
            \/ ss[j].do \notin Writing \cup {"event"}
            \/ ss[j].do = "upsert" /\ ss[j].add = {}

\* A message is inserted right after its thread, and stays in it.
ThreadsFirst(ss) ==
    \A i \in DOMAIN ss :
        ss[i].do \in Writing /\ ss[i].table = "messages" =>
            \/ ss[i].do = "update" /\ "thread_id" \notin DOMAIN ss[i].columns
            \/ /\ ss[i].do = "insert"
               /\ "thread_id" \in DOMAIN ss[i].columns
               /\ i - 1 \in DOMAIN ss
               /\ ss[i - 1].do = "ensure"
               /\ ss[i - 1].table = "threads"
               /\ ss[i - 1].key = ss[i].columns.thread_id
               /\ Plain(ss)

\* The writes whose row is in the answer.
Told(s) == s.do \in {"insert", "update", "upsert"} /\ s.table # "mcp_health"

\* Statement j puts the row that statement i writes into the handler's hands, and
\* the handler does not answer 200 before j.
Shows(ss, i, j) ==
    /\ \/ j = i /\ ss[i].do = "insert"
       \/ j > i /\ ss[j].do = "read"
    /\ \A m \in DOMAIN ss :
          /\ ss[m].otherwise # "missing"
          /\ ss[m].otherwise = "ignore" => m > j
          /\ ss[m].otherwise = "last" => j = Len(ss)

\* A row that is answered is written once and shown, and after it no other one.
Tells(ss) ==
    \A i \in DOMAIN ss : Told(ss[i]) =>
        /\ \A j \in DOMAIN ss : ss[j].do \in Writing /\ ss[j].table = ss[i].table => j = i
        /\ \A j \in DOMAIN ss : j > i =>
              /\ ss[j].do # "insert"
              /\ ss[j].do = "read" => ss[j].table = ss[i].table /\ ss[j].key = ss[i].key
        /\ \E j \in DOMAIN ss : Shows(ss, i, j)

\* The other writes are on tables that the handler neither asks for nor answers,
\* but for a thread, which it reads before it makes sure that there is one.
Untold == {"add", "log", "ensure"}
Aside(ss) ==
    \A i, j \in DOMAIN ss :
        /\ ss[i].do \in Untold
        /\ ss[j].table = ss[i].table
        /\ ss[j].do \notin Untold
        => /\ ss[i].do = "ensure" /\ ss[j].do = "read"
           /\ j < i /\ ss[j].key = ss[i].key
           /\ ss[i].table = "threads"
           /\ Plain(ss)

\* Tables that one handler writes.
Owned(h) ==
    \A i \in DOMAIN h.statements :
        LET s == h.statements[i] IN
        s.do \in Writing =>
            /\ s.table = "capability_scores" => h.op = "update_capability_score"
            /\ s.table = "file_claims" => s.do = "delete" \/ h.op = "create_file_claim"
            /\ s.table = "step_metrics" => s.do = "insert" /\ s.key \in Int

\* The statements of the handlers that a property names.
Claiming(ss) ==
    /\ Plain(ss)
    /\ Len(ss) \in {4, 5}
    /\ ss[2].do = "select" /\ ss[2].table = "file_claims"
    /\ DOMAIN ss[2].columns = {"path"}
    /\ \A i \in DOMAIN ss : ss[i].do # "read" /\ (ss[i].do = "select" => i = 2)
    /\ \A i \in DOMAIN ss : ss[i].do \in Writing <=> i = Len(ss) - 1
    /\ LET s == ss[Len(ss) - 1] IN
       /\ s.do = "insert" /\ s.table = "file_claims"
       /\ "path" \in DOMAIN s.columns /\ s.columns.path = ss[2].columns.path

Scoring(ss) ==
    /\ Plain(ss)
    /\ Len(ss) = 3
    /\ ss[2].do = "upsert" /\ ss[2].table = "capability_scores"
    /\ DOMAIN ss[2].columns = {"success_count", "failure_count", "age"}
    /\ ss[2].columns.success_count \in {0, 1}
    /\ ss[2].columns.failure_count = 1 - ss[2].columns.success_count
    /\ ss[2].columns.age = 0
    /\ ss[2].add = {"success_count", "failure_count"}
    /\ ss[3].do = "read"

Announcing(ss) ==
    /\ Plain(ss)
    /\ Len(ss) = 4
    /\ ss[3].do = "read"
    /\ ss[4].do = "event" /\ ss[4].table = "task_update"

Asking(ss, table) ==
    \A i \in DOMAIN ss : ss[i].do = "select" => ss[i].table = table

Named(h) ==
    /\ h.op = "create_file_claim" => Claiming(h.statements)
    /\ h.op = "update_capability_score" => Scoring(h.statements)
    /\ h.op = "update_task_status" => Announcing(h.statements)
    /\ h.op = "get_pipeline_analytics" => Asking(h.statements, "step_metrics")
    /\ h.op = "list_capability_scores" => Asking(h.statements, "capability_scores")

Conforms(h) ==
    /\ Shape(h.statements)
    /\ ThreadsFirst(h.statements)
    /\ Tells(h.statements)
    /\ Aside(h.statements)
    /\ AsksFirst(h.statements)
    /\ Owned(h)
    /\ Named(h)
-----------------------------------------------------------------------------
\* The fields of a statement.
Is(s, do, t, k, c) ==
    /\ s.do = do /\ s.otherwise = "answer" /\ s.table = t /\ s.key = k
    /\ s.columns = c /\ s.add = {}

\* The fields of the statements that the handlers are built from.
LEMMA Fields ==
  /\ Authorize.do = "authorize" /\ Authorize.otherwise = "answer" /\ Authorize.table \notin RowTable
  /\ Some.do = "some" /\ Some.otherwise = "answer" /\ Some.table \notin RowTable
  /\ Panic.do = "panic" /\ Panic.otherwise = "answer" /\ Panic.table \notin RowTable
  /\ \A type :
        /\ write_event(type).do = "event" /\ write_event(type).otherwise = "answer"
        /\ write_event(type).table = type
  /\ \A t, k :
        /\ Read(t, k).do = "read" /\ Read(t, k).otherwise = "answer"
        /\ Read(t, k).table = t /\ Read(t, k).key = k
  /\ \A t, k :
        /\ Delete(t, k).do = "delete" /\ Delete(t, k).otherwise = "answer"
        /\ Delete(t, k).table = t /\ Delete(t, k).key = k
  /\ \A t, c :
        /\ Select(t, c).do = "select" /\ Select(t, c).otherwise = "answer"
        /\ Select(t, c).table = t /\ Select(t, c).columns = c
  /\ \A t, k, c :
        /\ Is(Insert(t, k, c), "insert", t, k, c)
        /\ Is(Update(t, k, c), "update", t, k, c)
        /\ Is(Upsert(t, k, c), "upsert", t, k, c)
        /\ Is(Add(t, k, c), "add", t, k, c)
        /\ Is(Ensure(t, k, c), "ensure", t, k, c)
  /\ \A p, type :
        LET e == insert_pipeline_event(p, type) IN
        /\ e.do = "log" /\ e.otherwise = "answer" /\ e.table = "pipeline_events"
        /\ e.key = p /\ DOMAIN e.columns = {"pipeline_id", "type"} /\ e.add = {}
  BY DEF Is, RowTable, insert_pipeline_event, Authorize, Some, Panic, write_event, Statement,
         Insert, Update, Upsert, Add, Ensure, Read, Delete, Select

\* Handlers that read or select, and no more.
LEMMA AskingConforms ==
  ASSUME NEW op, NEW agent, NEW s,
         s.do \in {"read", "select"},
         s.otherwise \in {"answer", "missing"},
         s.table \in RowTable,
         op \notin {"create_file_claim", "update_capability_score", "update_task_status"},
         op = "get_pipeline_analytics" => s.table = "step_metrics",
         op = "list_capability_scores" => s.table = "capability_scores"
  PROVE  Conforms(Handler(op, agent, <<Authorize, s>>))
<1> DEFINE h == Handler(op, agent, <<Authorize, s>>)
           ss == h.statements
<1>1. h.op = op /\ ss = <<Authorize, s>>
  BY DEF Handler
<1> HIDE DEF h, ss
<1>2. Shape(ss)
  BY <1>1, Fields DEF Shape, Does, OnTable, Writing, Fits
<1>3. AsksFirst(ss) /\ ThreadsFirst(ss) /\ Tells(ss) /\ Aside(ss)
  BY <1>1, Fields DEF AsksFirst, ThreadsFirst, Tells, Told, Aside, Untold, Writing
<1>4. Owned(h) /\ Named(h)
  BY <1>1, Fields DEF Owned, Named, Asking, Writing, ss
<1> QED BY <1>2, <1>3, <1>4 DEF Conforms, h, ss

\* The statements of get_thread_detail, which reply_to_thread calls.
LEMMA GetThreadDetailConforms ==
  ASSUME NEW thread, NEW agent
  PROVE  Conforms(get_thread_detail(thread, agent))
<1> DEFINE h == get_thread_detail(thread, agent)
           ss == h.statements
<1>1. /\ h.op = "get_thread_detail"
      /\ ss = <<Authorize,
                Read("threads", thread),
                Select("messages", [thread_id |-> thread])>>
  BY DEF get_thread_detail, Handler, get_thread
<1> HIDE DEF h, ss
<1>4. Shape(ss)
  BY <1>1, Fields DEF Is, Shape, Does, OnTable, Writing, RowTable, Fits,
     Columns, Parses
<1>5. AsksFirst(ss) /\ ThreadsFirst(ss)
  BY <1>1, Fields DEF Is, AsksFirst, ThreadsFirst, Writing
<1>6. Tells(ss)
  BY <1>1, Fields DEF Is, Tells, Told, Shows, Writing
<1>7. Aside(ss)
  BY <1>1, Fields DEF Is, Aside, Untold, RowTable
<1>8. Owned(h) /\ Named(h)
  BY <1>1, Fields DEF Is, Owned, Named, Writing, ss
<1> QED BY <1>4, <1>5, <1>6, <1>7, <1>8 DEF Conforms, h, ss

-----------------------------------------------------------------------------
(* The handlers that write, one by one. *)
\* Lists that are put together.
LEMMA Joined ==
  /\ \A a, b, c : <<a>> \o <<b, c>> = <<a, b, c>>
  /\ \A a, b, c, d : <<a>> \o <<b, c, d>> = <<a, b, c, d>>
  /\ \A a, b : <<a, b>> \o <<>> = <<a, b>>
  /\ \A a, b, c : <<a, b>> \o <<c>> = <<a, b, c>>
  /\ \A a, b, c, d : <<a, b>> \o <<c, d>> = <<a, b, c, d>>
  /\ \A a, b, c, d, e : <<a, b>> \o <<c, d, e>> = <<a, b, c, d, e>>
  /\ \A a, b, c, d : <<a, b, c>> \o <<d>> = <<a, b, c, d>>
  /\ \A a, b, c, d, e : <<a, b, c>> \o <<d, e>> = <<a, b, c, d, e>>
  /\ \A a, b, c, d, e : <<a, b, c, d>> \o <<e>> = <<a, b, c, d, e>>
  /\ \A a, b, c, d, e, f : <<a, b, c, d, e>> \o <<f>> = <<a, b, c, d, e, f>>
  /\ \A a, b, c, d, e, f, g, h : <<a, b, c, d, e>> \o <<f, g, h>> = <<a, b, c, d, e, f, g, h>>
  /\ \A a, b, c, d, e, f, g, h, i : <<a, b, c, d, e, f, g, h>> \o <<i>> = <<a, b, c, d, e, f, g, h, i>>
<1>1. ASSUME NEW a, NEW b, NEW c
      PROVE  <<a>> \o <<b, c>> = <<a, b, c>>
  <2> DEFINE S == {a, b, c}
  <2>1. <<a>> \in Seq(S) /\ <<b, c>> \in Seq(S) /\ <<a, b, c>> \in Seq(S)
    OBVIOUS
  <2>2. <<a>> \o <<b, c>> \in Seq(S) /\ Len(<<a>> \o <<b, c>>) = 3
    BY <2>1, ConcatProperties
  <2>3. \A k \in 1 .. 3 : (<<a>> \o <<b, c>>)[k] = <<a, b, c>>[k]
    BY <2>1, <2>2, ConcatProperties
  <2> HIDE DEF S
  <2> QED BY <2>1, <2>2, <2>3, SeqEqual
<1>2. ASSUME NEW a, NEW b, NEW c, NEW d
      PROVE  <<a>> \o <<b, c, d>> = <<a, b, c, d>>
  <2> DEFINE S == {a, b, c, d}
  <2>1. <<a>> \in Seq(S) /\ <<b, c, d>> \in Seq(S) /\ <<a, b, c, d>> \in Seq(S)
    OBVIOUS
  <2>2. <<a>> \o <<b, c, d>> \in Seq(S) /\ Len(<<a>> \o <<b, c, d>>) = 4
    BY <2>1, ConcatProperties
  <2>3. \A k \in 1 .. 4 : (<<a>> \o <<b, c, d>>)[k] = <<a, b, c, d>>[k]
    BY <2>1, <2>2, ConcatProperties
  <2> HIDE DEF S
  <2> QED BY <2>1, <2>2, <2>3, SeqEqual
<1>3. ASSUME NEW a, NEW b
      PROVE  <<a, b>> \o <<>> = <<a, b>>
  <2> DEFINE S == {a, b}
  <2>1. <<a, b>> \in Seq(S) /\ <<>> \in Seq(S) /\ <<a, b>> \in Seq(S)
    OBVIOUS
  <2>2. <<a, b>> \o <<>> \in Seq(S) /\ Len(<<a, b>> \o <<>>) = 2
    BY <2>1, ConcatProperties
  <2>3. \A k \in 1 .. 2 : (<<a, b>> \o <<>>)[k] = <<a, b>>[k]
    BY <2>1, <2>2, ConcatProperties
  <2> HIDE DEF S
  <2> QED BY <2>1, <2>2, <2>3, SeqEqual
<1>4. ASSUME NEW a, NEW b, NEW c
      PROVE  <<a, b>> \o <<c>> = <<a, b, c>>
  <2> DEFINE S == {a, b, c}
  <2>1. <<a, b>> \in Seq(S) /\ <<c>> \in Seq(S) /\ <<a, b, c>> \in Seq(S)
    OBVIOUS
  <2>2. <<a, b>> \o <<c>> \in Seq(S) /\ Len(<<a, b>> \o <<c>>) = 3
    BY <2>1, ConcatProperties
  <2>3. \A k \in 1 .. 3 : (<<a, b>> \o <<c>>)[k] = <<a, b, c>>[k]
    BY <2>1, <2>2, ConcatProperties
  <2> HIDE DEF S
  <2> QED BY <2>1, <2>2, <2>3, SeqEqual
<1>5. ASSUME NEW a, NEW b, NEW c, NEW d
      PROVE  <<a, b>> \o <<c, d>> = <<a, b, c, d>>
  <2> DEFINE S == {a, b, c, d}
  <2>1. <<a, b>> \in Seq(S) /\ <<c, d>> \in Seq(S) /\ <<a, b, c, d>> \in Seq(S)
    OBVIOUS
  <2>2. <<a, b>> \o <<c, d>> \in Seq(S) /\ Len(<<a, b>> \o <<c, d>>) = 4
    BY <2>1, ConcatProperties
  <2>3. \A k \in 1 .. 4 : (<<a, b>> \o <<c, d>>)[k] = <<a, b, c, d>>[k]
    BY <2>1, <2>2, ConcatProperties
  <2> HIDE DEF S
  <2> QED BY <2>1, <2>2, <2>3, SeqEqual
<1>6. ASSUME NEW a, NEW b, NEW c, NEW d, NEW e
      PROVE  <<a, b>> \o <<c, d, e>> = <<a, b, c, d, e>>
  <2> DEFINE S == {a, b, c, d, e}
  <2>1. <<a, b>> \in Seq(S) /\ <<c, d, e>> \in Seq(S) /\ <<a, b, c, d, e>> \in Seq(S)
    OBVIOUS
  <2>2. <<a, b>> \o <<c, d, e>> \in Seq(S) /\ Len(<<a, b>> \o <<c, d, e>>) = 5
    BY <2>1, ConcatProperties
  <2>3. \A k \in 1 .. 5 : (<<a, b>> \o <<c, d, e>>)[k] = <<a, b, c, d, e>>[k]
    BY <2>1, <2>2, ConcatProperties
  <2> HIDE DEF S
  <2> QED BY <2>1, <2>2, <2>3, SeqEqual
<1>7. ASSUME NEW a, NEW b, NEW c, NEW d
      PROVE  <<a, b, c>> \o <<d>> = <<a, b, c, d>>
  <2> DEFINE S == {a, b, c, d}
  <2>1. <<a, b, c>> \in Seq(S) /\ <<d>> \in Seq(S) /\ <<a, b, c, d>> \in Seq(S)
    OBVIOUS
  <2>2. <<a, b, c>> \o <<d>> \in Seq(S) /\ Len(<<a, b, c>> \o <<d>>) = 4
    BY <2>1, ConcatProperties
  <2>3. \A k \in 1 .. 4 : (<<a, b, c>> \o <<d>>)[k] = <<a, b, c, d>>[k]
    BY <2>1, <2>2, ConcatProperties
  <2> HIDE DEF S
  <2> QED BY <2>1, <2>2, <2>3, SeqEqual
<1>8. ASSUME NEW a, NEW b, NEW c, NEW d, NEW e
      PROVE  <<a, b, c>> \o <<d, e>> = <<a, b, c, d, e>>
  <2> DEFINE S == {a, b, c, d, e}
  <2>1. <<a, b, c>> \in Seq(S) /\ <<d, e>> \in Seq(S) /\ <<a, b, c, d, e>> \in Seq(S)
    OBVIOUS
  <2>2. <<a, b, c>> \o <<d, e>> \in Seq(S) /\ Len(<<a, b, c>> \o <<d, e>>) = 5
    BY <2>1, ConcatProperties
  <2>3. \A k \in 1 .. 5 : (<<a, b, c>> \o <<d, e>>)[k] = <<a, b, c, d, e>>[k]
    BY <2>1, <2>2, ConcatProperties
  <2> HIDE DEF S
  <2> QED BY <2>1, <2>2, <2>3, SeqEqual
<1>9. ASSUME NEW a, NEW b, NEW c, NEW d, NEW e
      PROVE  <<a, b, c, d>> \o <<e>> = <<a, b, c, d, e>>
  <2> DEFINE S == {a, b, c, d, e}
  <2>1. <<a, b, c, d>> \in Seq(S) /\ <<e>> \in Seq(S) /\ <<a, b, c, d, e>> \in Seq(S)
    OBVIOUS
  <2>2. <<a, b, c, d>> \o <<e>> \in Seq(S) /\ Len(<<a, b, c, d>> \o <<e>>) = 5
    BY <2>1, ConcatProperties
  <2>3. \A k \in 1 .. 5 : (<<a, b, c, d>> \o <<e>>)[k] = <<a, b, c, d, e>>[k]
    BY <2>1, <2>2, ConcatProperties
  <2> HIDE DEF S
  <2> QED BY <2>1, <2>2, <2>3, SeqEqual
<1>10. ASSUME NEW a, NEW b, NEW c, NEW d, NEW e, NEW f
      PROVE  <<a, b, c, d, e>> \o <<f>> = <<a, b, c, d, e, f>>
  <2> DEFINE S == {a, b, c, d, e, f}
  <2>1. <<a, b, c, d, e>> \in Seq(S) /\ <<f>> \in Seq(S) /\ <<a, b, c, d, e, f>> \in Seq(S)
    OBVIOUS
  <2>2. <<a, b, c, d, e>> \o <<f>> \in Seq(S) /\ Len(<<a, b, c, d, e>> \o <<f>>) = 6
    BY <2>1, ConcatProperties
  <2>3. \A k \in 1 .. 6 : (<<a, b, c, d, e>> \o <<f>>)[k] = <<a, b, c, d, e, f>>[k]
    BY <2>1, <2>2, ConcatProperties
  <2> HIDE DEF S
  <2> QED BY <2>1, <2>2, <2>3, SeqEqual
<1>11. ASSUME NEW a, NEW b, NEW c, NEW d, NEW e, NEW f, NEW g, NEW h
      PROVE  <<a, b, c, d, e>> \o <<f, g, h>> = <<a, b, c, d, e, f, g, h>>
  <2> DEFINE S == {a, b, c, d, e, f, g, h}
  <2>1. <<a, b, c, d, e>> \in Seq(S) /\ <<f, g, h>> \in Seq(S) /\ <<a, b, c, d, e, f, g, h>> \in Seq(S)
    OBVIOUS
  <2>2. <<a, b, c, d, e>> \o <<f, g, h>> \in Seq(S) /\ Len(<<a, b, c, d, e>> \o <<f, g, h>>) = 8
    BY <2>1, ConcatProperties
  <2>3. \A k \in 1 .. 8 : (<<a, b, c, d, e>> \o <<f, g, h>>)[k] = <<a, b, c, d, e, f, g, h>>[k]
    BY <2>1, <2>2, ConcatProperties
  <2> HIDE DEF S
  <2> QED BY <2>1, <2>2, <2>3, SeqEqual
<1>12. ASSUME NEW a, NEW b, NEW c, NEW d, NEW e, NEW f, NEW g, NEW h, NEW i
      PROVE  <<a, b, c, d, e, f, g, h>> \o <<i>> = <<a, b, c, d, e, f, g, h, i>>
  <2> DEFINE S == {a, b, c, d, e, f, g, h, i}
  <2>1. <<a, b, c, d, e, f, g, h>> \in Seq(S) /\ <<i>> \in Seq(S) /\ <<a, b, c, d, e, f, g, h, i>> \in Seq(S)
    OBVIOUS
  <2>2. <<a, b, c, d, e, f, g, h>> \o <<i>> \in Seq(S) /\ Len(<<a, b, c, d, e, f, g, h>> \o <<i>>) = 9
    BY <2>1, ConcatProperties
  <2>3. \A k \in 1 .. 9 : (<<a, b, c, d, e, f, g, h>> \o <<i>>)[k] = <<a, b, c, d, e, f, g, h, i>>[k]
    BY <2>1, <2>2, ConcatProperties
  <2> HIDE DEF S
  <2> QED BY <2>1, <2>2, <2>3, SeqEqual
<1> QED BY <1>1, <1>2, <1>3, <1>4, <1>5, <1>6, <1>7, <1>8, <1>9, <1>10, <1>11, <1>12

\* The statements of heartbeat.
LEMMA HeartbeatConforms ==
  ASSUME NEW agent, NEW status, status \in AgentStatus
  PROVE  Conforms(heartbeat(agent, status))
<1> DEFINE h == heartbeat(agent, status)
           ss == h.statements
<1>1. /\ h.op = "heartbeat"
      /\ ss = <<Authorize,
                Upsert("agents", agent, [status |-> status]),
                write_event("agent_registered"),
                Read("agents", agent)>>
  BY DEF heartbeat, Handler, get_agent_by_id
<1> HIDE DEF h, ss
<1>4. Shape(ss)
  BY <1>1, Fields DEF Is, Shape, Does, OnTable, Writing, RowTable, Fits,
     Columns, Parses, row_to_agent
<1>5. AsksFirst(ss) /\ ThreadsFirst(ss)
  BY <1>1, Fields DEF Is, AsksFirst, ThreadsFirst, Writing
<1>6. Tells(ss)
  BY <1>1, Fields DEF Is, Tells, Told, Shows, Writing
<1>7. Aside(ss)
  BY <1>1, Fields DEF Is, Aside, Untold, RowTable
<1>8. Owned(h) /\ Named(h)
  BY <1>1, Fields DEF Is, Owned, Named, Writing, ss
<1> QED BY <1>4, <1>5, <1>6, <1>7, <1>8 DEF Conforms, h, ss

\* The statements of update_agent_status.
LEMMA UpdateAgentStatusConforms ==
  ASSUME NEW agent, NEW status, status \in AgentStatus
  PROVE  Conforms(update_agent_status(agent, status))
<1> DEFINE h == update_agent_status(agent, status)
           ss == h.statements
<1>1. /\ h.op = "update_agent_status"
      /\ ss = <<Authorize,
                Update("agents", agent, [status |-> status]),
                write_event("agent_status_changed"),
                Read("agents", agent)>>
  BY DEF update_agent_status, Handler, get_agent_by_id
<1> HIDE DEF h, ss
<1>4. Shape(ss)
  BY <1>1, Fields DEF Is, Shape, Does, OnTable, Writing, RowTable, Fits,
     Columns, Parses, row_to_agent
<1>5. AsksFirst(ss) /\ ThreadsFirst(ss)
  BY <1>1, Fields DEF Is, AsksFirst, ThreadsFirst, Writing
<1>6. Tells(ss)
  BY <1>1, Fields DEF Is, Tells, Told, Shows, Writing
<1>7. Aside(ss)
  BY <1>1, Fields DEF Is, Aside, Untold, RowTable
<1>8. Owned(h) /\ Named(h)
  BY <1>1, Fields DEF Is, Owned, Named, Writing, ss
<1> QED BY <1>4, <1>5, <1>6, <1>7, <1>8 DEF Conforms, h, ss

\* The statements of create_task.
LEMMA CreateTaskConforms ==
  ASSUME NEW task, NEW agent, NEW owner
  PROVE  Conforms(create_task(task, agent, owner))
<1> DEFINE h == create_task(task, agent, owner)
           ss == h.statements
<1>1. /\ h.op = "create_task"
      /\ ss = <<Authorize,
                Insert("tasks", task,
                 [owner |-> owner, status |-> "open", created_by |-> agent]),
                write_event("task_created")>>
  BY DEF create_task, Handler, upsert_task
<1> HIDE DEF h, ss
<1>4. Shape(ss)
  BY <1>1, Fields DEF Is, Shape, Does, OnTable, Writing, RowTable, Fits,
     Columns, Parses, row_to_task, TaskStatus
<1>5. AsksFirst(ss) /\ ThreadsFirst(ss)
  BY <1>1, Fields DEF Is, AsksFirst, ThreadsFirst, Writing
<1>6. Tells(ss)
  BY <1>1, Fields DEF Is, Tells, Told, Shows, Writing
<1>7. Aside(ss)
  BY <1>1, Fields DEF Is, Aside, Untold, RowTable
<1>8. Owned(h) /\ Named(h)
  BY <1>1, Fields DEF Is, Owned, Named, Writing, ss
<1> QED BY <1>4, <1>5, <1>6, <1>7, <1>8 DEF Conforms, h, ss

\* The statements of claim_task.
LEMMA ClaimTaskConforms ==
  ASSUME NEW task, NEW agent
  PROVE  Conforms(claim_task(task, agent))
<1> DEFINE h == claim_task(task, agent)
           ss == h.statements
<1>1. /\ h.op = "claim_task"
      /\ ss = <<Authorize,
                Update("tasks", task, [owner |-> agent, status |-> "claimed"]),
                write_event("task_claimed"),
                Read("tasks", task)>>
  BY DEF claim_task, Handler, get_task_by_id
<1> HIDE DEF h, ss
<1>4. Shape(ss)
  BY <1>1, Fields DEF Is, Shape, Does, OnTable, Writing, RowTable, Fits,
     Columns, Parses, row_to_task, TaskStatus
<1>5. AsksFirst(ss) /\ ThreadsFirst(ss)
  BY <1>1, Fields DEF Is, AsksFirst, ThreadsFirst, Writing
<1>6. Tells(ss)
  BY <1>1, Fields DEF Is, Tells, Told, Shows, Writing
<1>7. Aside(ss)
  BY <1>1, Fields DEF Is, Aside, Untold, RowTable
<1>8. Owned(h) /\ Named(h)
  BY <1>1, Fields DEF Is, Owned, Named, Writing, ss
<1> QED BY <1>4, <1>5, <1>6, <1>7, <1>8 DEF Conforms, h, ss

\* The statements of update_task_status.
LEMMA UpdateTaskStatusConforms ==
  ASSUME NEW task, NEW agent, NEW status, status \in TaskStatus
  PROVE  Conforms(update_task_status(task, agent, status))
<1> DEFINE h == update_task_status(task, agent, status)
           ss == h.statements
<1>1. /\ h.op = "update_task_status"
      /\ ss = <<Authorize,
                Update("tasks", task, [status |-> status]),
                Read("tasks", task),
                write_event("task_update")>>
  BY DEF update_task_status, Handler, set_task_status, get_task_by_id
<1> HIDE DEF h, ss
<1>4. Shape(ss)
  BY <1>1, Fields DEF Is, Shape, Does, OnTable, Writing, RowTable, Fits,
     Columns, Parses, row_to_task
<1>5. AsksFirst(ss) /\ ThreadsFirst(ss)
  BY <1>1, Fields DEF Is, AsksFirst, ThreadsFirst, Writing
<1>6. Tells(ss)
  BY <1>1, Fields DEF Is, Tells, Told, Shows, Writing
<1>7. Aside(ss)
  BY <1>1, Fields DEF Is, Aside, Untold, RowTable
<1>8. Owned(h) /\ Named(h)
  BY <1>1, Fields DEF Is, Owned, Named, Writing, Announcing, Plain, ss
<1> QED BY <1>4, <1>5, <1>6, <1>7, <1>8 DEF Conforms, h, ss

\* The statements of done_task.
LEMMA DoneTaskConforms ==
  ASSUME NEW task, NEW agent
  PROVE  Conforms(done_task(task, agent))
<1> DEFINE h == done_task(task, agent)
           ss == h.statements
<1>1. /\ h.op = "done_task"
      /\ ss = <<Authorize,
                Update("tasks", task, [status |-> "done"]),
                Read("tasks", task)>>
  BY DEF done_task, Handler, set_task_status, get_task_by_id
<1> HIDE DEF h, ss
<1>4. Shape(ss)
  BY <1>1, Fields DEF Is, Shape, Does, OnTable, Writing, RowTable, Fits,
     Columns, Parses, row_to_task, TaskStatus
<1>5. AsksFirst(ss) /\ ThreadsFirst(ss)
  BY <1>1, Fields DEF Is, AsksFirst, ThreadsFirst, Writing
<1>6. Tells(ss)
  BY <1>1, Fields DEF Is, Tells, Told, Shows, Writing
<1>7. Aside(ss)
  BY <1>1, Fields DEF Is, Aside, Untold, RowTable
<1>8. Owned(h) /\ Named(h)
  BY <1>1, Fields DEF Is, Owned, Named, Writing, ss
<1> QED BY <1>4, <1>5, <1>6, <1>7, <1>8 DEF Conforms, h, ss

\* The statements of create_file_claim.
LEMMA CreateFileClaimConforms ==
  ASSUME NEW claim, NEW path, NEW agent, NEW ttl
  PROVE  Conforms(create_file_claim(claim, path, agent, ttl))
<1> DEFINE h == create_file_claim(claim, path, agent, ttl)
           ss == h.statements
<1>0. h.op = "create_file_claim"
  BY DEF create_file_claim, Handler
<1>1. CASE ttl # "beyond"
  <2>1. ss = <<Authorize,
                Select("file_claims", [path |-> path]),
                Insert("file_claims", claim,
                 [path |-> path, claimed_by |-> agent, ttl |-> ttl]),
                write_event("file_claimed")>>
    <3> DEFINE look == Select("file_claims", [path |-> path])
               in == Insert("file_claims", claim,
                            [path |-> path, claimed_by |-> agent, ttl |-> ttl])
               ev == write_event("file_claimed")
    <3>1. ss = (<<Authorize, look>> \o <<>>) \o <<in, ev>>
      BY <1>1 DEF create_file_claim, active_file_claims_for_path, Handler
    <3> HIDE DEF look, in, ev
    <3>2. <<Authorize, look>> \o <<>> = <<Authorize, look>>
      BY Joined
    <3>3. <<Authorize, look>> \o <<in, ev>> = <<Authorize, look, in, ev>>
      BY Joined
    <3>4. ss = <<Authorize, look, in, ev>>
      BY <3>1, <3>2, <3>3
    <3> QED BY <3>4 DEF look, in, ev
  <2> HIDE DEF h, ss
  <2>2. Shape(ss)
    BY <2>1, Fields DEF Is, Shape, Does, OnTable, Writing, RowTable, Fits, Columns, Parses
  <2>3. AsksFirst(ss) /\ ThreadsFirst(ss)
    BY <2>1, Fields DEF Is, AsksFirst, ThreadsFirst, Writing
  <2>4. Tells(ss)
    BY <2>1, Fields DEF Is, Tells, Told, Shows, Writing
  <2>5. Aside(ss)
    BY <2>1, Fields DEF Is, Aside, Untold, RowTable
  <2>6. Claiming(ss)
    BY <2>1, Fields DEF Is, Claiming, Plain, Writing
  <2>7. Owned(h) /\ Named(h)
    BY <1>0, <2>1, <2>6, Fields DEF Is, Owned, Named, Writing, ss
  <2> QED BY <2>2, <2>3, <2>4, <2>5, <2>7 DEF Conforms, h, ss
<1>2. CASE ttl = "beyond"
  <2>1. ss = <<Authorize,
                Select("file_claims", [path |-> path]),
                Panic,
                Insert("file_claims", claim,
                 [path |-> path, claimed_by |-> agent, ttl |-> ttl]),
                write_event("file_claimed")>>
    <3> DEFINE look == Select("file_claims", [path |-> path])
               in == Insert("file_claims", claim,
                            [path |-> path, claimed_by |-> agent, ttl |-> ttl])
               ev == write_event("file_claimed")
    <3>1. ss = (<<Authorize, look>> \o <<Panic>>) \o <<in, ev>>
      BY <1>2 DEF create_file_claim, active_file_claims_for_path, Handler
    <3> HIDE DEF look, in, ev
    <3>2. <<Authorize, look>> \o <<Panic>> = <<Authorize, look, Panic>>
      BY Joined
    <3>3. <<Authorize, look, Panic>> \o <<in, ev>> = <<Authorize, look, Panic, in, ev>>
      BY Joined
    <3>4. ss = <<Authorize, look, Panic, in, ev>>
      BY <3>1, <3>2, <3>3
    <3> QED BY <3>4 DEF look, in, ev
  <2> HIDE DEF h, ss
  <2>2. Shape(ss)
    BY <2>1, Fields DEF Is, Shape, Does, OnTable, Writing, RowTable, Fits, Columns, Parses
  <2>3. AsksFirst(ss) /\ ThreadsFirst(ss)
    BY <2>1, Fields DEF Is, AsksFirst, ThreadsFirst, Writing
  <2>4. Tells(ss)
    BY <2>1, Fields DEF Is, Tells, Told, Shows, Writing
  <2>5. Aside(ss)
    BY <2>1, Fields DEF Is, Aside, Untold, RowTable
  <2>6. Claiming(ss)
    BY <2>1, Fields DEF Is, Claiming, Plain, Writing
  <2>7. Owned(h) /\ Named(h)
    BY <1>0, <2>1, <2>6, Fields DEF Is, Owned, Named, Writing, ss
  <2> QED BY <2>2, <2>3, <2>4, <2>5, <2>7 DEF Conforms, h, ss
<1> QED BY <1>1, <1>2

\* The statements of delete_file_claim.
LEMMA DeleteFileClaimConforms ==
  ASSUME NEW claim, NEW agent
  PROVE  Conforms(delete_file_claim(claim, agent))
<1> DEFINE h == delete_file_claim(claim, agent)
           ss == h.statements
<1>1. /\ h.op = "delete_file_claim"
      /\ ss = <<Authorize,
                Delete("file_claims", claim)>>
  BY DEF delete_file_claim, Handler
<1> HIDE DEF h, ss
<1>4. Shape(ss)
  BY <1>1, Fields DEF Is, Shape, Does, OnTable, Writing, RowTable, Fits,
     Columns, Parses
<1>5. AsksFirst(ss) /\ ThreadsFirst(ss)
  BY <1>1, Fields DEF Is, AsksFirst, ThreadsFirst, Writing
<1>6. Tells(ss)
  BY <1>1, Fields DEF Is, Tells, Told, Shows, Writing
<1>7. Aside(ss)
  BY <1>1, Fields DEF Is, Aside, Untold, RowTable
<1>8. Owned(h) /\ Named(h)
  BY <1>1, Fields DEF Is, Owned, Named, Writing, ss
<1> QED BY <1>4, <1>5, <1>6, <1>7, <1>8 DEF Conforms, h, ss

\* The statements of create_finding.
LEMMA CreateFindingConforms ==
  ASSUME NEW finding, NEW agent, NEW kind, kind \in FindingKind
  PROVE  Conforms(create_finding(finding, agent, kind))
<1> DEFINE h == create_finding(finding, agent, kind)
           ss == h.statements
<1>1. /\ h.op = "create_finding"
      /\ ss = <<Authorize,
                Insert("findings", finding, [agent_id |-> agent, kind |-> kind]),
                write_event("finding_published")>>
  BY DEF create_finding, Handler
<1> HIDE DEF h, ss
<1>4. Shape(ss)
  BY <1>1, Fields DEF Is, Shape, Does, OnTable, Writing, RowTable, Fits,
     Columns, Parses, row_to_finding
<1>5. AsksFirst(ss) /\ ThreadsFirst(ss)
  BY <1>1, Fields DEF Is, AsksFirst, ThreadsFirst, Writing
<1>6. Tells(ss)
  BY <1>1, Fields DEF Is, Tells, Told, Shows, Writing
<1>7. Aside(ss)
  BY <1>1, Fields DEF Is, Aside, Untold, RowTable
<1>8. Owned(h) /\ Named(h)
  BY <1>1, Fields DEF Is, Owned, Named, Writing, ss
<1> QED BY <1>4, <1>5, <1>6, <1>7, <1>8 DEF Conforms, h, ss

\* The statements of mark_read.
LEMMA MarkReadConforms ==
  ASSUME NEW message, NEW agent
  PROVE  Conforms(mark_read(message, agent))
<1> DEFINE h == mark_read(message, agent)
           ss == h.statements
<1>1. /\ h.op = "mark_read"
      /\ ss = <<Authorize,
                Update("messages", message, [status |-> "read"]),
                Read("messages", message)>>
  BY DEF mark_read, Handler, get_message
<1> HIDE DEF h, ss
<1>4. Shape(ss)
  BY <1>1, Fields DEF Is, Shape, Does, OnTable, Writing, RowTable, Fits,
     Columns, Parses, row_to_message, MessageStatus
<1>5. AsksFirst(ss) /\ ThreadsFirst(ss)
  BY <1>1, Fields DEF Is, AsksFirst, ThreadsFirst, Writing
<1>6. Tells(ss)
  BY <1>1, Fields DEF Is, Tells, Told, Shows, Writing
<1>7. Aside(ss)
  BY <1>1, Fields DEF Is, Aside, Untold, RowTable
<1>8. Owned(h) /\ Named(h)
  BY <1>1, Fields DEF Is, Owned, Named, Writing, ss
<1> QED BY <1>4, <1>5, <1>6, <1>7, <1>8 DEF Conforms, h, ss

\* The statements of list_messages.
LEMMA ListMessagesConforms ==
  ASSUME NEW status, NEW agent
  PROVE  Conforms(list_messages(status, agent))
<1> DEFINE h == list_messages(status, agent)
           ss == h.statements
           check == Check(status \in MessageStatus \cup {"any"})
           all == Select("messages", IF status = "any"
                                     THEN [to_agent |-> agent]
                                     ELSE [to_agent |-> agent, status |-> status])
<1>1. h.op = "list_messages" /\ ss = <<Authorize, check, all>>
  BY DEF list_messages, Handler
<1>2. check.do = "check" /\ check.otherwise = "answer" /\ check.table \notin RowTable
  BY DEF check, Check, Statement, RowTable
<1>3. all.do = "select" /\ all.otherwise = "answer" /\ all.table = "messages"
  BY Fields DEF all
<1> HIDE DEF h, ss, check, all
<1>4. Shape(ss)
  BY <1>1, <1>2, <1>3, Fields DEF Shape, Does, OnTable, Writing, RowTable, Fits
<1>5. AsksFirst(ss) /\ ThreadsFirst(ss) /\ Tells(ss) /\ Aside(ss)
  BY <1>1, <1>2, <1>3, Fields DEF AsksFirst, ThreadsFirst, Tells, Told, Aside, Untold, Writing
<1>6. Owned(h) /\ Named(h)
  BY <1>1, <1>2, <1>3, Fields DEF Owned, Named, Writing, ss
<1> QED BY <1>4, <1>5, <1>6 DEF Conforms, h, ss

\* The statements of close_thread.
LEMMA CloseThreadConforms ==
  ASSUME NEW thread, NEW agent
  PROVE  Conforms(close_thread(thread, agent))
<1> DEFINE h == close_thread(thread, agent)
           ss == h.statements
<1>1. /\ h.op = "close_thread"
      /\ ss = <<Authorize,
                Update("threads", thread, [status |-> "closed"]),
                Read("threads", thread)>>
  BY DEF close_thread, Handler, get_thread
<1> HIDE DEF h, ss
<1>4. Shape(ss)
  BY <1>1, Fields DEF Is, Shape, Does, OnTable, Writing, RowTable, Fits,
     Columns, Parses, row_to_thread, ThreadStatus
<1>5. AsksFirst(ss) /\ ThreadsFirst(ss)
  BY <1>1, Fields DEF Is, AsksFirst, ThreadsFirst, Writing
<1>6. Tells(ss)
  BY <1>1, Fields DEF Is, Tells, Told, Shows, Writing
<1>7. Aside(ss)
  BY <1>1, Fields DEF Is, Aside, Untold, RowTable
<1>8. Owned(h) /\ Named(h)
  BY <1>1, Fields DEF Is, Owned, Named, Writing, ss
<1> QED BY <1>4, <1>5, <1>6, <1>7, <1>8 DEF Conforms, h, ss

\* The statements of create_message.
LEMMA CreateMessageConforms ==
  ASSUME NEW message, NEW agent, NEW to, NEW thread, NEW subject
  PROVE  Conforms(create_message(message, agent, to, thread, subject))
<1> DEFINE h == create_message(message, agent, to, thread, subject)
           ss == h.statements
           t == ThreadOf(message, thread)
           ck == Check(subject # "empty")
           en == ensure_thread(t)
           in == new_message(message, t, to)
<1>0. ck.do = "check" /\ ck.otherwise = "answer" /\ ck.table \notin RowTable
  BY DEF ck, Check, Statement, RowTable
<1>1. /\ h.op = "create_message"
      /\ ss = <<Authorize, ck, en, in, write_event("message_sent")>>
  <2> DEFINE ev == write_event("message_sent")
  <2>1. /\ h.op = "create_message"
        /\ ss = (<<Authorize>> \o <<ck, en, in>>) \o <<ev>>
    BY DEF create_message, Handler, insert_message
  <2> HIDE DEF ck, en, in, ev
  <2>2. <<Authorize>> \o <<ck, en, in>>
           = <<Authorize, ck, en, in>>
    BY Joined
  <2>3. <<Authorize, ck, en, in>> \o <<ev>>
           = <<Authorize, ck, en, in, ev>>
    BY Joined
  <2>4. ss = <<Authorize, ck, en, in, ev>>
    BY <2>1, <2>2, <2>3
  <2> QED BY <2>1, <2>4 DEF ev
<1>2. Is(en, "ensure", "threads", t, [status |-> "open"])
  BY Fields DEF en, ensure_thread
<1>3. Is(in, "insert", "messages", message,
         [to_agent |-> to, thread_id |-> t, status |-> "unread"])
  BY Fields DEF in, new_message
<1> HIDE DEF h, ss, ck, en, in, t
<1>4. Shape(ss)
  BY <1>1, Fields, <1>0, <1>2, <1>3 DEF Is, Shape, Does, OnTable, Writing, RowTable, Fits,
     Columns, Parses, row_to_message, MessageStatus, row_to_thread,
     ThreadStatus
<1>5. AsksFirst(ss) /\ ThreadsFirst(ss)
  BY <1>1, Fields, <1>0, <1>2, <1>3 DEF Is, AsksFirst, ThreadsFirst, Writing, Plain
<1>6. Tells(ss)
  BY <1>1, Fields, <1>0, <1>2, <1>3 DEF Is, Tells, Told, Shows, Writing
<1>7. Aside(ss)
  BY <1>1, Fields, <1>0, <1>2, <1>3 DEF Is, Aside, Untold, RowTable, Plain
<1>8. Owned(h) /\ Named(h)
  BY <1>1, Fields, <1>0, <1>2, <1>3 DEF Is, Owned, Named, Writing, ss
<1> QED BY <1>4, <1>5, <1>6, <1>7, <1>8 DEF Conforms, h, ss

\* The statements of reply_to_message.
LEMMA ReplyToMessageConforms ==
  ASSUME NEW message, NEW original, NEW thread, NEW agent, NEW to, NEW subject
  PROVE  Conforms(reply_to_message(message, original, thread, agent, to, subject))
<1> DEFINE h == reply_to_message(message, original, thread, agent, to, subject)
           ss == h.statements
           t == ThreadOf(message, thread)
           ck == Check(subject # "empty")
           en == ensure_thread(t)
           in == new_message(message, t, to)
<1>0. ck.do = "check" /\ ck.otherwise = "answer" /\ ck.table \notin RowTable
  BY DEF ck, Check, Statement, RowTable
<1>1. /\ h.op = "reply_to_message"
      /\ ss = <<Authorize, Read("messages", original), ck, en, in,
                write_event("message_replied")>>
  <2> DEFINE read == Read("messages", original)
             ev == write_event("message_replied")
  <2>1. /\ h.op = "reply_to_message"
        /\ ss = (<<Authorize, read>> \o <<ck, en, in>>) \o <<ev>>
    BY DEF reply_to_message, Handler, insert_message, get_message
  <2> HIDE DEF read, ck, en, in, ev
  <2>2. <<Authorize, read>> \o <<ck, en, in>>
           = <<Authorize, read, ck, en, in>>
    BY Joined
  <2>3. <<Authorize, read, ck, en, in>> \o <<ev>>
           = <<Authorize, read, ck, en, in, ev>>
    BY Joined
  <2>4. ss = <<Authorize, read, ck, en, in, ev>>
    BY <2>1, <2>2, <2>3
  <2> QED BY <2>1, <2>4 DEF read, ev
<1>2. Is(en, "ensure", "threads", t, [status |-> "open"])
  BY Fields DEF en, ensure_thread
<1>3. Is(in, "insert", "messages", message,
         [to_agent |-> to, thread_id |-> t, status |-> "unread"])
  BY Fields DEF in, new_message
<1> HIDE DEF h, ss, ck, en, in, t
<1>4. Shape(ss)
  BY <1>1, Fields, <1>0, <1>2, <1>3 DEF Is, Shape, Does, OnTable, Writing, RowTable, Fits,
     Columns, Parses, row_to_message, MessageStatus, row_to_thread,
     ThreadStatus
<1>5. AsksFirst(ss) /\ ThreadsFirst(ss)
  BY <1>1, Fields, <1>0, <1>2, <1>3 DEF Is, AsksFirst, ThreadsFirst, Writing, Plain
<1>6. Tells(ss)
  BY <1>1, Fields, <1>0, <1>2, <1>3 DEF Is, Tells, Told, Shows, Writing
<1>7. Aside(ss)
  BY <1>1, Fields, <1>0, <1>2, <1>3 DEF Is, Aside, Untold, RowTable, Plain
<1>8. Owned(h) /\ Named(h)
  BY <1>1, Fields, <1>0, <1>2, <1>3 DEF Is, Owned, Named, Writing, ss
<1> QED BY <1>4, <1>5, <1>6, <1>7, <1>8 DEF Conforms, h, ss

\* The statements of reply_to_thread.
LEMMA ReplyToThreadConforms ==
  ASSUME NEW message, NEW thread, NEW agent, NEW to, NEW subject, thread # Nobody
  PROVE  Conforms(reply_to_thread(message, thread, agent, to, subject))
<1> DEFINE h == reply_to_thread(message, thread, agent, to, subject)
           ss == h.statements
           t == ThreadOf(message, thread)
           ck == Check(subject # "empty")
           en == ensure_thread(t)
           in == new_message(message, t, to)
<1>0. ck.do = "check" /\ ck.otherwise = "answer" /\ ck.table \notin RowTable
  BY DEF ck, Check, Statement, RowTable
<1>1. /\ h.op = "reply_to_thread"
      /\ ss = <<Authorize, Authorize, Read("threads", thread),
                Select("messages", [thread_id |-> thread]), Some, ck, en, in,
                write_event("thread_replied")>>
  <2> DEFINE read == Read("threads", thread)
             all == Select("messages", [thread_id |-> thread])
             ev == write_event("thread_replied")
  <2>1. /\ h.op = "reply_to_thread"
        /\ ss = (((<<Authorize>> \o <<Authorize, read, all>>) \o <<Some>>)
                  \o <<ck, en, in>>) \o <<ev>>
    BY DEF reply_to_thread, Handler, insert_message, get_thread_detail, get_thread
  <2> HIDE DEF read, all, ck, en, in, ev
  <2>2. <<Authorize>> \o <<Authorize, read, all>>
           = <<Authorize, Authorize, read, all>>
    BY Joined
  <2>3. <<Authorize, Authorize, read, all>> \o <<Some>>
           = <<Authorize, Authorize, read, all, Some>>
    BY Joined
  <2>4. <<Authorize, Authorize, read, all, Some>> \o <<ck, en, in>>
           = <<Authorize, Authorize, read, all, Some, ck, en, in>>
    BY Joined
  <2>5. <<Authorize, Authorize, read, all, Some, ck, en, in>> \o <<ev>>
           = <<Authorize, Authorize, read, all, Some, ck, en, in, ev>>
    BY Joined
  <2>6. ss = <<Authorize, Authorize, read, all, Some, ck, en, in, ev>>
    BY <2>1, <2>2, <2>3, <2>4, <2>5
  <2> QED BY <2>1, <2>6 DEF read, all, ev
<1>9. t = thread
  BY DEF ThreadOf, t
<1>2. Is(en, "ensure", "threads", t, [status |-> "open"])
  BY Fields DEF en, ensure_thread
<1>3. Is(in, "insert", "messages", message,
         [to_agent |-> to, thread_id |-> t, status |-> "unread"])
  BY Fields DEF in, new_message
<1> HIDE DEF h, ss, ck, en, in, t
<1>4. Shape(ss)
  BY <1>1, Fields, <1>0, <1>2, <1>3, <1>9 DEF Is, Shape, Does, OnTable, Writing, RowTable, Fits,
     Columns, Parses, row_to_message, MessageStatus, row_to_thread,
     ThreadStatus
<1>5. AsksFirst(ss) /\ ThreadsFirst(ss)
  BY <1>1, Fields, <1>0, <1>2, <1>3, <1>9 DEF Is, AsksFirst, ThreadsFirst, Writing, Plain
<1>6. Tells(ss)
  BY <1>1, Fields, <1>0, <1>2, <1>3, <1>9 DEF Is, Tells, Told, Shows, Writing
<1>7. Aside(ss)
  BY <1>1, Fields, <1>0, <1>2, <1>3, <1>9 DEF Is, Aside, Untold, RowTable, Plain
<1>8. Owned(h) /\ Named(h)
  BY <1>1, Fields, <1>0, <1>2, <1>3, <1>9 DEF Is, Owned, Named, Writing, ss
<1> QED BY <1>4, <1>5, <1>6, <1>7, <1>8 DEF Conforms, h, ss

\* The statements of update_capability_score.
LEMMA UpdateCapabilityScoreConforms ==
  ASSUME NEW key, NEW success, NEW agent, success \in BOOLEAN
  PROVE  Conforms(update_capability_score(key, success, agent))
<1> DEFINE h == update_capability_score(key, success, agent)
           ss == h.statements
<1>1. /\ h.op = "update_capability_score"
      /\ ss = <<Authorize,
                [Upsert("capability_scores", key,
                [success_count |-> IF success THEN 1 ELSE 0,
                 failure_count |-> IF success THEN 0 ELSE 1, age |-> 0])
           EXCEPT !.add = {"success_count", "failure_count"}],
                Read("capability_scores", key)>>
  BY DEF update_capability_score, Handler
<1> DEFINE e == ss[2]
<1>2. /\ e.do = "upsert" /\ e.table = "capability_scores" /\ e.otherwise = "answer"
      /\ e.key = key /\ e.add = {"success_count", "failure_count"}
      /\ DOMAIN e.columns = {"success_count", "failure_count", "age"}
      /\ e.columns.success_count = IF success THEN 1 ELSE 0
      /\ e.columns.failure_count = IF success THEN 0 ELSE 1
      /\ e.columns.age = 0
  BY <1>1 DEF Upsert, Statement
<1>3. ss = <<Authorize, e, Read("capability_scores", key)>>
  BY <1>1
<1> HIDE DEF h, ss, e
<1>4. Shape(ss)
  BY <1>3, Fields, <1>2 DEF Is, Shape, Does, OnTable, Writing, RowTable, Fits,
     Columns, Parses, row_to_capability_score
<1>5. AsksFirst(ss) /\ ThreadsFirst(ss)
  BY <1>3, Fields, <1>2 DEF Is, AsksFirst, ThreadsFirst, Writing
<1>6. Tells(ss)
  BY <1>3, Fields, <1>2 DEF Is, Tells, Told, Shows, Writing
<1>7. Aside(ss)
  BY <1>3, Fields, <1>2 DEF Is, Aside, Untold, RowTable
<1>8. h.op = "update_capability_score"
  BY DEF h, update_capability_score, Handler
<1>9. Scoring(ss)
  BY <1>3, Fields, <1>2 DEF Scoring, Plain
<1>10. Owned(h)
  BY <1>3, <1>8, Fields, <1>2 DEF Owned, Writing, ss
<1>11. Named(h)
  BY <1>8, <1>9 DEF Named, ss
<1> QED BY <1>4, <1>5, <1>6, <1>7, <1>10, <1>11 DEF Conforms, h, ss

\* The statements of create_step_metric.
LEMMA CreateStepMetricConforms ==
  ASSUME NEW metric, NEW pipeline, NEW health, NEW latency, NEW agent, metric
         \in Int, health \in RuntimeHealth, latency \in Nat
  PROVE  Conforms(create_step_metric(metric, pipeline, health, latency, agent))
<1> DEFINE h == create_step_metric(metric, pipeline, health, latency, agent)
           ss == h.statements
<1>1. /\ h.op = "create_step_metric"
      /\ ss = <<Authorize,
                Insert("step_metrics", metric,
                 [pipeline_id |-> pipeline, health |-> health, latency_ms |-> latency])>>
  BY DEF create_step_metric, Handler, insert_step_metric
<1> HIDE DEF h, ss
<1>4. Shape(ss)
  BY <1>1, Fields DEF Is, Shape, Does, OnTable, Writing, RowTable, Fits,
     Columns, Parses, row_to_step_metric
<1>5. AsksFirst(ss) /\ ThreadsFirst(ss)
  BY <1>1, Fields DEF Is, AsksFirst, ThreadsFirst, Writing
<1>6. Tells(ss)
  BY <1>1, Fields DEF Is, Tells, Told, Shows, Writing
<1>7. Aside(ss)
  BY <1>1, Fields DEF Is, Aside, Untold, RowTable
<1>8. Owned(h) /\ Named(h)
  BY <1>1, Fields DEF Is, Owned, Named, Writing, ss
<1> QED BY <1>4, <1>5, <1>6, <1>7, <1>8 DEF Conforms, h, ss

\* The statements of create_pipeline.
LEMMA CreatePipelineConforms ==
  ASSUME NEW pipeline, NEW roles, NEW approve, NEW parses, NEW agent,
         Len(roles) \in Nat, DOMAIN roles = 1 .. Len(roles)
  PROVE  Conforms(create_pipeline(pipeline, roles, approve, parses, agent))
<1> DEFINE h == create_pipeline(pipeline, roles, approve, parses, agent)
           ss == h.statements
           n == Len(roles)
           check == Check(parses)
           insert == Insert("pipelines", pipeline,
                            [status |-> IF approve THEN "pending" ELSE "awaiting_approval"])
           slot(i) == Add("slots", <<pipeline, roles[i]>>,
                          [pipeline_id |-> pipeline, status |-> "assigned"])
           slots == [i \in DOMAIN roles |-> slot(i)]
           log == insert_pipeline_event(pipeline, "pipeline_created")
<1>1. /\ h.op = "create_pipeline"
      /\ ss = (<<Authorize, check, insert>> \o slots) \o <<log>>
  BY DEF create_pipeline, Handler
<1>2. /\ insert.do = "insert" /\ insert.otherwise = "answer" /\ insert.table = "pipelines"
      /\ insert.key = pipeline /\ insert.add = {}
      /\ DOMAIN insert.columns = {"status"} /\ insert.columns.status \in PipelineStatus
  BY Fields DEF Is, PipelineStatus
<1>3. \A i \in DOMAIN roles :
         LET s == slots[i] IN
         /\ s.do = "add" /\ s.otherwise = "answer" /\ s.table = "slots" /\ s.add = {}
         /\ DOMAIN s.columns = {"pipeline_id", "status"} /\ s.columns.status \in SlotStatus
  BY Fields DEF Is, SlotStatus
<1>4. /\ DOMAIN slots = 1 .. n /\ slots \in Seq({slots[i] : i \in 1 .. n})
      /\ Len(slots) = n
  OBVIOUS
<1> HIDE DEF h, ss, check, insert, slots, log
<1>5. LET front == <<Authorize, check, insert>> \o slots IN
      /\ Len(front) = n + 3 /\ DOMAIN front = 1 .. n + 3
      /\ front[1] = Authorize /\ front[2] = check /\ front[3] = insert
      /\ \A i \in 4 .. n + 3 : front[i] = slots[i - 3]
  BY <1>4
<1>6. /\ Len(ss) = n + 4 /\ DOMAIN ss = 1 .. n + 4
      /\ ss[1] = Authorize /\ ss[2] = check /\ ss[3] = insert /\ ss[n + 4] = log
      /\ \A i \in 4 .. n + 3 : ss[i] = slots[i - 3]
  BY <1>1, <1>5
<1>7. \A i \in DOMAIN ss :
         \/ i = 1 /\ ss[i] = Authorize
         \/ i = 2 /\ ss[i] = check
         \/ i = 3 /\ ss[i] = insert
         \/ i = Len(ss) /\ i > 3 /\ ss[i] = log
         \/ /\ i > 3
            /\ ss[i].do = "add" /\ ss[i].otherwise = "answer" /\ ss[i].table = "slots"
            /\ ss[i].add = {} /\ DOMAIN ss[i].columns = {"pipeline_id", "status"}
            /\ ss[i].columns.status \in SlotStatus
  BY <1>3, <1>6
<1>8. /\ log.do = "log" /\ log.otherwise = "answer" /\ log.table = "pipeline_events"
      /\ log.key = pipeline /\ DOMAIN log.columns = {"pipeline_id", "type"} /\ log.add = {}
  BY Fields DEF log
<1>9. Len(ss) \in Nat \ {0} /\ DOMAIN ss = 1 .. Len(ss) /\ 1 \in DOMAIN ss /\ 2 \in DOMAIN ss /\ 3 \in DOMAIN ss
  BY <1>6
<1>0. check.do = "check" /\ check.otherwise = "answer" /\ check.table \notin RowTable
  BY DEF check, Check, Statement, RowTable
<1>10. Shape(ss)
  BY <1>2, <1>6, <1>7, <1>8, <1>9, <1>0, Fields
  DEF Shape, Does, OnTable, Writing, RowTable, Fits, Columns, Parses, row_to_pipeline, row_to_slot
<1>11. AsksFirst(ss) /\ ThreadsFirst(ss)
  BY <1>2, <1>7, <1>8, <1>9, <1>0, Fields DEF AsksFirst, ThreadsFirst, Writing
<1>12. Tells(ss)
  BY <1>2, <1>6, <1>7, <1>8, <1>9, <1>0, Fields DEF Tells, Told, Shows, Writing
<1>13. Aside(ss)
  BY <1>2, <1>7, <1>8, <1>9, <1>0, Fields DEF Aside, Untold, RowTable
<1>14. Owned(h) /\ Named(h)
  BY <1>1, <1>2, <1>7, <1>8, <1>9, <1>0, Fields DEF Owned, Named, Writing, ss
<1> QED BY <1>10, <1>11, <1>12, <1>13, <1>14 DEF Conforms, h, ss

\* The statements of update_pipeline_status.
LEMMA UpdatePipelineStatusConforms ==
  ASSUME NEW pipeline, NEW status, NEW agent, status \in PipelineStatus
  PROVE  Conforms(update_pipeline_status(pipeline, status, agent))
<1> DEFINE h == update_pipeline_status(pipeline, status, agent)
           ss == h.statements
<1>1. /\ h.op = "update_pipeline_status"
      /\ ss = <<Authorize,
                Update("pipelines", pipeline, [status |-> status]),
                insert_pipeline_event(pipeline, "pipeline_status_updated"),
                Read("pipelines", pipeline)>>
  BY DEF update_pipeline_status, Handler, get_pipeline_by_id
<1> HIDE DEF h, ss
<1>4. Shape(ss)
  BY <1>1, Fields DEF Is, Shape, Does, OnTable, Writing, RowTable, Fits,
     Columns, Parses, row_to_pipeline
<1>5. AsksFirst(ss) /\ ThreadsFirst(ss)
  BY <1>1, Fields DEF Is, AsksFirst, ThreadsFirst, Writing
<1>6. Tells(ss)
  BY <1>1, Fields DEF Is, Tells, Told, Shows, Writing
<1>7. Aside(ss)
  BY <1>1, Fields DEF Is, Aside, Untold, RowTable
<1>8. Owned(h) /\ Named(h)
  BY <1>1, Fields DEF Is, Owned, Named, Writing, ss
<1> QED BY <1>4, <1>5, <1>6, <1>7, <1>8 DEF Conforms, h, ss

\* The statements of update_pipeline_slot.
LEMMA UpdatePipelineSlotConforms ==
  ASSUME NEW pipeline, NEW role, NEW status, NEW agent, status \in SlotStatus
  PROVE  Conforms(update_pipeline_slot(pipeline, role, status, agent))
<1> DEFINE h == update_pipeline_slot(pipeline, role, status, agent)
           ss == h.statements
<1>1. /\ h.op = "update_pipeline_slot"
      /\ ss = <<Authorize,
                Update("slots", <<pipeline, role>>, [status |-> status]),
                insert_pipeline_event(pipeline, "slot_status_changed"),
                Read("slots", <<pipeline, role>>)>>
  BY DEF update_pipeline_slot, Handler, get_slot_by_role
<1> HIDE DEF h, ss
<1>4. Shape(ss)
  BY <1>1, Fields DEF Is, Shape, Does, OnTable, Writing, RowTable, Fits,
     Columns, Parses, row_to_slot
<1>5. AsksFirst(ss) /\ ThreadsFirst(ss)
  BY <1>1, Fields DEF Is, AsksFirst, ThreadsFirst, Writing
<1>6. Tells(ss)
  BY <1>1, Fields DEF Is, Tells, Told, Shows, Writing
<1>7. Aside(ss)
  BY <1>1, Fields DEF Is, Aside, Untold, RowTable
<1>8. Owned(h) /\ Named(h)
  BY <1>1, Fields DEF Is, Owned, Named, Writing, ss
<1> QED BY <1>4, <1>5, <1>6, <1>7, <1>8 DEF Conforms, h, ss

\* The statements of create_pipeline_event.
LEMMA CreatePipelineEventConforms ==
  ASSUME NEW key, NEW pipeline, NEW agent
  PROVE  Conforms(create_pipeline_event(key, pipeline, agent))
<1> DEFINE h == create_pipeline_event(key, pipeline, agent)
           ss == h.statements
<1>1. /\ h.op = "create_pipeline_event"
      /\ ss = <<Authorize,
                Insert("pipeline_events", key, OfPipeline(pipeline)),
                Read("pipeline_events", key)>>
  BY DEF create_pipeline_event, Handler, get_pipeline_event_by_id
<1> HIDE DEF h, ss
<1>4. Shape(ss)
  BY <1>1, Fields DEF Is, Shape, Does, OnTable, Writing, RowTable, Fits,
     Columns, Parses, OfPipeline
<1>5. AsksFirst(ss) /\ ThreadsFirst(ss)
  BY <1>1, Fields DEF Is, AsksFirst, ThreadsFirst, Writing
<1>6. Tells(ss)
  BY <1>1, Fields DEF Is, Tells, Told, Shows, Writing
<1>7. Aside(ss)
  BY <1>1, Fields DEF Is, Aside, Untold, RowTable
<1>8. Owned(h) /\ Named(h)
  BY <1>1, Fields DEF Is, Owned, Named, Writing, ss
<1> QED BY <1>4, <1>5, <1>6, <1>7, <1>8 DEF Conforms, h, ss

\* The statements of create_artifact.
LEMMA CreateArtifactConforms ==
  ASSUME NEW key, NEW pipeline, NEW agent
  PROVE  Conforms(create_artifact(key, pipeline, agent))
<1> DEFINE h == create_artifact(key, pipeline, agent)
           ss == h.statements
<1>1. /\ h.op = "create_artifact"
      /\ ss = <<Authorize,
                Insert("artifacts", key, OfPipeline(pipeline)),
                insert_pipeline_event(pipeline, "artifact_created")>>
  BY DEF create_artifact, Handler
<1> HIDE DEF h, ss
<1>4. Shape(ss)
  BY <1>1, Fields DEF Is, Shape, Does, OnTable, Writing, RowTable, Fits,
     Columns, Parses, OfPipeline
<1>5. AsksFirst(ss) /\ ThreadsFirst(ss)
  BY <1>1, Fields DEF Is, AsksFirst, ThreadsFirst, Writing
<1>6. Tells(ss)
  BY <1>1, Fields DEF Is, Tells, Told, Shows, Writing
<1>7. Aside(ss)
  BY <1>1, Fields DEF Is, Aside, Untold, RowTable
<1>8. Owned(h) /\ Named(h)
  BY <1>1, Fields DEF Is, Owned, Named, Writing, ss
<1> QED BY <1>4, <1>5, <1>6, <1>7, <1>8 DEF Conforms, h, ss

\* The statements of create_scheduler_decision.
LEMMA CreateSchedulerDecisionConforms ==
  ASSUME NEW key, NEW pipeline, NEW agent
  PROVE  Conforms(create_scheduler_decision(key, pipeline, agent))
<1> DEFINE h == create_scheduler_decision(key, pipeline, agent)
           ss == h.statements
<1>1. /\ h.op = "create_scheduler_decision"
      /\ ss = <<Authorize,
                Insert("scheduler_decisions", key, OfPipeline(pipeline)),
                Read("scheduler_decisions", key)>>
  BY Joined DEF create_scheduler_decision, Handler, insert_scheduler_decision
<1> HIDE DEF h, ss
<1>4. Shape(ss)
  BY <1>1, Fields DEF Is, Shape, Does, OnTable, Writing, RowTable, Fits,
     Columns, Parses, OfPipeline
<1>5. AsksFirst(ss) /\ ThreadsFirst(ss)
  BY <1>1, Fields DEF Is, AsksFirst, ThreadsFirst, Writing
<1>6. Tells(ss)
  BY <1>1, Fields DEF Is, Tells, Told, Shows, Writing
<1>7. Aside(ss)
  BY <1>1, Fields DEF Is, Aside, Untold, RowTable
<1>8. Owned(h) /\ Named(h)
  BY <1>1, Fields DEF Is, Owned, Named, Writing, ss
<1> QED BY <1>4, <1>5, <1>6, <1>7, <1>8 DEF Conforms, h, ss

\* The statements of create_context_compression.
LEMMA CreateContextCompressionConforms ==
  ASSUME NEW key, NEW pipeline, NEW agent
  PROVE  Conforms(create_context_compression(key, pipeline, agent))
<1> DEFINE h == create_context_compression(key, pipeline, agent)
           ss == h.statements
<1>1. /\ h.op = "create_context_compression"
      /\ ss = <<Authorize,
                Insert("context_compressions", key, OfPipeline(pipeline)),
                Read("context_compressions", key)>>
  BY Joined DEF create_context_compression, Handler, insert_context_compression
<1> HIDE DEF h, ss
<1>4. Shape(ss)
  BY <1>1, Fields DEF Is, Shape, Does, OnTable, Writing, RowTable, Fits,
     Columns, Parses, OfPipeline
<1>5. AsksFirst(ss) /\ ThreadsFirst(ss)
  BY <1>1, Fields DEF Is, AsksFirst, ThreadsFirst, Writing
<1>6. Tells(ss)
  BY <1>1, Fields DEF Is, Tells, Told, Shows, Writing
<1>7. Aside(ss)
  BY <1>1, Fields DEF Is, Aside, Untold, RowTable
<1>8. Owned(h) /\ Named(h)
  BY <1>1, Fields DEF Is, Owned, Named, Writing, ss
<1> QED BY <1>4, <1>5, <1>6, <1>7, <1>8 DEF Conforms, h, ss

\* The statements of create_semantic_memory.
LEMMA CreateSemanticMemoryConforms ==
  ASSUME NEW key, NEW pipeline, NEW agent
  PROVE  Conforms(create_semantic_memory(key, pipeline, agent))
<1> DEFINE h == create_semantic_memory(key, pipeline, agent)
           ss == h.statements
<1>1. /\ h.op = "create_semantic_memory"
      /\ ss = <<Authorize,
                Insert("semantic_memory", key, OfPipeline(pipeline)),
                Read("semantic_memory", key)>>
  BY Joined DEF create_semantic_memory, Handler, insert_semantic_memory
<1> HIDE DEF h, ss
<1>4. Shape(ss)
  BY <1>1, Fields DEF Is, Shape, Does, OnTable, Writing, RowTable, Fits,
     Columns, Parses, OfPipeline
<1>5. AsksFirst(ss) /\ ThreadsFirst(ss)
  BY <1>1, Fields DEF Is, AsksFirst, ThreadsFirst, Writing
<1>6. Tells(ss)
  BY <1>1, Fields DEF Is, Tells, Told, Shows, Writing
<1>7. Aside(ss)
  BY <1>1, Fields DEF Is, Aside, Untold, RowTable
<1>8. Owned(h) /\ Named(h)
  BY <1>1, Fields DEF Is, Owned, Named, Writing, ss
<1> QED BY <1>4, <1>5, <1>6, <1>7, <1>8 DEF Conforms, h, ss

\* The statements of upsert_working_context.
LEMMA UpsertWorkingContextConforms ==
  ASSUME NEW key, NEW agent
  PROVE  Conforms(upsert_working_context(key, agent))
<1> DEFINE h == upsert_working_context(key, agent)
           ss == h.statements
<1>1. /\ h.op = "upsert_working_context"
      /\ ss = <<Authorize,
                Upsert("working_context", key, [summary |-> agent]),
                Authorize,
                Read("working_context", key)>>
  BY Joined DEF upsert_working_context, Handler, get_working_context
<1> HIDE DEF h, ss
<1>4. Shape(ss)
  BY <1>1, Fields DEF Is, Shape, Does, OnTable, Writing, RowTable, Fits,
     Columns, Parses
<1>5. AsksFirst(ss) /\ ThreadsFirst(ss)
  BY <1>1, Fields DEF Is, AsksFirst, ThreadsFirst, Writing
<1>6. Tells(ss)
  BY <1>1, Fields DEF Is, Tells, Told, Shows, Writing
<1>7. Aside(ss)
  BY <1>1, Fields DEF Is, Aside, Untold, RowTable
<1>8. Owned(h) /\ Named(h)
  BY <1>1, Fields DEF Is, Owned, Named, Writing, ss
<1> QED BY <1>4, <1>5, <1>6, <1>7, <1>8 DEF Conforms, h, ss

\* The statements of upsert_mcp.
LEMMA UpsertMcpConforms ==
  ASSUME NEW name, NEW mode, NEW agent
  PROVE  Conforms(upsert_mcp(name, mode, agent))
<1> DEFINE h == upsert_mcp(name, mode, agent)
           ss == h.statements
<1>1. /\ h.op = "upsert_mcp"
      /\ ss = <<Authorize,
                Upsert("mcp_servers", name, [mode |-> mode]),
                Read("mcp_servers", name),
                Otherwise(upsert_mcp_health(name, "healthy"), "ignore")>>
  <2> DEFINE up == Upsert("mcp_servers", name, [mode |-> mode])
             read == Read("mcp_servers", name)
             health == Otherwise(upsert_mcp_health(name, "healthy"), "ignore")
  <2>1. /\ h.op = "upsert_mcp"
        /\ ss = (<<Authorize>> \o <<up, read>>) \o <<health>>
    BY DEF upsert_mcp, Handler, upsert_mcp_server
  <2> HIDE DEF up, read, health
  <2>2. <<Authorize>> \o <<up, read>> = <<Authorize, up, read>>
    BY Joined
  <2>3. <<Authorize, up, read>> \o <<health>> = <<Authorize, up, read, health>>
    BY Joined
  <2>4. ss = <<Authorize, up, read, health>>
    BY <2>1, <2>2, <2>3
  <2> QED BY <2>1, <2>4 DEF up, read, health
<1>2. LET e == Otherwise(upsert_mcp_health(name, "healthy"), "ignore") IN
      /\ e.do = "upsert" /\ e.table = "mcp_health" /\ e.otherwise = "ignore"
      /\ e.columns = [status |-> "healthy"] /\ e.add = {}
  BY DEF Otherwise, upsert_mcp_health, Upsert, Statement
<1> HIDE DEF h, ss
<1>4. Shape(ss)
  BY <1>1, Fields, <1>2 DEF Is, Shape, Does, OnTable, Writing, RowTable, Fits,
     Columns, Parses, row_to_mcp_health, RuntimeHealth
<1>5. AsksFirst(ss) /\ ThreadsFirst(ss)
  BY <1>1, Fields, <1>2 DEF Is, AsksFirst, ThreadsFirst, Writing
<1>6. Tells(ss)
  BY <1>1, Fields, <1>2 DEF Is, Tells, Told, Shows, Writing
<1>7. Aside(ss)
  BY <1>1, Fields, <1>2 DEF Is, Aside, Untold, RowTable
<1>8. Owned(h) /\ Named(h)
  BY <1>1, Fields, <1>2 DEF Is, Owned, Named, Writing, ss
<1> QED BY <1>4, <1>5, <1>6, <1>7, <1>8 DEF Conforms, h, ss

\* The statements of interrupt_runtime.
LEMMA InterruptRuntimeConforms ==
  ASSUME NEW agent
  PROVE  Conforms(interrupt_runtime(agent))
<1> DEFINE h == interrupt_runtime(agent)
           ss == h.statements
<1>1. /\ h.op = "interrupt_runtime"
      /\ ss = <<Authorize,
                Otherwise(Update("runtime_handles", agent, [status |-> "interrupted"]), "last"),
                Otherwise(Read("runtime_handles", agent), "last"),
                Read("runtime_handles", agent)>>
  BY DEF interrupt_runtime, Settle, set_runtime_status, get_runtime_handle, Handler
<1>2. LET e == Otherwise(Update("runtime_handles", agent, [status |-> "interrupted"]), "last") IN
      /\ e.do = "update" /\ e.table = "runtime_handles" /\ e.otherwise = "last"
      /\ e.key = agent /\ e.columns = [status |-> "interrupted"] /\ e.add = {}
  BY DEF Otherwise, Update, Statement
<1>3. LET e == Otherwise(Read("runtime_handles", agent), "last") IN
      /\ e.do = "read" /\ e.table = "runtime_handles" /\ e.otherwise = "last"
      /\ e.key = agent
  BY DEF Otherwise, Read, Statement
<1> HIDE DEF h, ss
<1>4. Shape(ss)
  BY <1>1, Fields, <1>2, <1>3 DEF Is, Shape, Does, OnTable, Writing, RowTable,
     Fits, Columns, Parses, row_to_agent_handle, RuntimeLifecycleStatus
<1>5. AsksFirst(ss) /\ ThreadsFirst(ss)
  BY <1>1, Fields, <1>2, <1>3 DEF Is, AsksFirst, ThreadsFirst, Writing
<1>6. Tells(ss)
  BY <1>1, Fields, <1>2, <1>3 DEF Is, Tells, Told, Shows, Writing
<1>7. Aside(ss)
  BY <1>1, Fields, <1>2, <1>3 DEF Is, Aside, Untold, RowTable
<1>8. Owned(h) /\ Named(h)
  BY <1>1, Fields, <1>2, <1>3 DEF Is, Owned, Named, Writing, ss
<1> QED BY <1>4, <1>5, <1>6, <1>7, <1>8 DEF Conforms, h, ss

\* The statements of shutdown_runtime.
LEMMA ShutdownRuntimeConforms ==
  ASSUME NEW agent
  PROVE  Conforms(shutdown_runtime(agent))
<1> DEFINE h == shutdown_runtime(agent)
           ss == h.statements
<1>1. /\ h.op = "shutdown_runtime"
      /\ ss = <<Authorize,
                Otherwise(Update("runtime_handles", agent, [status |-> "shutdown"]), "last"),
                Otherwise(Read("runtime_handles", agent), "last"),
                Read("runtime_handles", agent)>>
  BY DEF shutdown_runtime, Settle, set_runtime_status, get_runtime_handle, Handler
<1>2. LET e == Otherwise(Update("runtime_handles", agent, [status |-> "shutdown"]), "last") IN
      /\ e.do = "update" /\ e.table = "runtime_handles" /\ e.otherwise = "last"
      /\ e.key = agent /\ e.columns = [status |-> "shutdown"] /\ e.add = {}
  BY DEF Otherwise, Update, Statement
<1>3. LET e == Otherwise(Read("runtime_handles", agent), "last") IN
      /\ e.do = "read" /\ e.table = "runtime_handles" /\ e.otherwise = "last"
      /\ e.key = agent
  BY DEF Otherwise, Read, Statement
<1> HIDE DEF h, ss
<1>4. Shape(ss)
  BY <1>1, Fields, <1>2, <1>3 DEF Is, Shape, Does, OnTable, Writing, RowTable,
     Fits, Columns, Parses, row_to_agent_handle, RuntimeLifecycleStatus
<1>5. AsksFirst(ss) /\ ThreadsFirst(ss)
  BY <1>1, Fields, <1>2, <1>3 DEF Is, AsksFirst, ThreadsFirst, Writing
<1>6. Tells(ss)
  BY <1>1, Fields, <1>2, <1>3 DEF Is, Tells, Told, Shows, Writing
<1>7. Aside(ss)
  BY <1>1, Fields, <1>2, <1>3 DEF Is, Aside, Untold, RowTable
<1>8. Owned(h) /\ Named(h)
  BY <1>1, Fields, <1>2, <1>3 DEF Is, Owned, Named, Writing, ss
<1> QED BY <1>4, <1>5, <1>6, <1>7, <1>8 DEF Conforms, h, ss

-----------------------------------------------------------------------------
\* Whatever a request asks for, what it is routed to conforms.
LEMMA RoutedConforms ==
  ASSUME NEW q, Extracted(q)
  PROVE  Conforms(app(q)) /\ app(q).op = q.op
<1> USE DEF Extracted
<1>1. CASE q.op = "heartbeat"
  <2>1. app(q) = heartbeat(q.agent, q.args[1])
    BY <1>1 DEF app
  <2>2. app(q).op = "heartbeat"
    BY <2>1 DEF heartbeat, Handler
  <2> QED BY <1>1, <2>1, <2>2, HeartbeatConforms
<1>2. CASE q.op = "update_agent_status"
  <2>1. app(q) = update_agent_status(q.agent, q.args[1])
    BY <1>2 DEF app
  <2>2. app(q).op = "update_agent_status"
    BY <2>1 DEF update_agent_status, Handler
  <2> QED BY <1>2, <2>1, <2>2, UpdateAgentStatusConforms
<1>3. CASE q.op = "list_agents"
  <2>1. app(q) = list_agents(q.agent)
    BY <1>3 DEF app
  <2>2. app(q).op = "list_agents"
    BY <2>1 DEF list_agents, Handler
  <2> QED BY <1>3, <2>1, <2>2, AskingConforms, Fields DEF list_agents,
         RowTable
<1>4. CASE q.op = "get_agent"
  <2>1. app(q) = get_agent(q.agent)
    BY <1>4 DEF app
  <2>2. app(q).op = "get_agent"
    BY <2>1 DEF get_agent, Handler
  <2> QED BY <1>4, <2>1, <2>2, AskingConforms, Fields DEF get_agent,
         get_agent_by_id, RowTable
<1>5. CASE q.op = "create_task"
  <2>1. app(q) = create_task(q.args[1], q.agent, q.args[2])
    BY <1>5 DEF app
  <2>2. app(q).op = "create_task"
    BY <2>1 DEF create_task, Handler
  <2> QED BY <1>5, <2>1, <2>2, CreateTaskConforms
<1>6. CASE q.op = "claim_task"
  <2>1. app(q) = claim_task(q.args[1], q.agent)
    BY <1>6 DEF app
  <2>2. app(q).op = "claim_task"
    BY <2>1 DEF claim_task, Handler
  <2> QED BY <1>6, <2>1, <2>2, ClaimTaskConforms
<1>7. CASE q.op = "update_task_status"
  <2>1. app(q) = update_task_status(q.args[1], q.agent, q.args[2])
    BY <1>7 DEF app
  <2>2. app(q).op = "update_task_status"
    BY <2>1 DEF update_task_status, Handler
  <2> QED BY <1>7, <2>1, <2>2, UpdateTaskStatusConforms
<1>8. CASE q.op = "done_task"
  <2>1. app(q) = done_task(q.args[1], q.agent)
    BY <1>8 DEF app
  <2>2. app(q).op = "done_task"
    BY <2>1 DEF done_task, Handler
  <2> QED BY <1>8, <2>1, <2>2, DoneTaskConforms
<1>9. CASE q.op = "get_task"
  <2>1. app(q) = get_task(q.args[1], q.agent)
    BY <1>9 DEF app
  <2>2. app(q).op = "get_task"
    BY <2>1 DEF get_task, Handler
  <2> QED BY <1>9, <2>1, <2>2, AskingConforms, Fields DEF get_task,
         get_task_by_id, RowTable
<1>10. CASE q.op = "list_tasks"
  <2>1. app(q) = list_tasks(q.agent)
    BY <1>10 DEF app
  <2>2. app(q).op = "list_tasks"
    BY <2>1 DEF list_tasks, Handler
  <2> QED BY <1>10, <2>1, <2>2, AskingConforms, Fields DEF list_tasks,
         RowTable
<1>11. CASE q.op = "create_file_claim"
  <2>1. app(q) = create_file_claim(q.args[1], q.args[2], q.agent, q.args[3])
    BY <1>11 DEF app
  <2>2. app(q).op = "create_file_claim"
    BY <2>1 DEF create_file_claim, Handler
  <2> QED BY <1>11, <2>1, <2>2, CreateFileClaimConforms
<1>12. CASE q.op = "list_file_claims"
  <2>1. app(q) = list_file_claims(q.args[1], q.agent)
    BY <1>12 DEF app
  <2>2. app(q).op = "list_file_claims"
    BY <2>1 DEF list_file_claims, Handler
  <2> QED BY <1>12, <2>1, <2>2, AskingConforms, Fields DEF list_file_claims,
         RowTable
<1>13. CASE q.op = "delete_file_claim"
  <2>1. app(q) = delete_file_claim(q.args[1], q.agent)
    BY <1>13 DEF app
  <2>2. app(q).op = "delete_file_claim"
    BY <2>1 DEF delete_file_claim, Handler
  <2> QED BY <1>13, <2>1, <2>2, DeleteFileClaimConforms
<1>14. CASE q.op = "create_finding"
  <2>1. app(q) = create_finding(q.args[1], q.agent, q.args[2])
    BY <1>14 DEF app
  <2>2. app(q).op = "create_finding"
    BY <2>1 DEF create_finding, Handler
  <2> QED BY <1>14, <2>1, <2>2, CreateFindingConforms
<1>15. CASE q.op = "list_findings"
  <2>1. app(q) = list_findings(q.agent)
    BY <1>15 DEF app
  <2>2. app(q).op = "list_findings"
    BY <2>1 DEF list_findings, Handler
  <2> QED BY <1>15, <2>1, <2>2, AskingConforms, Fields DEF list_findings,
         query_findings, RowTable
<1>16. CASE q.op = "get_finding"
  <2>1. app(q) = get_finding(q.args[1], q.agent)
    BY <1>16 DEF app
  <2>2. app(q).op = "get_finding"
    BY <2>1 DEF get_finding, Handler
  <2> QED BY <1>16, <2>1, <2>2, AskingConforms, Fields DEF get_finding,
         RowTable
<1>17. CASE q.op = "mark_read"
  <2>1. app(q) = mark_read(q.args[1], q.agent)
    BY <1>17 DEF app
  <2>2. app(q).op = "mark_read"
    BY <2>1 DEF mark_read, Handler
  <2> QED BY <1>17, <2>1, <2>2, MarkReadConforms
<1>18. CASE q.op = "list_messages"
  <2>1. app(q) = list_messages(q.args[1], q.agent)
    BY <1>18 DEF app
  <2>2. app(q).op = "list_messages"
    BY <2>1 DEF list_messages, Handler
  <2> QED BY <1>18, <2>1, <2>2, ListMessagesConforms
<1>19. CASE q.op = "list_threads"
  <2>1. app(q) = list_threads(q.agent)
    BY <1>19 DEF app
  <2>2. app(q).op = "list_threads"
    BY <2>1 DEF list_threads, Handler
  <2> QED BY <1>19, <2>1, <2>2, AskingConforms, Fields DEF list_threads,
         RowTable
<1>20. CASE q.op = "get_thread_detail"
  <2>1. app(q) = get_thread_detail(q.args[1], q.agent)
    BY <1>20 DEF app
  <2>2. app(q).op = "get_thread_detail"
    BY <2>1 DEF get_thread_detail, Handler
  <2> QED BY <1>20, <2>1, <2>2, GetThreadDetailConforms
<1>21. CASE q.op = "close_thread"
  <2>1. app(q) = close_thread(q.args[1], q.agent)
    BY <1>21 DEF app
  <2>2. app(q).op = "close_thread"
    BY <2>1 DEF close_thread, Handler
  <2> QED BY <1>21, <2>1, <2>2, CloseThreadConforms
<1>22. CASE q.op = "create_message"
  <2>1. app(q) = create_message(q.args[1], q.agent, q.args[2], q.args[3], q.args[4])
    BY <1>22 DEF app
  <2>2. app(q).op = "create_message"
    BY <2>1 DEF create_message, Handler
  <2> QED BY <1>22, <2>1, <2>2, CreateMessageConforms
<1>23. CASE q.op = "reply_to_thread"
  <2>1. app(q) = reply_to_thread(q.args[1], q.args[2], q.agent, q.args[3], q.args[4])
    BY <1>23 DEF app
  <2>2. app(q).op = "reply_to_thread"
    BY <2>1 DEF reply_to_thread, Handler
  <2>3. q.args[2] # Nobody
    BY <1>23
  <2> QED BY <1>23, <2>1, <2>2, <2>3, ReplyToThreadConforms
<1>24. CASE q.op = "list_models"
  <2>1. app(q) = list_models(q.agent)
    BY <1>24 DEF app
  <2>2. app(q).op = "list_models"
    BY <2>1 DEF list_models, Handler
  <2> QED BY <1>24, <2>1, <2>2, AskingConforms, Fields DEF list_models,
         RowTable
<1>25. CASE q.op = "list_capability_scores"
  <2>1. app(q) = list_capability_scores(q.agent)
    BY <1>25 DEF app
  <2>2. app(q).op = "list_capability_scores"
    BY <2>1 DEF list_capability_scores, Handler
  <2> QED BY <1>25, <2>1, <2>2, AskingConforms, Fields DEF
         list_capability_scores, RowTable
<1>26. CASE q.op = "update_capability_score"
  <2>1. app(q) = update_capability_score(q.args[1], q.args[2], q.agent)
    BY <1>26 DEF app
  <2>2. app(q).op = "update_capability_score"
    BY <2>1 DEF update_capability_score, Handler
  <2> QED BY <1>26, <2>1, <2>2, UpdateCapabilityScoreConforms
<1>27. CASE q.op = "create_step_metric"
  <2>1. app(q) = create_step_metric(q.args[1], q.args[2], q.args[3], q.args[4], q.agent)
    BY <1>27 DEF app
  <2>2. app(q).op = "create_step_metric"
    BY <2>1 DEF create_step_metric, Handler
  <2> QED BY <1>27, <2>1, <2>2, CreateStepMetricConforms
<1>28. CASE q.op = "get_pipeline_analytics"
  <2>1. app(q) = get_pipeline_analytics(q.args[1], q.agent)
    BY <1>28 DEF app
  <2>2. app(q).op = "get_pipeline_analytics"
    BY <2>1 DEF get_pipeline_analytics, Handler
  <2> QED BY <1>28, <2>1, <2>2, AskingConforms, Fields DEF
         get_pipeline_analytics, pipeline_step_metrics, RowTable
<1>29. CASE q.op = "create_pipeline"
  <2>1. app(q) = create_pipeline(q.args[1], q.args[2], q.args[3], q.args[4], q.agent)
    BY <1>29 DEF app
  <2>2. app(q).op = "create_pipeline"
    BY <2>1 DEF create_pipeline, Handler
  <2> QED BY <1>29, <2>1, <2>2, CreatePipelineConforms
<1>30. CASE q.op = "update_pipeline_status"
  <2>1. app(q) = update_pipeline_status(q.args[1], q.args[2], q.agent)
    BY <1>30 DEF app
  <2>2. app(q).op = "update_pipeline_status"
    BY <2>1 DEF update_pipeline_status, Handler
  <2> QED BY <1>30, <2>1, <2>2, UpdatePipelineStatusConforms
<1>31. CASE q.op = "update_pipeline_slot"
  <2>1. app(q) = update_pipeline_slot(q.args[1], q.args[2], q.args[3], q.agent)
    BY <1>31 DEF app
  <2>2. app(q).op = "update_pipeline_slot"
    BY <2>1 DEF update_pipeline_slot, Handler
  <2> QED BY <1>31, <2>1, <2>2, UpdatePipelineSlotConforms
<1>32. CASE q.op = "create_pipeline_event"
  <2>1. app(q) = create_pipeline_event(q.args[1], q.args[2], q.agent)
    BY <1>32 DEF app
  <2>2. app(q).op = "create_pipeline_event"
    BY <2>1 DEF create_pipeline_event, Handler
  <2> QED BY <1>32, <2>1, <2>2, CreatePipelineEventConforms
<1>33. CASE q.op = "create_artifact"
  <2>1. app(q) = create_artifact(q.args[1], q.args[2], q.agent)
    BY <1>33 DEF app
  <2>2. app(q).op = "create_artifact"
    BY <2>1 DEF create_artifact, Handler
  <2> QED BY <1>33, <2>1, <2>2, CreateArtifactConforms
<1>34. CASE q.op = "list_pipelines"
  <2>1. app(q) = list_pipelines(q.agent)
    BY <1>34 DEF app
  <2>2. app(q).op = "list_pipelines"
    BY <2>1 DEF list_pipelines, Handler
  <2> QED BY <1>34, <2>1, <2>2, AskingConforms, Fields DEF list_pipelines,
         RowTable
<1>35. CASE q.op = "get_pipeline"
  <2>1. app(q) = get_pipeline(q.args[1], q.agent)
    BY <1>35 DEF app
  <2>2. app(q).op = "get_pipeline"
    BY <2>1 DEF get_pipeline, Handler
  <2> QED BY <1>35, <2>1, <2>2, AskingConforms, Fields DEF get_pipeline,
         get_pipeline_by_id, RowTable
<1>36. CASE q.op = "list_pipeline_slots"
  <2>1. app(q) = list_pipeline_slots(q.args[1], q.agent)
    BY <1>36 DEF app
  <2>2. app(q).op = "list_pipeline_slots"
    BY <2>1 DEF list_pipeline_slots, Handler
  <2> QED BY <1>36, <2>1, <2>2, AskingConforms, Fields DEF
         list_pipeline_slots, RowTable
<1>37. CASE q.op = "list_pipeline_events"
  <2>1. app(q) = list_pipeline_events(q.args[1], q.agent)
    BY <1>37 DEF app
  <2>2. app(q).op = "list_pipeline_events"
    BY <2>1 DEF list_pipeline_events, Handler
  <2> QED BY <1>37, <2>1, <2>2, AskingConforms, Fields DEF
         list_pipeline_events, RowTable
<1>38. CASE q.op = "list_pipeline_artifacts"
  <2>1. app(q) = list_pipeline_artifacts(q.args[1], q.agent)
    BY <1>38 DEF app
  <2>2. app(q).op = "list_pipeline_artifacts"
    BY <2>1 DEF list_pipeline_artifacts, Handler
  <2> QED BY <1>38, <2>1, <2>2, AskingConforms, Fields DEF
         list_pipeline_artifacts, RowTable
<1>39. CASE q.op = "create_scheduler_decision"
  <2>1. app(q) = create_scheduler_decision(q.args[1], q.args[2], q.agent)
    BY <1>39 DEF app
  <2>2. app(q).op = "create_scheduler_decision"
    BY <2>1 DEF create_scheduler_decision, Handler
  <2> QED BY <1>39, <2>1, <2>2, CreateSchedulerDecisionConforms
<1>40. CASE q.op = "create_context_compression"
  <2>1. app(q) = create_context_compression(q.args[1], q.args[2], q.agent)
    BY <1>40 DEF app
  <2>2. app(q).op = "create_context_compression"
    BY <2>1 DEF create_context_compression, Handler
  <2> QED BY <1>40, <2>1, <2>2, CreateContextCompressionConforms
<1>41. CASE q.op = "create_semantic_memory"
  <2>1. app(q) = create_semantic_memory(q.args[1], q.args[2], q.agent)
    BY <1>41 DEF app
  <2>2. app(q).op = "create_semantic_memory"
    BY <2>1 DEF create_semantic_memory, Handler
  <2> QED BY <1>41, <2>1, <2>2, CreateSemanticMemoryConforms
<1>42. CASE q.op = "list_scheduler_decisions"
  <2>1. app(q) = list_scheduler_decisions(q.args[1], q.agent)
    BY <1>42 DEF app
  <2>2. app(q).op = "list_scheduler_decisions"
    BY <2>1 DEF list_scheduler_decisions, Handler
  <2> QED BY <1>42, <2>1, <2>2, AskingConforms, Fields DEF
         list_scheduler_decisions, pipeline_scheduler_decisions, RowTable
<1>43. CASE q.op = "list_context_compressions"
  <2>1. app(q) = list_context_compressions(q.args[1], q.agent)
    BY <1>43 DEF app
  <2>2. app(q).op = "list_context_compressions"
    BY <2>1 DEF list_context_compressions, Handler
  <2> QED BY <1>43, <2>1, <2>2, AskingConforms, Fields DEF
         list_context_compressions, pipeline_context_compressions, RowTable
<1>44. CASE q.op = "list_semantic_memory"
  <2>1. app(q) = list_semantic_memory(q.args[1], q.agent)
    BY <1>44 DEF app
  <2>2. app(q).op = "list_semantic_memory"
    BY <2>1 DEF list_semantic_memory, Handler
  <2> QED BY <1>44, <2>1, <2>2, AskingConforms, Fields DEF
         list_semantic_memory, pipeline_semantic_memory, RowTable
<1>45. CASE q.op = "search_semantic_memory"
  <2>1. app(q) = search_semantic_memory(q.args[1], q.agent)
    BY <1>45 DEF app
  <2>2. app(q).op = "search_semantic_memory"
    BY <2>1 DEF search_semantic_memory, Handler
  <2> QED BY <1>45, <2>1, <2>2, AskingConforms, Fields DEF
         search_semantic_memory, pipeline_semantic_memory, RowTable
<1>46. CASE q.op = "get_working_context"
  <2>1. app(q) = get_working_context(q.args[1], q.agent)
    BY <1>46 DEF app
  <2>2. app(q).op = "get_working_context"
    BY <2>1 DEF get_working_context, Handler
  <2> QED BY <1>46, <2>1, <2>2, AskingConforms, Fields DEF
         get_working_context, RowTable
<1>47. CASE q.op = "upsert_working_context"
  <2>1. app(q) = upsert_working_context(q.args[1], q.agent)
    BY <1>47 DEF app
  <2>2. app(q).op = "upsert_working_context"
    BY <2>1 DEF upsert_working_context, Handler
  <2> QED BY <1>47, <2>1, <2>2, UpsertWorkingContextConforms
<1>48. CASE q.op = "upsert_mcp"
  <2>1. app(q) = upsert_mcp(q.args[1], q.args[2], q.agent)
    BY <1>48 DEF app
  <2>2. app(q).op = "upsert_mcp"
    BY <2>1 DEF upsert_mcp, Handler
  <2> QED BY <1>48, <2>1, <2>2, UpsertMcpConforms
<1>49. CASE q.op = "list_mcp"
  <2>1. app(q) = list_mcp(q.agent)
    BY <1>49 DEF app
  <2>2. app(q).op = "list_mcp"
    BY <2>1 DEF list_mcp, Handler
  <2> QED BY <1>49, <2>1, <2>2, AskingConforms, Fields DEF list_mcp,
         list_mcp_servers, RowTable
<1>50. CASE q.op = "get_mcp_health"
  <2>1. app(q) = get_mcp_health(q.args[1], q.agent)
    BY <1>50 DEF app
  <2>2. app(q).op = "get_mcp_health"
    BY <2>1 DEF get_mcp_health, Handler
  <2> QED BY <1>50, <2>1, <2>2, AskingConforms, Fields DEF get_mcp_health,
         mcp_health, Otherwise, Read, Statement, RowTable
<1>51. CASE q.op = "interrupt_runtime"
  <2>1. app(q) = interrupt_runtime(q.agent)
    BY <1>51 DEF app
  <2>2. app(q).op = "interrupt_runtime"
    BY <2>1 DEF interrupt_runtime, Handler, Settle
  <2> QED BY <1>51, <2>1, <2>2, InterruptRuntimeConforms
<1>52. CASE q.op = "shutdown_runtime"
  <2>1. app(q) = shutdown_runtime(q.agent)
    BY <1>52 DEF app
  <2>2. app(q).op = "shutdown_runtime"
    BY <2>1 DEF shutdown_runtime, Handler, Settle
  <2> QED BY <1>52, <2>1, <2>2, ShutdownRuntimeConforms
<1>53. CASE q.op = "search_findings"
  <2>1. app(q) = search_findings(q.agent)
    BY <1>53 DEF app
  <2>2. app(q).op = "search_findings"
    BY <2>1 DEF search_findings, Handler
  <2> QED BY <1>53, <2>1, <2>2, AskingConforms, Fields DEF search_findings,
         query_findings, RowTable
<1>54. CASE q.op = "reply_to_message"
  <2>1. app(q) = reply_to_message(q.args[1], q.args[2], q.args[3], q.agent, q.args[4], q.args[5])
    BY <1>54 DEF app
  <2>2. app(q).op = "reply_to_message"
    BY <2>1 DEF reply_to_message, Handler
  <2> QED BY <1>54, <2>1, <2>2, ReplyToMessageConforms
<1> QED BY <1>1, <1>2, <1>3, <1>4, <1>5, <1>6, <1>7, <1>8, <1>9, <1>10, <1>11, <1>12, <1>13, <1>14, <1>15, <1>16, <1>17, <1>18, <1>19, <1>20, <1>21, <1>22, <1>23, <1>24, <1>25, <1>26, <1>27, <1>28, <1>29, <1>30, <1>31, <1>32, <1>33, <1>34, <1>35, <1>36, <1>37, <1>38, <1>39, <1>40, <1>41, <1>42, <1>43, <1>44, <1>45, <1>46, <1>47, <1>48, <1>49, <1>50, <1>51, <1>52, <1>53, <1>54 DEF Operation

=============================================================================
