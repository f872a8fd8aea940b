----------------------- MODULE PipelineRecordProperties -----------------------
(***************************************************************************)
(* The properties of module PipelineRecord.                                *)
(***************************************************************************)
EXTENDS PipelineRecord

\* What the hub holds of event n, and what it should hold.
HeldOf(n) ==
    {log[i].type : i \in {j \in DOMAIN log : log[j].of = n}}
    \cup {s[1] : s \in {x \in stored : x[2] = n}}

DueOf(n) ==
    LET requests == Requests(sent[n].kind)
    IN  (UNION {{w.what : w \in {requests[i][j] : j \in DOMAIN requests[i]}}
                  : i \in DOMAIN requests}) \ {"slots"}

\* The hub's record is a prefix of what the orchestrator announced: nothing
\* of an event is stored unless everything of the earlier ones is, whatever
\* request fails, is aborted or is executed late.
RecordIsPrefix ==
    \A n \in 1..taken : n < taken => HeldOf(n) = DueOf(n)

\* A pipeline is succeeded at the hub only when its run is, and then the
\* record is complete: every slot event, step, artifact and metric, once.
SucceededIsComplete ==
    status = "succeeded" =>
        /\ main = "done"
        /\ \A n \in DOMAIN sent :
              /\ HeldOf(n) = DueOf(n)
              /\ \A i, j \in DOMAIN log :
                    /\ log[i].of = n /\ log[j].of = n
                    /\ log[i].type = log[j].type
                    => i = j

\* When a pipeline is succeeded, the slots at the hub show the status the
\* orchestrator gave them last.
SucceededSlotsCurrent ==
    status = "succeeded" =>
        \A r \in Slot : rows[RowOf[r]] = slot[r]

\* "green = succeeded, yellow = running, red = failed": when the process has
\* exited, its requests all having been answered, the pipeline is no longer
\* running, and it has the colour of the run.
ExitSettlesStatus ==
    cli = "exited" /\ approved /\ ~fault =>
        status = IF main = "done" THEN "succeeded" ELSE "failed"

\* Nothing is announced before the pipeline is running at the hub with all
\* its slots, and nothing at all without approval.
RunsOnlyWhenStarted ==
    sent # <<>> =>
        /\ approved
        /\ status \notin {"none", "pending", "awaiting_approval"}
        /\ \A r \in Slot : rows[RowOf[r]] # "absent"

\* The process exits, whatever the orchestrator and the hub answer: awaiting
\* event_task cannot wait for an event that nobody sends.
Exits == <>(cli \in {"exited", "crashed"})
-----------------------------------------------------------------------------
\* "A pipeline holds ... all slot lifecycle events": when the process has
\* exited, its requests all having been answered, every slot event the
\* orchestrator announced is in the pipeline's log.
HoldsSlotEvents ==
    cli = "exited" /\ ~fault =>
        \A n \in DOMAIN sent :
            sent[n].kind = "slot" => "slot_lifecycle" \in HeldOf(n)
=============================================================================
