----------------------------- MODULE HubStream -----------------------------
(***************************************************************************)
(* Messages between agents: the handlers that store and announce them, and *)
(* the event stream that each agent follows.                               *)
(*                                                                         *)
(* A handler reads the clock, stores the row, stores an event and sends    *)
(* the message on a broadcast channel, awaiting SQLite in between; several *)
(* handlers run at once, and each may fail or be dropped at every await.   *)
(* A stream subscribes to the channel, reads the rows it must replay, and  *)
(* then yields the replay and the channel.  Which rows it replays is       *)
(* decided by created_at, the clock as the handler read it.                *)
(*                                                                         *)
(* Two kinds of client follow a stream.  Watchers are `agentctl watch`,    *)
(* AgentClient::watch, which never asks for a replay and handles at most   *)
(* one message per chunk of bytes.  The others are clients that use the    *)
(* stream's parameters: `since` the beginning at first, and last_event_id  *)
(* when they come back.                                                    *)
(*                                                                         *)
(* A definition ending in Bug is a mistake the code could have had.        *)
(*                                                                         *)
(* Left out: kinds and bodies, threads, read marks, the events table.  What a client *)
(* has not yet read of what the hub yielded is lost with the connection,   *)
(* as if it had not been yielded.                                          *)
(***************************************************************************)
EXTENDS Integers, Sequences

CONSTANTS
    Agent,       \* agents
    Follower,    \* those with a client, which has at most one stream
    Watchers,    \* those whose client is AgentClient::watch
    Request,     \* one value per request to send something
    Audience,    \* the agents that each request may address
    Single,      \* the requests with a recipient, the only one they may
                 \* address; the others go to those now online
    Capacity,    \* of the broadcast channel
    NoMessage

ASSUME StreamAssumption ==
    /\ Follower \subseteq Agent
    /\ Watchers \subseteq Follower
    /\ Audience \in [Request -> SUBSET Agent]
    /\ Single \subseteq Request
    /\ \A r \in Single : Audience[r] # {}
    /\ Capacity \in Nat \ {0}

VARIABLES
    handler,    \* where the handler of each request is
    left,       \* the agents it has yet to address
    draft,      \* the message it is at
    clock,      \* Utc::now
    messages,   \* the table
    sent,       \* what was sent on the channel since the hub started
    conn,       \* "off", "subscribed" or "live"
    next,       \* where each stream is in sent
    replay,     \* rows each stream has read and not yet yielded
    received,   \* the messages that each client has ever handled
    last,       \* the latest one
    lagged,     \* whether it was ever told that it lagged
    buffer,     \* messages in a watcher's buffer
    chunks,     \* chunks on their way to it: the messages in each
    announced,  \* history: everything ever sent
    overtaken   \* history: what was stored, or sent, after another message
                \* to the same agent that was created no earlier

handlerVars == <<handler, left, draft, clock>>
clientVars  == <<received, last, buffer, chunks>>
historyVars == <<announced, overtaken>>
vars == <<handlerVars, messages, sent, conn, next, replay, clientVars, lagged,
          historyVars>>

Init ==
    /\ handler = [r \in Request |-> "idle"]
    /\ left = [r \in Request |-> {}]
    /\ draft = [r \in Request |-> NoMessage]
    /\ clock = 1
    /\ messages = {}
    /\ sent = <<>>
    /\ conn = [a \in Follower |-> "off"]
    /\ next = [a \in Follower |-> 1]
    /\ replay = [a \in Follower |-> {}]
    /\ received = [a \in Follower |-> {}]
    /\ last = [a \in Follower |-> NoMessage]
    /\ lagged = [a \in Follower |-> FALSE]
    /\ buffer = [a \in Follower |-> <<>>]
    /\ chunks = [a \in Follower |-> <<>>]
    /\ announced = {}
    /\ overtaken = {}
-----------------------------------------------------------------------------
(***************************************************************************)
(* Sending.                                                                *)
(***************************************************************************)

\* The recipient is named in the request, or follows from the message or the
\* thread that it replies to.
Address(r) ==
    /\ handler[r] = "idle"
    /\ r \in Single
    /\ left' = [left EXCEPT ![r] = Audience[r]]
    /\ handler' = [handler EXCEPT ![r] = "stamp"]
    /\ UNCHANGED <<draft, clock, messages, sent, conn, next, replay,
                   clientVars, lagged, historyVars>>

\* The recipients are those agents, or those of a role, that are not offline.
Broadcast(r) ==
    /\ handler[r] = "idle"
    /\ r \notin Single
    /\ \E to \in SUBSET Audience[r] :
          /\ left' = [left EXCEPT ![r] = to]
          /\ handler' = [handler EXCEPT
                            ![r] = IF to = {} THEN "answered" ELSE "stamp"]
    /\ UNCHANGED <<draft, clock, messages, sent, conn, next, replay,
                   clientVars, lagged, historyVars>>

\* insert_message reads the clock, which may not have moved since it was
\* read last, and creates the thread.
Stamp(r) ==
    /\ handler[r] = "stamp"
    /\ handler' = [handler EXCEPT ![r] = "insert"]
    /\ \E a \in left[r] :
          /\ draft' = [draft EXCEPT ![r] = [by |-> r, to |-> a, at |-> clock]]
          /\ left' = [left EXCEPT ![r] = @ \ {a}]
    /\ clock' \in {clock, clock + 1}
    /\ UNCHANGED <<messages, sent, conn, next, replay, clientVars, lagged,
                   historyVars>>

NoteOvertaken(m, before) ==
    overtaken' = IF \E n \in before : n.to = m.to /\ n.at >= m.at
                 THEN overtaken \cup {m} ELSE overtaken

Insert(r) ==
    /\ handler[r] = "insert"
    /\ handler' = [handler EXCEPT ![r] = "announce"]
    /\ messages' = messages \cup {draft[r]}
    /\ NoteOvertaken(draft[r], messages)
    /\ UNCHANGED <<left, draft, clock, sent, conn, next, replay, clientVars,
                   lagged, announced>>

AnnounceBug(r) ==
    LET m == draft[r]
    IN  /\ handler[r] \in {"insert", "announce"}
        /\ handler' = [handler EXCEPT
                          ![r] = IF left[r] = {} THEN "answered" ELSE "stamp"]
        /\ sent' = Append(sent, m)
        /\ announced' = announced \cup {m}
        /\ NoteOvertaken(m, announced)
        /\ draft' = [draft EXCEPT ![r] = NoMessage]
        /\ UNCHANGED <<left, clock, messages, conn, next, replay, clientVars,
                       lagged>>

\* emit_message: the event is stored and the message sent.
Announce(r) ==
    LET m == draft[r]
    IN  /\ handler[r] = "announce"
        /\ handler' = [handler EXCEPT
                          ![r] = IF left[r] = {} THEN "answered" ELSE "stamp"]
        /\ sent' = Append(sent, m)
        /\ announced' = announced \cup {m}
        /\ NoteOvertaken(m, announced)
        /\ draft' = [draft EXCEPT ![r] = NoMessage]
        /\ UNCHANGED <<left, clock, messages, conn, next, replay, clientVars,
                       lagged>>

\* A statement fails, or the requester gives up and the handler is dropped.
Fail(r) ==
    /\ handler[r] \in {"stamp", "insert", "announce"}
    /\ handler' = [handler EXCEPT ![r] = "failed"]
    /\ left' = [left EXCEPT ![r] = {}]
    /\ draft' = [draft EXCEPT ![r] = NoMessage]
    /\ UNCHANGED <<clock, messages, sent, conn, next, replay, clientVars,
                   lagged, historyVars>>
-----------------------------------------------------------------------------
(***************************************************************************)
(* Following.                                                              *)
(***************************************************************************)

\* The channel is subscribed to before the replay is read.
Connect(a) ==
    /\ conn[a] = "off"
    /\ conn' = [conn EXCEPT ![a] = "subscribed"]
    /\ next' = [next EXCEPT ![a] = Len(sent) + 1]
    /\ UNCHANGED <<handlerVars, messages, sent, replay, clientVars, lagged,
                   historyVars>>

\* replay_messages: the rows created after the one with last_event_id.
\* Without a parameter there are none.
RowsToReplay(a) ==
    IF a \in Watchers THEN {}
    ELSE {m \in messages :
             m.to = a /\ (last[a] # NoMessage => m.at > last[a].at)}

ReadReplayBug(a) ==
    /\ conn[a] = "subscribed"
    /\ \/ /\ replay[a] = {}
          /\ replay' = [replay EXCEPT ![a] = RowsToReplay(a)]
          /\ UNCHANGED <<conn, next>>
       \/ /\ conn' = [conn EXCEPT ![a] = "live"]
          /\ next' = [next EXCEPT ![a] = Len(sent) + 1]
          /\ UNCHANGED replay
    /\ UNCHANGED <<handlerVars, messages, sent, clientVars, lagged,
                   historyVars>>

ReadReplay(a) ==
    /\ conn[a] = "subscribed"
    /\ conn' = [conn EXCEPT ![a] = "live"]
    /\ replay' = [replay EXCEPT ![a] = RowsToReplay(a)]
    /\ UNCHANGED <<handlerVars, messages, sent, next, clientVars, lagged,
                   historyVars>>

\* A frame, with a message or none, is a chunk of its own or arrives together
\* with those before it.
Arrives(a, frame) ==
    \/ chunks' = [chunks EXCEPT ![a] = Append(@, frame)]
    \/ /\ chunks[a] # <<>>
       /\ chunks' = [chunks EXCEPT ![a][Len(chunks[a])] = @ \o frame]

Deliver(a, m) ==
    IF a \in Watchers
    THEN /\ Arrives(a, <<m>>)
         /\ UNCHANGED <<received, last, buffer>>
    ELSE /\ received' = [received EXCEPT ![a] = @ \cup {m}]
         /\ last' = [last EXCEPT ![a] = m]
         /\ UNCHANGED <<buffer, chunks>>

YieldReplayBug(a) ==
    /\ conn[a] = "live"
    /\ \E m \in replay[a] :
          /\ replay' = [replay EXCEPT ![a] = @ \ {m}]
          /\ Deliver(a, m)
    /\ UNCHANGED <<handlerVars, messages, sent, conn, next, lagged,
                   historyVars>>

\* The replay comes first, in the order of created_at.
YieldReplay(a) ==
    /\ conn[a] = "live"
    /\ \E m \in replay[a] :
          /\ \A n \in replay[a] : m.at <= n.at
          /\ replay' = [replay EXCEPT ![a] = @ \ {m}]
          /\ Deliver(a, m)
    /\ UNCHANGED <<handlerVars, messages, sent, conn, next, lagged,
                   historyVars>>

\* The channel has something for a stream that has yielded its replay, and
\* it holds only the last Capacity messages.
Receiving(a) == conn[a] = "live" /\ replay[a] = {} /\ next[a] <= Len(sent)

Oldest == Len(sent) - Capacity + 1

Forward(a) ==
    /\ Receiving(a)
    /\ next[a] >= Oldest
    /\ next' = [next EXCEPT ![a] = @ + 1]
    /\ IF sent[next[a]].to = a THEN Deliver(a, sent[next[a]])
       ELSE UNCHANGED clientVars
    /\ UNCHANGED <<handlerVars, messages, sent, conn, replay, lagged,
                   historyVars>>

LagBug(a) ==
    /\ Receiving(a)
    /\ next[a] < Oldest
    /\ next' = [next EXCEPT ![a] = Oldest - 1]
    /\ lagged' = [lagged EXCEPT ![a] = TRUE]
    /\ IF a \in Watchers THEN Arrives(a, <<>>) ELSE UNCHANGED chunks
    /\ UNCHANGED <<handlerVars, messages, sent, conn, replay, received, last,
                   buffer, historyVars>>

\* recv returns Lagged: the stream goes on at the oldest message held.
Lag(a) ==
    /\ Receiving(a)
    /\ next[a] < Oldest
    /\ next' = [next EXCEPT ![a] = Oldest]
    /\ lagged' = [lagged EXCEPT ![a] = TRUE]
    /\ IF a \in Watchers THEN Arrives(a, <<>>) ELSE UNCHANGED chunks
    /\ UNCHANGED <<handlerVars, messages, sent, conn, replay, received, last,
                   buffer, historyVars>>

\* Nothing has been yielded for 15 seconds.
KeepAlive(a) ==
    /\ a \in Watchers
    /\ conn[a] = "live"
    /\ next[a] > Len(sent)
    /\ chunks[a] = <<>>
    /\ chunks' = [chunks EXCEPT ![a] = <<(<<>>)>>]
    /\ UNCHANGED <<handlerVars, messages, sent, conn, next, replay, received,
                   last, buffer, lagged, historyVars>>

\* handle_stream_chunk adds the chunk to the buffer and returns after the
\* first message in it.
ReadChunk(a) ==
    LET all == buffer[a] \o Head(chunks[a])
    IN  /\ a \in Watchers
        /\ chunks[a] # <<>>
        /\ chunks' = [chunks EXCEPT ![a] = Tail(@)]
        /\ IF all = <<>> THEN UNCHANGED <<received, last, buffer>>
           ELSE /\ received' = [received EXCEPT ![a] = @ \cup {Head(all)}]
                /\ last' = [last EXCEPT ![a] = Head(all)]
                /\ buffer' = [buffer EXCEPT ![a] = Tail(all)]
        /\ UNCHANGED <<handlerVars, messages, sent, conn, next, replay, lagged,
                       historyVars>>

\* The connection ends, and with it what the client has not handled.
Disconnect(a) ==
    /\ conn[a] # "off"
    /\ conn' = [conn EXCEPT ![a] = "off"]
    /\ next' = [next EXCEPT ![a] = 1]
    /\ replay' = [replay EXCEPT ![a] = {}]
    /\ buffer' = [buffer EXCEPT ![a] = <<>>]
    /\ chunks' = [chunks EXCEPT ![a] = <<>>]
    /\ UNCHANGED <<handlerVars, messages, sent, received, last, lagged,
                   historyVars>>
-----------------------------------------------------------------------------
InProgress == {r \in Request : handler[r] \in {"stamp", "insert", "announce"}}

DropHandlers ==
    /\ handler' = [r \in Request |-> IF r \in InProgress THEN "failed"
                                    ELSE handler[r]]
    /\ left' = [r \in Request |-> {}]
    /\ draft' = [r \in Request |-> NoMessage]
    /\ sent' = <<>>

RestartBug ==
    /\ sent # <<>> \/ InProgress # {}
    /\ DropHandlers
    /\ UNCHANGED <<clock, messages, conn, next, replay, clientVars, lagged,
                   historyVars>>

\* The hub's process ends and is started again: the rows remain.
Restart ==
    /\ sent # <<>> \/ InProgress # {}
    /\ DropHandlers
    /\ conn' = [a \in Follower |-> "off"]
    /\ next' = [a \in Follower |-> 1]
    /\ replay' = [a \in Follower |-> {}]
    /\ buffer' = [a \in Follower |-> <<>>]
    /\ chunks' = [a \in Follower |-> <<>>]
    /\ UNCHANGED <<clock, messages, received, last, lagged, historyVars>>
-----------------------------------------------------------------------------
Stream(a) == YieldReplay(a) \/ Forward(a) \/ Lag(a)

Next ==
    \/ \E r \in Request :
          \/ Address(r)
          \/ Broadcast(r)
          \/ Stamp(r)
          \/ Insert(r)
          \/ Announce(r)
          \/ Fail(r)
    \/ \E a \in Follower :
          \/ Connect(a)
          \/ ReadReplay(a)
          \/ YieldReplay(a)
          \/ Forward(a)
          \/ Lag(a)
          \/ KeepAlive(a)
          \/ ReadChunk(a)
          \/ Disconnect(a)
    \/ Restart

\* The hub polls its streams, answers, and sends keep-alives; a client reads.
Fairness ==
    \A a \in Follower :
        /\ WF_vars(ReadReplay(a))
        /\ WF_vars(Stream(a))
        /\ WF_vars(KeepAlive(a))
        /\ WF_vars(ReadChunk(a))

Spec == Init /\ [][Next]_vars

FairSpec == Spec /\ Fairness
=============================================================================
