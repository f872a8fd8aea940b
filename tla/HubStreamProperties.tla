------------------------ MODULE HubStreamProperties ------------------------
(***************************************************************************)
(* The properties of module HubStream.                                     *)
(***************************************************************************)
EXTENDS HubStream

Message == [by : Request, to : Agent, at : Nat]

\* The values the variables take.
StreamTypeOK ==
    /\ handler \in [Request -> {"idle", "stamp", "insert", "announce",
                                "answered", "failed"}]
    /\ left \in [Request -> SUBSET Agent]
    /\ draft \in [Request -> Message \cup {NoMessage}]
    /\ clock \in Nat
    /\ messages \in SUBSET Message
    /\ sent \in Seq(Message)
    /\ conn \in [Follower -> {"off", "subscribed", "live"}]
    /\ next \in [Follower -> Nat \ {0}]
    /\ \A a \in Follower : conn[a] # "off" => next[a] <= Len(sent) + 1
    /\ replay \in [Follower -> SUBSET Message]
    /\ received \in [Follower -> SUBSET Message]
    /\ last \in [Follower -> Message \cup {NoMessage}]
    /\ lagged \in [Follower -> BOOLEAN]
    /\ buffer \in [Follower -> Seq(Message)]
    /\ chunks \in [Follower -> Seq(Seq(Message))]
    /\ announced \in SUBSET Message
    /\ overtaken \in SUBSET Message

\* The elements of a sequence.
Elements(s) == {s[i] : i \in DOMAIN s}

\* The clients that use the parameters of the stream.
Resuming == Follower \ Watchers
-----------------------------------------------------------------------------
\* The rows of a client's messages.
Rows(a) == {m \in messages : m.to = a}

\* Nothing reaches a client that is not in the table, addressed to it:
\* whatever fails, the last_event_id it comes back with, even to a restarted
\* hub, is the id of a row, without which replay_messages would silently
\* replay nothing.
ReceivedIsStored ==
    \A a \in Follower :
        /\ received[a] \subseteq Rows(a)
        /\ last[a] # NoMessage => last[a] \in received[a]

\* A message that the client has, or need not get.
Settled(a, m) ==
    \/ m \in received[a] \cup overtaken
    \/ \E n \in received[a] : n.at = m.at

\* A stream that has yielded all there is.
Drained(a) == conn[a] = "live" /\ replay[a] = {} /\ next[a] > Len(sent)

\* A client that comes back with last_event_id misses nothing that was sent,
\* on whichever connection, between the subscription and the replay, or across
\* a restart of the hub, unless it was told that it lagged, or the handlers of
\* two messages overtook each other, or the two have the very same created_at.
ResumeMissesOnlyOvertaken ==
    \A a \in Resuming :
        Drained(a) /\ ~lagged[a] =>
            \A m \in announced : m.to = a => Settled(a, m)

\* What waits for a client that is connected.
Waiting(a) ==
    \/ replay[a] # {}
    \/ buffer[a] # <<>>
    \/ \E i \in DOMAIN chunks[a] : chunks[a][i] # <<>>
    \/ \E i \in next[a]..Len(sent) : sent[i].to = a

\* As long as a client stays connected it gets everything that waits for it:
\* the keep-alives see to it that a watcher does not keep messages in its
\* buffer that arrived together with an earlier one.
ClientsCatchUp ==
    \A a \in Follower : []<>(conn[a] = "off" \/ ~Waiting(a))
-----------------------------------------------------------------------------
(***************************************************************************)
(* The inductive invariant of the proofs in HubStream_proofs.              *)
(***************************************************************************)

\* Whatever is sent, to be yielded or buffered is in the table.
StoredInv ==
    /\ \A r \in Request :
          /\ handler[r] \in {"insert", "announce"} => draft[r] \in Message
          /\ handler[r] = "announce" => draft[r] \in messages
    /\ Elements(sent) \subseteq announced
    /\ announced \subseteq messages
    /\ \A a \in Follower :
          /\ Elements(buffer[a]) \subseteq Rows(a)
          /\ \A i \in DOMAIN chunks[a] : Elements(chunks[a][i]) \subseteq Rows(a)
          /\ replay[a] \subseteq Rows(a)

\* Created after the latest message that the client has handled: among the
\* rows that a replay would find.
After(a, m) == last[a] = NoMessage \/ m.at > last[a].at

\* Stored and not sent, and sure to be overtaken when it is.
Doomed(m) ==
    /\ m \notin announced
    /\ \E n \in announced : n.to = m.to /\ n.at >= m.at

\* What a client misses it will find when it comes back.
ResumeInv ==
    \A a \in Resuming : ~lagged[a] =>
        \A m \in messages :
            m.to = a => Settled(a, m) \/ Doomed(m) \/ After(a, m)

\* What it misses while connected is on its way.
ComingInv ==
    \A a \in Resuming : conn[a] = "live" /\ ~lagged[a] =>
        \A m \in announced :
            m.to = a =>
                \/ Settled(a, m)
                \/ m \in replay[a]
                \/ \E i \in next[a]..Len(sent) : sent[i] = m

\* The replay precedes, by created_at, everything else that is missing.
ReplayInv ==
    \A a \in Resuming : conn[a] = "live" /\ ~lagged[a] =>
        \A n \in replay[a], m \in messages :
            m.to = a =>
                \/ Settled(a, m) \/ Doomed(m)
                \/ m \in replay[a]
                \/ m.at > n.at

\* The channel is in the order of created_at except for what was overtaken.
OrderInv ==
    \A j \in DOMAIN sent : \A i \in 1..(j - 1) :
        sent[i].to = sent[j].to =>
            sent[j] \in overtaken \/ sent[i].at < sent[j].at

StreamIInv ==
    /\ StreamTypeOK
    /\ StoredInv
    /\ ReceivedIsStored
    /\ ResumeInv
    /\ ComingInv
    /\ ReplayInv
    /\ OrderInv
=============================================================================
