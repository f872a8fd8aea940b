-------------------------- MODULE HubStream_proofs --------------------------
(***************************************************************************)
(* Proofs about module HubStream: for any number of agents, clients,       *)
(* requests and restarts, and any capacity of the channel, what reaches a  *)
(* client is in the table, and a client that resumes misses only what was  *)
(* overtaken or what it was told it lagged behind.                         *)
(***************************************************************************)
EXTENDS HubStreamProperties, SequenceTheorems, TLAPS

-----------------------------------------------------------------------------
(***************************************************************************)
(* Types.                                                                  *)
(***************************************************************************)

\* A frame that arrives: the chunks on their way to a client, and what is in
\* each.
LEMMA ArrivesChunks ==
    ASSUME StreamTypeOK, NEW a \in Follower, NEW f \in Seq(Message),
           Arrives(a, f)
    PROVE  /\ chunks' \in [Follower -> Seq(Seq(Message))]
           /\ \A b \in Follower : b # a => chunks'[b] = chunks[b]
           /\ \A i \in DOMAIN chunks'[a] :
                 \/ chunks'[a][i] = f
                 \/ /\ i \in DOMAIN chunks[a]
                    /\ \/ chunks'[a][i] = chunks[a][i]
                       \/ chunks'[a][i] = chunks[a][i] \o f
<1> DEFINE c == chunks[a]
<1>0. chunks \in [Follower -> Seq(Seq(Message))] /\ c \in Seq(Seq(Message))
  BY DEF StreamTypeOK
<1>1. CASE chunks' = [chunks EXCEPT ![a] = Append(c, f)]
  <2>1. /\ Append(c, f) \in Seq(Seq(Message))
        /\ DOMAIN Append(c, f) = DOMAIN c \cup {Len(c) + 1}
        /\ \A i \in DOMAIN c : Append(c, f)[i] = c[i]
        /\ Append(c, f)[Len(c) + 1] = f
    BY <1>0
  <2> QED
    BY <1>0, <1>1, <2>1
<1>2. CASE /\ c # <<>>
           /\ chunks' = [chunks EXCEPT ![a][Len(c)] = @ \o f]
  <2> DEFINE d == [c EXCEPT ![Len(c)] = c[Len(c)] \o f]
  <2>1. Len(c) \in DOMAIN c /\ DOMAIN c = 1..Len(c) /\ Len(c) \in Nat
    BY <1>0, <1>2
  <2>2. c[Len(c)] \o f \in Seq(Message)
    BY <1>0, <2>1
  <2>3. /\ d \in Seq(Seq(Message))
        /\ Len(d) = Len(c)
        /\ \A i \in 1..Len(c) :
              d[i] = IF i = Len(c) THEN c[Len(c)] \o f ELSE c[i]
    BY <1>0, <2>1, <2>2, ExceptSeq
  <2>4. chunks' = [chunks EXCEPT ![a] = d]
    BY <1>2
  <2> HIDE DEF d
  <2>5. DOMAIN d = DOMAIN c
    BY <2>1, <2>3
  <2> QED
    BY <1>0, <2>1, <2>3, <2>4, <2>5
<1> QED
  BY <1>1, <1>2 DEF Arrives

\* A message handed to a client leaves the client's variables well typed.
LEMMA DeliverType ==
    ASSUME StreamTypeOK,
           NEW a \in Follower, NEW m \in Message, Deliver(a, m)
    PROVE  /\ received' \in [Follower -> SUBSET Message]
           /\ last' \in [Follower -> Message \cup {NoMessage}]
           /\ buffer' \in [Follower -> Seq(Message)]
           /\ chunks' \in [Follower -> Seq(Seq(Message))]
<1> USE DEF StreamTypeOK
<1>1. CASE a \in Watchers
  <2>1. <<m>> \in Seq(Message)
    OBVIOUS
  <2>2. chunks' \in [Follower -> Seq(Seq(Message))]
    BY <1>1, <2>1, ArrivesChunks DEF Deliver
  <2> QED
    BY <1>1, <2>2 DEF Deliver
<1>2. CASE a \notin Watchers
  <2>1. /\ received' = [received EXCEPT ![a] = received[a] \cup {m}]
        /\ last' = [last EXCEPT ![a] = m]
        /\ UNCHANGED <<buffer, chunks>>
    BY <1>2 DEF Deliver
  <2>2. received' \in [Follower -> SUBSET Message]
    BY <2>1
  <2>3. last' \in [Follower -> Message \cup {NoMessage}]
    BY <2>1
  <2> QED
    BY <2>1, <2>2, <2>3
<1> QED
  BY <1>1, <1>2

\* Every step keeps the types (StreamTypeOK).
LEMMA TypeStep ==
    ASSUME StreamTypeOK, StoredInv, [Next]_vars
    PROVE  StreamTypeOK'
<1> USE StreamAssumption DEF StreamTypeOK, StreamAssumption
<1>1. ASSUME NEW r \in Request, Address(r) \/ Broadcast(r)
      PROVE  StreamTypeOK'
  <2>1. CASE Address(r)
    <3>1. left' \in [Request -> SUBSET Agent]
      BY <2>1 DEF Address
    <3> QED
      BY <2>1, <3>1 DEF Address, clientVars, historyVars
  <2>2. CASE Broadcast(r)
    <3>1. left' \in [Request -> SUBSET Agent]
      BY <2>2 DEF Broadcast
    <3>2. handler' \in [Request -> {"idle", "stamp", "insert", "announce",
                                    "answered", "failed"}]
      BY <2>2 DEF Broadcast
    <3> QED
      BY <2>2, <3>1, <3>2 DEF Broadcast, clientVars, historyVars
  <2> QED
    BY <1>1, <2>1, <2>2
<1>2. ASSUME NEW r \in Request, Stamp(r)
      PROVE  StreamTypeOK'
  <2>1. PICK a \in left[r] :
           /\ draft' = [draft EXCEPT ![r] = [by |-> r, to |-> a, at |-> clock]]
           /\ left' = [left EXCEPT ![r] = @ \ {a}]
    BY <1>2 DEF Stamp
  <2>2. [by |-> r, to |-> a, at |-> clock] \in Message
    BY DEF Message
  <2> QED
    BY <1>2, <2>1, <2>2 DEF Stamp, clientVars, historyVars
<1>3. ASSUME NEW r \in Request, Insert(r)
      PROVE  StreamTypeOK'
  <2>1. draft[r] \in Message
    BY <1>3 DEF Insert, StoredInv
  <2> QED
    BY <1>3, <2>1 DEF Insert, NoteOvertaken, clientVars
<1>4. ASSUME NEW r \in Request, Announce(r)
      PROVE  StreamTypeOK'
  <2>1. draft[r] \in Message
    BY <1>4 DEF Announce, StoredInv
  <2>2. sent' \in Seq(Message) /\ Len(sent') = Len(sent) + 1
    BY <1>4, <2>1 DEF Announce
  <2>3. \A a \in Follower : conn'[a] # "off" => next'[a] <= Len(sent') + 1
    BY <1>4, <2>2 DEF Announce
  <2> QED
    BY <1>4, <2>1, <2>2, <2>3 DEF Announce, NoteOvertaken, clientVars
<1>5. ASSUME NEW r \in Request, Fail(r)
      PROVE  StreamTypeOK'
  BY <1>5 DEF Fail, clientVars, historyVars
<1>6. ASSUME NEW a \in Follower, Connect(a)
      PROVE  StreamTypeOK'
  BY <1>6 DEF Connect, handlerVars, clientVars, historyVars
<1>7. ASSUME NEW a \in Follower, ReadReplay(a)
      PROVE  StreamTypeOK'
  BY <1>7 DEF ReadReplay, RowsToReplay, handlerVars, clientVars, historyVars
<1>8. ASSUME NEW a \in Follower, YieldReplay(a)
      PROVE  StreamTypeOK'
  <2>1. PICK m \in replay[a] :
           /\ replay' = [replay EXCEPT ![a] = @ \ {m}]
           /\ Deliver(a, m)
    BY <1>8 DEF YieldReplay
  <2>2. m \in Message
    OBVIOUS
  <2> QED
    BY <1>8, <2>1, <2>2, DeliverType DEF YieldReplay, handlerVars, historyVars
<1>9. ASSUME NEW a \in Follower, Forward(a)
      PROVE  StreamTypeOK'
  <2>1. next[a] \in DOMAIN sent /\ sent[next[a]] \in Message
    BY <1>9 DEF Forward, Receiving
  <2>2. /\ received' \in [Follower -> SUBSET Message]
        /\ last' \in [Follower -> Message \cup {NoMessage}]
        /\ buffer' \in [Follower -> Seq(Message)]
        /\ chunks' \in [Follower -> Seq(Seq(Message))]
    BY <1>9, <2>1, DeliverType DEF Forward, clientVars
  <2>3. next' \in [Follower -> Nat \ {0}]
    BY <1>9 DEF Forward
  <2>4. \A b \in Follower : conn'[b] # "off" => next'[b] <= Len(sent') + 1
    BY <1>9, <2>1 DEF Forward, Receiving
  <2> QED
    BY <1>9, <2>2, <2>3, <2>4 DEF Forward, handlerVars, historyVars
<1>10. ASSUME NEW a \in Follower, Lag(a)
       PROVE  StreamTypeOK'
  <2>1. Oldest \in Nat \ {0} /\ Oldest <= Len(sent)
    BY <1>10 DEF Lag, Receiving, Oldest
  <2>2. chunks' \in [Follower -> Seq(Seq(Message))]
    <3>1. <<>> \in Seq(Message)
      OBVIOUS
    <3> QED
      BY <1>10, <3>1, ArrivesChunks DEF Lag
  <2>3. next' \in [Follower -> Nat \ {0}]
    BY <1>10, <2>1 DEF Lag
  <2>4. \A b \in Follower : conn'[b] # "off" => next'[b] <= Len(sent') + 1
    BY <1>10, <2>1 DEF Lag
  <2>5. lagged' \in [Follower -> BOOLEAN]
    BY <1>10 DEF Lag
  <2> QED
    BY <1>10, <2>2, <2>3, <2>4, <2>5 DEF Lag, handlerVars, historyVars
<1>11. ASSUME NEW a \in Follower, KeepAlive(a)
       PROVE  StreamTypeOK'
  BY <1>11 DEF KeepAlive, handlerVars, historyVars
<1>12. ASSUME NEW a \in Follower, ReadChunk(a)
       PROVE  StreamTypeOK'
  <2> DEFINE all == buffer[a] \o Head(chunks[a])
  <2>1. /\ all \in Seq(Message)
        /\ Tail(chunks[a]) \in Seq(Seq(Message))
    BY <1>12 DEF ReadChunk
  <2>2. chunks' \in [Follower -> Seq(Seq(Message))]
    <3>1. chunks' = [chunks EXCEPT ![a] = Tail(chunks[a])]
      BY <1>12 DEF ReadChunk
    <3> QED
      BY <2>1, <3>1
  <2>3. CASE all = <<>>
    BY <1>12, <2>2, <2>3 DEF ReadChunk, handlerVars, historyVars
  <2>4. CASE all # <<>>
    <3>1. Head(all) \in Message /\ Tail(all) \in Seq(Message)
      BY <2>1, <2>4
    <3>2. /\ received' = [received EXCEPT ![a] = received[a] \cup {Head(all)}]
          /\ last' = [last EXCEPT ![a] = Head(all)]
          /\ buffer' = [buffer EXCEPT ![a] = Tail(all)]
      BY <1>12, <2>4 DEF ReadChunk
    <3> HIDE DEF all
    <3>3. received' \in [Follower -> SUBSET Message]
      BY <3>1, <3>2
    <3>4. last' \in [Follower -> Message \cup {NoMessage}]
      BY <3>1, <3>2
    <3>5. buffer' \in [Follower -> Seq(Message)]
      BY <3>1, <3>2
    <3> QED
      BY <1>12, <2>2, <3>3, <3>4, <3>5 DEF ReadChunk, handlerVars, historyVars
  <2> QED
    BY <2>3, <2>4
<1>13. ASSUME NEW a \in Follower, Disconnect(a)
       PROVE  StreamTypeOK'
  BY <1>13 DEF Disconnect, handlerVars, historyVars
<1>14. ASSUME Restart
       PROVE  StreamTypeOK'
  BY <1>14 DEF Restart, DropHandlers, InProgress, historyVars
<1>15. ASSUME UNCHANGED vars
       PROVE  StreamTypeOK'
  BY <1>15 DEF vars, handlerVars, clientVars, historyVars
<1> QED
  BY <1>1, <1>2, <1>3, <1>4, <1>5, <1>6, <1>7, <1>8, <1>9, <1>10, <1>11,
     <1>12, <1>13, <1>14, <1>15 DEF Next
-----------------------------------------------------------------------------
(***************************************************************************)
(* What is sent or handled is in the table.                                *)
(***************************************************************************)

LEMMA AppendElements ==
    ASSUME NEW s \in Seq(Message), NEW m \in Message
    PROVE  Elements(Append(s, m)) = Elements(s) \cup {m}
<1>1. DOMAIN Append(s, m) = DOMAIN s \cup {Len(s) + 1}
  OBVIOUS
<1>2. \A i \in DOMAIN s : Append(s, m)[i] = s[i]
  OBVIOUS
<1>3. Append(s, m)[Len(s) + 1] = m
  OBVIOUS
<1> QED
  BY <1>1, <1>2, <1>3 DEF Elements

LEMMA HeadTailElements ==
    ASSUME NEW s \in Seq(Message), s # <<>>
    PROVE  /\ Head(s) \in Elements(s)
           /\ Elements(Tail(s)) \subseteq Elements(s)
<1>1. Head(s) = s[1] /\ 1 \in DOMAIN s
  OBVIOUS
<1>2. \A i \in DOMAIN Tail(s) : i + 1 \in DOMAIN s /\ Tail(s)[i] = s[i + 1]
  OBVIOUS
<1> QED
  BY <1>1, <1>2 DEF Elements

LEMMA ConcatElements ==
    ASSUME NEW s \in Seq(Message), NEW t \in Seq(Message)
    PROVE  Elements(s \o t) \subseteq Elements(s) \cup Elements(t)
<1>1. s \o t \in Seq(Message) /\ Len(s \o t) = Len(s) + Len(t)
  OBVIOUS
<1>2. ASSUME NEW i \in DOMAIN (s \o t)
      PROVE  \/ i \in DOMAIN s /\ (s \o t)[i] = s[i]
             \/ i - Len(s) \in DOMAIN t /\ (s \o t)[i] = t[i - Len(s)]
  BY <1>1
<1> QED
  BY <1>2 DEF Elements

\* A frame that carries rows addressed to the client, or nothing.
LEMMA ArrivesStored ==
    ASSUME StreamTypeOK, StoredInv, NEW a \in Follower,
           NEW f \in Seq(Message), Elements(f) \subseteq Rows(a), Arrives(a, f)
    PROVE  \A b \in Follower : \A i \in DOMAIN chunks'[b] :
               Elements(chunks'[b][i]) \subseteq Rows(b)
<1> SUFFICES ASSUME NEW b \in Follower, NEW i \in DOMAIN chunks'[b]
             PROVE  Elements(chunks'[b][i]) \subseteq Rows(b)
  OBVIOUS
<1>1. CASE b # a
  BY <1>1, ArrivesChunks DEF StoredInv
<1>2. CASE b = a
  <2>1. \/ chunks'[a][i] = f
        \/ /\ i \in DOMAIN chunks[a]
           /\ \/ chunks'[a][i] = chunks[a][i]
              \/ chunks'[a][i] = chunks[a][i] \o f
    BY <1>2, ArrivesChunks
  <2>2. i \in DOMAIN chunks[a] =>
           /\ chunks[a][i] \in Seq(Message)
           /\ Elements(chunks[a][i]) \subseteq Rows(a)
    BY DEF StreamTypeOK, StoredInv
  <2> QED
    BY <1>2, <2>1, <2>2, ConcatElements
<1> QED
  BY <1>1, <1>2

\* A row handed to the client it is addressed to.
LEMMA DeliverStored ==
    ASSUME StreamTypeOK, StoredInv, ReceivedIsStored, UNCHANGED messages,
           NEW a \in Follower, NEW m \in Rows(a), Deliver(a, m)
    PROVE  /\ \A b \in Follower : Elements(buffer'[b]) \subseteq Rows(b)
           /\ \A b \in Follower : \A i \in DOMAIN chunks'[b] :
                 Elements(chunks'[b][i]) \subseteq Rows(b)
           /\ ReceivedIsStored'
<1> USE DEF StreamTypeOK
<1>1. m \in Message
  BY DEF Rows
<1>2. CASE a \in Watchers
  <2>1. <<m>> \in Seq(Message) /\ Elements(<<m>>) \subseteq Rows(a)
    BY <1>1 DEF Elements
  <2>2. \A b \in Follower : \A i \in DOMAIN chunks'[b] :
           Elements(chunks'[b][i]) \subseteq Rows(b)
    BY <1>2, <2>1, ArrivesStored DEF Deliver
  <2> QED
    BY <1>2, <2>2 DEF Deliver, StoredInv, ReceivedIsStored, Rows
<1>3. CASE a \notin Watchers
  <2>1. /\ received' = [received EXCEPT ![a] = received[a] \cup {m}]
        /\ last' = [last EXCEPT ![a] = m]
        /\ UNCHANGED <<buffer, chunks>>
    BY <1>3 DEF Deliver
  <2>2. ReceivedIsStored'
    BY <2>1 DEF ReceivedIsStored, Rows
  <2> QED
    BY <2>1, <2>2 DEF StoredInv
<1> QED
  BY <1>2, <1>3

\* Every step keeps to what is in the table (StoredInv, ReceivedIsStored).
LEMMA StoredStep ==
    ASSUME StreamTypeOK, StoredInv, ReceivedIsStored, [Next]_vars
    PROVE  StoredInv' /\ ReceivedIsStored'
<1> USE StreamAssumption
    DEF StreamTypeOK, StreamAssumption, StoredInv, ReceivedIsStored, Rows
<1>1. ASSUME NEW r \in Request, Address(r) \/ Broadcast(r)
      PROVE  StoredInv' /\ ReceivedIsStored'
  BY <1>1 DEF Address, Broadcast, clientVars, historyVars
<1>2. ASSUME NEW r \in Request, Stamp(r)
      PROVE  StoredInv' /\ ReceivedIsStored'
  <2>1. PICK a \in left[r] :
           draft' = [draft EXCEPT ![r] = [by |-> r, to |-> a, at |-> clock]]
    BY <1>2 DEF Stamp
  <2>2. [by |-> r, to |-> a, at |-> clock] \in Message
    BY DEF Message
  <2>3. \A q \in Request :
           /\ handler'[q] \in {"insert", "announce"} => draft'[q] \in Message
           /\ handler'[q] = "announce" => draft'[q] \in messages
    BY <1>2, <2>1, <2>2 DEF Stamp
  <2> QED
    BY <1>2, <2>3 DEF Stamp, clientVars, historyVars
<1>3. ASSUME NEW r \in Request, Insert(r)
      PROVE  StoredInv' /\ ReceivedIsStored'
  <2>1. \A q \in Request :
           /\ handler'[q] \in {"insert", "announce"} => draft'[q] \in Message
           /\ handler'[q] = "announce" => draft'[q] \in messages'
    BY <1>3 DEF Insert
  <2>2. messages \subseteq messages'
    BY <1>3 DEF Insert
  <2> QED
    BY <1>3, <2>1, <2>2 DEF Insert, clientVars
<1>4. ASSUME NEW r \in Request, Announce(r)
      PROVE  StoredInv' /\ ReceivedIsStored'
  <2>1. draft[r] \in Message /\ draft[r] \in messages
    BY <1>4 DEF Announce
  <2>2. Elements(sent') = Elements(sent) \cup {draft[r]}
    BY <1>4, <2>1, AppendElements DEF Announce
  <2>3. Elements(sent') \subseteq announced' /\ announced' \subseteq messages'
    BY <1>4, <2>1, <2>2 DEF Announce
  <2>4. \A q \in Request :
           /\ handler'[q] \in {"insert", "announce"} => draft'[q] \in Message
           /\ handler'[q] = "announce" => draft'[q] \in messages'
    BY <1>4 DEF Announce
  <2> QED
    BY <1>4, <2>3, <2>4 DEF Announce, clientVars
<1>5. ASSUME NEW r \in Request, Fail(r)
      PROVE  StoredInv' /\ ReceivedIsStored'
  BY <1>5 DEF Fail, clientVars, historyVars
<1>6. ASSUME NEW a \in Follower, Connect(a) \/ KeepAlive(a)
      PROVE  StoredInv' /\ ReceivedIsStored'
  <2>1. CASE Connect(a)
    BY <2>1 DEF Connect, handlerVars, clientVars, historyVars
  <2>2. CASE KeepAlive(a)
    <3>1. chunks' = [chunks EXCEPT ![a] = <<(<<>>)>>]
      BY <2>2 DEF KeepAlive
    <3>2. \A b \in Follower : \A i \in DOMAIN chunks'[b] :
             Elements(chunks'[b][i]) \subseteq Rows(b)
      BY <3>1 DEF Elements
    <3> QED
      BY <2>2, <3>2 DEF KeepAlive, handlerVars, historyVars
  <2> QED
    BY <1>6, <2>1, <2>2
<1>7. ASSUME NEW a \in Follower, ReadReplay(a)
      PROVE  StoredInv' /\ ReceivedIsStored'
  BY <1>7 DEF ReadReplay, RowsToReplay, handlerVars, clientVars, historyVars
<1>8. ASSUME NEW a \in Follower, YieldReplay(a)
      PROVE  StoredInv' /\ ReceivedIsStored'
  <2>1. PICK m \in replay[a] :
           /\ replay' = [replay EXCEPT ![a] = @ \ {m}]
           /\ Deliver(a, m)
    BY <1>8 DEF YieldReplay
  <2>2. /\ \A b \in Follower : Elements(buffer'[b]) \subseteq Rows(b)
        /\ \A b \in Follower : \A i \in DOMAIN chunks'[b] :
              Elements(chunks'[b][i]) \subseteq Rows(b)
        /\ ReceivedIsStored'
    BY <1>8, <2>1, DeliverStored DEF YieldReplay
  <2> QED
    BY <1>8, <2>1, <2>2 DEF YieldReplay, handlerVars, historyVars
<1>9. ASSUME NEW a \in Follower, Forward(a)
      PROVE  StoredInv' /\ ReceivedIsStored'
  <2>1. sent[next[a]] \in messages
    BY <1>9 DEF Forward, Receiving, Elements
  <2>2. CASE sent[next[a]].to = a
    <3>1. /\ \A b \in Follower : Elements(buffer'[b]) \subseteq Rows(b)
          /\ \A b \in Follower : \A i \in DOMAIN chunks'[b] :
                Elements(chunks'[b][i]) \subseteq Rows(b)
          /\ ReceivedIsStored'
      BY <1>9, <2>1, <2>2, DeliverStored DEF Forward
    <3> QED
      BY <1>9, <3>1 DEF Forward, handlerVars, historyVars
  <2>3. CASE sent[next[a]].to # a
    BY <1>9, <2>3 DEF Forward, handlerVars, clientVars, historyVars
  <2> QED
    BY <2>2, <2>3
<1>10. ASSUME NEW a \in Follower, Lag(a)
       PROVE  StoredInv' /\ ReceivedIsStored'
  <2>1. <<>> \in Seq(Message) /\ Elements(<<>>) = {}
    BY DEF Elements
  <2>2. \A b \in Follower : \A i \in DOMAIN chunks'[b] :
           Elements(chunks'[b][i]) \subseteq Rows(b)
    BY <1>10, <2>1, ArrivesStored DEF Lag
  <2> QED
    BY <1>10, <2>2 DEF Lag, handlerVars, historyVars
<1>11. ASSUME NEW a \in Follower, ReadChunk(a)
       PROVE  StoredInv' /\ ReceivedIsStored'
  <2> DEFINE all == buffer[a] \o Head(chunks[a])
  <2>1. /\ Head(chunks[a]) = chunks[a][1] /\ 1 \in DOMAIN chunks[a]
        /\ Head(chunks[a]) \in Seq(Message)
        /\ all \in Seq(Message)
    BY <1>11 DEF ReadChunk
  <2>2. Elements(all) \subseteq Rows(a)
    BY <2>1, ConcatElements
  <2>3. chunks' = [chunks EXCEPT ![a] = Tail(chunks[a])]
    BY <1>11 DEF ReadChunk
  <2>4. \A i \in DOMAIN Tail(chunks[a]) :
           /\ i + 1 \in DOMAIN chunks[a]
           /\ Tail(chunks[a])[i] = chunks[a][i + 1]
    BY <1>11 DEF ReadChunk
  <2>5. \A b \in Follower : \A i \in DOMAIN chunks'[b] :
           Elements(chunks'[b][i]) \subseteq Rows(b)
    BY <2>3, <2>4
  <2>6. UNCHANGED <<handlerVars, messages, sent, replay, historyVars>>
    BY <1>11 DEF ReadChunk
  <2>7. CASE all = <<>>
    BY <1>11, <2>5, <2>6, <2>7 DEF ReadChunk, handlerVars, historyVars
  <2>8. CASE all # <<>>
    <3>1. /\ received' = [received EXCEPT ![a] = received[a] \cup {Head(all)}]
          /\ last' = [last EXCEPT ![a] = Head(all)]
          /\ buffer' = [buffer EXCEPT ![a] = Tail(all)]
      BY <1>11, <2>8 DEF ReadChunk
    <3> HIDE DEF all
    <3>2. /\ Head(all) \in Rows(a)
          /\ Elements(Tail(all)) \subseteq Rows(a)
      BY <2>1, <2>2, <2>8, HeadTailElements
    <3>3. ReceivedIsStored'
      BY <2>6, <3>1, <3>2
    <3>4. StoredInv'
      BY <2>5, <2>6, <3>1, <3>2 DEF handlerVars, historyVars
    <3> QED
      BY <3>3, <3>4
  <2> QED
    BY <2>7, <2>8
<1>12. ASSUME NEW a \in Follower, Disconnect(a)
       PROVE  StoredInv' /\ ReceivedIsStored'
  BY <1>12 DEF Disconnect, Elements, handlerVars, historyVars
<1>13. ASSUME Restart
       PROVE  StoredInv' /\ ReceivedIsStored'
  BY <1>13 DEF Restart, DropHandlers, InProgress, Elements, historyVars
<1>14. ASSUME UNCHANGED vars
       PROVE  StoredInv' /\ ReceivedIsStored'
  BY <1>14 DEF vars, handlerVars, clientVars, historyVars
<1> QED
  BY <1>1, <1>2, <1>3, <1>4, <1>5, <1>6, <1>7, <1>8, <1>9, <1>10, <1>11,
     <1>12, <1>13, <1>14 DEF Next
-----------------------------------------------------------------------------
(***************************************************************************)
(* What a resuming client misses (ResumeInv, ComingInv, ReplayInv) and the *)
(* order of the channel (OrderInv).                                        *)
(***************************************************************************)

MissInv == ResumeInv /\ ComingInv /\ ReplayInv /\ OrderInv

\* What a client has, or need not get, stays so as long as nothing is
\* forgotten.
LEMMA SettledStays ==
    ASSUME NEW a \in Follower, NEW m, Settled(a, m),
           received[a] \subseteq received'[a], overtaken \subseteq overtaken'
    PROVE  Settled(a, m)'
  BY DEF Settled

\* A message handed to a client is the latest that it has handled, at once
\* if it resumes.
LEMMA DeliverHandles ==
    ASSUME StreamTypeOK, NEW c \in Follower, NEW m, Deliver(c, m)
    PROVE  /\ \A a \in Follower : received[a] \subseteq received'[a]
           /\ \A a \in Follower : a # c => last'[a] = last[a]
           /\ c \in Resuming => last'[c] = m /\ m \in received'[c]
<1>1. CASE c \in Watchers
  BY <1>1 DEF Deliver, Resuming
<1>2. CASE c \notin Watchers
  <2>1. /\ received' = [received EXCEPT ![c] = received[c] \cup {m}]
        /\ last' = [last EXCEPT ![c] = m]
    BY <1>2 DEF Deliver
  <2>2. DOMAIN received = Follower /\ DOMAIN last = Follower
    BY DEF StreamTypeOK
  <2> QED
    BY <2>1, <2>2
<1> QED
  BY <1>1, <1>2

\* A handler stores its message: it is later than every stored one to the
\* same agent, or overtaken.
LEMMA InsertMisses ==
    ASSUME StreamIInv, NEW r \in Request, Insert(r)
    PROVE  MissInv'
<1> DEFINE m0 == draft[r]
<1>1. /\ messages' = messages \cup {m0}
      /\ UNCHANGED <<sent, conn, next, replay, received, last, lagged,
                     announced>>
  BY DEF Insert, clientVars
<1>2. \/ m0 \in overtaken'
      \/ \A n \in messages : n.to = m0.to => ~(n.at >= m0.at)
  BY DEF Insert, NoteOvertaken
<1>3. overtaken \subseteq overtaken'
  BY DEF Insert, NoteOvertaken
<1>4. /\ m0 \in Message /\ messages \subseteq Message
      /\ \A n \in Message : n.at \in Nat
  BY DEF StreamIInv, StoredInv, StreamTypeOK, Insert, Message
<1>5. \/ m0 \in overtaken'
      \/ \A n \in messages : n.to = m0.to => n.at < m0.at
  BY <1>2, <1>4
<1>6. \A a \in Follower : \A m : Settled(a, m) => Settled(a, m)'
  BY <1>1, <1>3, SettledStays
<1>7. \A m : Doomed(m) => Doomed(m)'
  BY <1>1 DEF Doomed
<1>8. ResumeInv'
  <2> SUFFICES ASSUME NEW a \in Resuming, ~lagged'[a],
                      NEW m \in messages', m.to = a
               PROVE  Settled(a, m)' \/ Doomed(m)' \/ After(a, m)'
    BY DEF ResumeInv
  <2>0. a \in Follower
    BY DEF Resuming
  <2>1. CASE m \in messages
    BY <1>1, <1>6, <1>7, <2>0, <2>1 DEF StreamIInv, ResumeInv, After
  <2>2. CASE m = m0
    <3>1. CASE m0 \in overtaken'
      BY <2>2, <3>1 DEF Settled
    <3>2. CASE \A n \in messages : n.to = m0.to => n.at < m0.at
      <4>1. last[a] # NoMessage => last[a] \in messages /\ last[a].to = a
        BY <2>0 DEF StreamIInv, ReceivedIsStored, Rows
      <4> QED
        BY <1>1, <2>2, <3>2, <4>1 DEF After
    <3> QED
      BY <1>5, <3>1, <3>2
  <2> QED
    BY <1>1, <2>1, <2>2
<1>9. ComingInv'
  BY <1>1, <1>6 DEF StreamIInv, ComingInv, Resuming
<1>10. ReplayInv'
  <2> SUFFICES ASSUME NEW a \in Resuming, conn'[a] = "live", ~lagged'[a],
                      NEW n \in replay'[a], NEW m \in messages', m.to = a
               PROVE  \/ Settled(a, m)' \/ Doomed(m)'
                      \/ m \in replay'[a]
                      \/ m.at > n.at
    BY DEF ReplayInv
  <2>0. a \in Follower
    BY DEF Resuming
  <2>1. CASE m \in messages
    BY <1>1, <1>6, <1>7, <2>0, <2>1 DEF StreamIInv, ReplayInv
  <2>2. CASE m = m0
    <3>1. CASE m0 \in overtaken'
      BY <2>2, <3>1 DEF Settled
    <3>2. CASE \A q \in messages : q.to = m0.to => q.at < m0.at
      <4>1. n \in messages /\ n.to = a
        BY <1>1, <2>0 DEF StreamIInv, StoredInv, Rows
      <4> QED
        BY <1>4, <2>2, <3>2, <4>1
    <3> QED
      BY <1>5, <3>1, <3>2
  <2> QED
    BY <1>1, <2>1, <2>2
<1>11. OrderInv'
  BY <1>1, <1>3 DEF StreamIInv, OrderInv
<1> QED
  BY <1>8, <1>9, <1>10, <1>11 DEF MissInv

\* A handler sends its message: what was sure to be overtaken now is.
LEMMA AnnounceMisses ==
    ASSUME StreamIInv, NEW r \in Request, Announce(r)
    PROVE  MissInv'
<1> DEFINE m0 == draft[r]
<1>1. /\ sent' = Append(sent, m0)
      /\ announced' = announced \cup {m0}
      /\ UNCHANGED <<messages, conn, next, replay, received, last, lagged>>
  BY DEF Announce, clientVars
<1>2. \/ m0 \in overtaken'
      \/ \A n \in announced : n.to = m0.to => ~(n.at >= m0.at)
  BY DEF Announce, NoteOvertaken
<1>3. overtaken \subseteq overtaken'
  BY DEF Announce, NoteOvertaken
<1>4. /\ m0 \in Message
      /\ sent \in Seq(Message)
      /\ announced \subseteq Message
      /\ Elements(sent) \subseteq announced
      /\ \A n \in Message : n.at \in Nat
  BY DEF StreamIInv, StoredInv, StreamTypeOK, Announce, Message
<1>5. \A a \in Follower : \A m : Settled(a, m) => Settled(a, m)'
  BY <1>1, <1>3, SettledStays
<1>6. \A a \in Follower : \A m : Doomed(m) => Doomed(m)' \/ Settled(a, m)'
  <2> SUFFICES ASSUME NEW a \in Follower, NEW m, Doomed(m)
               PROVE  Doomed(m)' \/ Settled(a, m)'
    OBVIOUS
  <2>1. CASE m = m0
    BY <1>2, <2>1 DEF Doomed, Settled
  <2>2. CASE m # m0
    BY <1>1, <2>2 DEF Doomed
  <2> QED
    BY <2>1, <2>2
<1>7. /\ Len(sent') = Len(sent) + 1 /\ Len(sent) \in Nat
      /\ DOMAIN sent = 1..Len(sent) /\ DOMAIN sent' = 1..(Len(sent) + 1)
      /\ sent'[Len(sent) + 1] = m0
      /\ \A i \in 1..Len(sent) : sent'[i] = sent[i]
  BY <1>1, <1>4
<1>8. ResumeInv'
  BY <1>1, <1>5, <1>6 DEF StreamIInv, ResumeInv, Resuming, After
<1>9. ReplayInv'
  BY <1>1, <1>5, <1>6 DEF StreamIInv, ReplayInv, Resuming
<1>10. ComingInv'
  <2> SUFFICES ASSUME NEW a \in Resuming, conn'[a] = "live", ~lagged'[a],
                      NEW m \in announced', m.to = a
               PROVE  \/ Settled(a, m)'
                      \/ m \in replay'[a]
                      \/ \E i \in next'[a]..Len(sent') : sent'[i] = m
    BY DEF ComingInv
  <2>0. a \in Follower
    BY DEF Resuming
  <2>1. next[a] \in Nat \ {0} /\ next[a] <= Len(sent) + 1
    BY <1>1, <2>0 DEF StreamIInv, StreamTypeOK
  <2>2. CASE m = m0
    BY <1>1, <1>7, <2>1, <2>2
  <2>3. CASE m \in announced
    <3>1. \/ Settled(a, m) \/ m \in replay[a]
          \/ \E i \in next[a]..Len(sent) : sent[i] = m
      BY <1>1, <2>3 DEF StreamIInv, ComingInv
    <3>2. ASSUME NEW i \in next[a]..Len(sent), sent[i] = m
          PROVE  i \in next'[a]..Len(sent') /\ sent'[i] = m
      BY <1>1, <1>7, <2>1, <3>2
    <3> QED
      BY <1>1, <1>5, <2>0, <3>1, <3>2
  <2> QED
    BY <1>1, <2>2, <2>3
<1>11. OrderInv'
  <2> SUFFICES ASSUME NEW j \in DOMAIN sent', NEW i \in 1..(j - 1),
                      sent'[i].to = sent'[j].to
               PROVE  sent'[j] \in overtaken' \/ sent'[i].at < sent'[j].at
    BY DEF OrderInv
  <2>1. i \in 1..Len(sent) /\ sent'[i] = sent[i]
    BY <1>7
  <2>2. CASE j = Len(sent) + 1
    <3>1. sent[i] \in announced
      BY <1>4, <1>7, <2>1 DEF Elements
    <3>2. m0.at \in Nat /\ sent[i].at \in Nat
      BY <1>4, <3>1
    <3> QED
      BY <1>2, <1>7, <2>1, <2>2, <3>1, <3>2
  <2>3. CASE j \in 1..Len(sent)
    BY <1>3, <1>7, <2>1, <2>3 DEF StreamIInv, OrderInv
  <2> QED
    BY <1>7, <2>2, <2>3
<1> QED
  BY <1>8, <1>9, <1>10, <1>11 DEF MissInv

\* A stream reads its replay: all the rows that the client misses.
LEMMA ReadReplayMisses ==
    ASSUME StreamIInv, NEW c \in Follower, ReadReplay(c)
    PROVE  MissInv'
<1>1. /\ conn' = [conn EXCEPT ![c] = "live"]
      /\ replay' = [replay EXCEPT ![c] = RowsToReplay(c)]
      /\ UNCHANGED <<messages, sent, next, received, last, lagged, announced,
                     overtaken>>
  BY DEF ReadReplay, clientVars, historyVars
<1>2. ResumeInv' /\ OrderInv'
  BY <1>1 DEF StreamIInv, ResumeInv, OrderInv, Settled, Doomed, After
<1>3. /\ conn' \in [Follower -> {"off", "subscribed", "live"}]
      /\ announced \subseteq messages
      /\ \A a \in Follower : a # c => conn'[a] = conn[a] /\ replay'[a] = replay[a]
      /\ replay'[c] = RowsToReplay(c)
  BY <1>1 DEF StreamIInv, StreamTypeOK, StoredInv
<1>4. ASSUME c \in Resuming, ~lagged[c], NEW m \in messages, m.to = c
      PROVE  Settled(c, m) \/ Doomed(m) \/ m \in replay'[c]
  <2>1. After(c, m) => m \in RowsToReplay(c)
    BY <1>4 DEF After, RowsToReplay, Resuming
  <2> QED
    BY <1>3, <1>4, <2>1 DEF StreamIInv, ResumeInv
<1>5. ComingInv'
  <2> SUFFICES ASSUME NEW a \in Resuming, conn'[a] = "live", ~lagged[a],
                      NEW m \in announced, m.to = a
               PROVE  \/ Settled(a, m)
                      \/ m \in replay'[a]
                      \/ \E i \in next[a]..Len(sent) : sent[i] = m
    BY <1>1 DEF ComingInv, Settled
  <2>1. CASE a = c
    BY <1>3, <1>4, <2>1 DEF Doomed
  <2>2. CASE a # c
    BY <1>3, <2>2 DEF StreamIInv, ComingInv, Resuming
  <2> QED
    BY <2>1, <2>2
<1>6. ReplayInv'
  <2> SUFFICES ASSUME NEW a \in Resuming, conn'[a] = "live", ~lagged[a],
                      NEW n \in replay'[a], NEW m \in messages, m.to = a
               PROVE  \/ Settled(a, m) \/ Doomed(m)
                      \/ m \in replay'[a]
                      \/ m.at > n.at
    BY <1>1 DEF ReplayInv, Settled, Doomed
  <2>1. CASE a = c
    BY <1>4, <2>1
  <2>2. CASE a # c
    BY <1>3, <2>2 DEF StreamIInv, ReplayInv, Resuming
  <2> QED
    BY <2>1, <2>2
<1> QED
  BY <1>2, <1>5, <1>6 DEF MissInv

\* What a client handles is not missing, and may be the earliest of its
\* replay or the next in the channel.
LEMMA YieldReplayMisses ==
    ASSUME StreamIInv, NEW c \in Follower, YieldReplay(c)
    PROVE  MissInv'
<1>1. PICK m0 \in replay[c] :
         /\ \A n \in replay[c] : m0.at <= n.at
         /\ replay' = [replay EXCEPT ![c] = @ \ {m0}]
         /\ Deliver(c, m0)
  BY DEF YieldReplay
<1>2. UNCHANGED <<messages, sent, conn, next, lagged, announced, overtaken>>
      /\ conn[c] = "live"
  BY DEF YieldReplay, historyVars
<1>3. /\ \A a \in Follower : received[a] \subseteq received'[a]
      /\ \A a \in Follower : a # c => last'[a] = last[a]
      /\ c \in Resuming => last'[c] = m0 /\ m0 \in received'[c]
  BY <1>1, DeliverHandles DEF StreamIInv
<1>4. /\ \A a \in Follower : a # c => replay'[a] = replay[a]
      /\ replay'[c] = replay[c] \ {m0}
      /\ replay[c] \subseteq messages
      /\ messages \subseteq Message
      /\ \A n \in Message : n.at \in Nat
  BY <1>1 DEF StreamIInv, StreamTypeOK, StoredInv, Rows, Message
<1>5. \A a \in Follower : \A m : Settled(a, m) => Settled(a, m)'
  BY <1>2, <1>3, SettledStays
<1>6. \A m : Doomed(m) => Doomed(m)'
  BY <1>2 DEF Doomed
<1>7. ResumeInv'
  <2> SUFFICES ASSUME NEW a \in Resuming, ~lagged[a],
                      NEW m \in messages, m.to = a
               PROVE  Settled(a, m)' \/ Doomed(m)' \/ After(a, m)'
    BY <1>2 DEF ResumeInv
  <2>0. a \in Follower
    BY DEF Resuming
  <2>1. CASE a = c
    <3>1. Settled(c, m) \/ Doomed(m) \/ m \in replay[c] \/ m.at > m0.at
      BY <1>1, <1>2, <2>1 DEF StreamIInv, ReplayInv
    <3>2. CASE m \in replay[c]
      <4>1. m.at > m0.at \/ m.at = m0.at
        BY <1>1, <1>4, <3>2
      <4>2. m.at = m0.at => Settled(c, m)'
        BY <1>3, <2>1 DEF Settled
      <4>3. m.at > m0.at => After(c, m)'
        BY <1>3, <2>1 DEF After
      <4> QED
        BY <2>1, <4>1, <4>2, <4>3
    <3>3. CASE m.at > m0.at
      BY <1>3, <2>1, <3>3 DEF After
    <3> QED
      BY <1>5, <1>6, <2>1, <3>1, <3>2, <3>3
  <2>2. CASE a # c
    BY <1>3, <1>5, <1>6, <2>0, <2>2 DEF StreamIInv, ResumeInv, After
  <2> QED
    BY <2>1, <2>2
<1>8. ComingInv'
  <2> SUFFICES ASSUME NEW a \in Resuming, conn[a] = "live", ~lagged[a],
                      NEW m \in announced, m.to = a
               PROVE  \/ Settled(a, m)'
                      \/ m \in replay'[a]
                      \/ \E i \in next[a]..Len(sent) : sent[i] = m
    BY <1>2 DEF ComingInv
  <2>0. a \in Follower
    BY DEF Resuming
  <2>1. \/ Settled(a, m) \/ m \in replay[a]
        \/ \E i \in next[a]..Len(sent) : sent[i] = m
    BY DEF StreamIInv, ComingInv
  <2>2. m \in replay[a] => m \in replay'[a] \/ Settled(a, m)'
    BY <1>3, <1>4, <2>0 DEF Settled
  <2> QED
    BY <1>5, <2>0, <2>1, <2>2
<1>9. ReplayInv'
  <2> SUFFICES ASSUME NEW a \in Resuming, conn[a] = "live", ~lagged[a],
                      NEW n \in replay'[a], NEW m \in messages, m.to = a
               PROVE  \/ Settled(a, m)' \/ Doomed(m)'
                      \/ m \in replay'[a]
                      \/ m.at > n.at
    BY <1>2 DEF ReplayInv
  <2>0. a \in Follower /\ n \in replay[a]
    BY <1>4 DEF Resuming
  <2>1. Settled(a, m) \/ Doomed(m) \/ m \in replay[a] \/ m.at > n.at
    BY <2>0 DEF StreamIInv, ReplayInv
  <2>2. m \in replay[a] => m \in replay'[a] \/ Settled(a, m)'
    BY <1>3, <1>4, <2>0 DEF Settled
  <2> QED
    BY <1>5, <1>6, <2>0, <2>1, <2>2
<1>10. OrderInv'
  BY <1>2 DEF StreamIInv, OrderInv
<1> QED
  BY <1>7, <1>8, <1>9, <1>10 DEF MissInv

LEMMA ForwardMisses ==
    ASSUME StreamIInv, NEW c \in Follower, Forward(c)
    PROVE  MissInv'
<1> DEFINE m0 == sent[next[c]]
<1>1. /\ conn[c] = "live" /\ replay[c] = {}
      /\ next' = [next EXCEPT ![c] = next[c] + 1]
      /\ m0.to = c => Deliver(c, m0)
      /\ m0.to # c => UNCHANGED <<received, last>>
      /\ UNCHANGED <<messages, sent, conn, replay, lagged, announced, overtaken>>
  BY DEF Forward, Receiving, clientVars, historyVars
<1>2. /\ next \in [Follower -> Nat \ {0}]
      /\ sent \in Seq(Message)
      /\ DOMAIN sent = 1..Len(sent) /\ Len(sent) \in Nat
      /\ next[c] \in 1..Len(sent)
  BY DEF StreamIInv, StreamTypeOK, Forward, Receiving
<1>3. /\ m0 \in announced
      /\ announced \subseteq messages
      /\ messages \subseteq Message
      /\ \A n \in Message : n.at \in Nat
  BY <1>2 DEF StreamIInv, StreamTypeOK, StoredInv, Elements, Message
<1>4. /\ \A a \in Follower : received[a] \subseteq received'[a]
      /\ \A a \in Follower : a # c => last'[a] = last[a]
      /\ \/ last'[c] = last[c]
         \/ m0.to = c /\ last'[c] = m0
      /\ c \in Resuming /\ m0.to = c => last'[c] = m0 /\ m0 \in received'[c]
  <2>1. CASE m0.to = c
    <3>1. StreamTypeOK /\ Deliver(c, m0)
      BY <1>1, <2>1 DEF StreamIInv
    <3>2. CASE c \in Resuming
      BY <2>1, <3>1, <3>2, DeliverHandles
    <3>3. CASE c \notin Resuming
      <4>1. last' = last
        BY <3>1, <3>3 DEF Deliver, Resuming
      <4> QED
        BY <3>1, <3>3, <4>1, DeliverHandles
    <3> QED
      BY <3>2, <3>3
  <2>2. CASE m0.to # c
    BY <1>1, <2>2
  <2> QED
    BY <2>1, <2>2
<1>5. \A a \in Follower : \A m : Settled(a, m) => Settled(a, m)'
  BY <1>1, <1>4, SettledStays
<1>6. \A m : Doomed(m) => Doomed(m)'
  BY <1>1 DEF Doomed
\* What is further on in the channel.
<1>7. ASSUME c \in Resuming, NEW m, m.to = c,
             NEW i \in next[c]..Len(sent), sent[i] = m
      PROVE  \/ Settled(c, m)'
             \/ i \in next'[c]..Len(sent) /\ m0.to = c /\ m.at > m0.at
             \/ i \in next'[c]..Len(sent) /\ m0.to # c
  <2>1. next'[c] = next[c] + 1
    BY <1>1, <1>2
  <2>2. CASE i = next[c]
    BY <1>4, <1>7, <2>2 DEF Settled
  <2>3. CASE i # next[c] /\ m0.to # c
    BY <1>2, <2>1, <2>3
  <2>4. CASE i # next[c] /\ m0.to = c
    <3>1. i \in DOMAIN sent /\ next[c] \in 1..(i - 1)
      BY <1>2, <2>4
    <3>2. m \in overtaken \/ m0.at < m.at
      BY <1>7, <2>4, <3>1 DEF StreamIInv, OrderInv
    <3>3. m \in overtaken => Settled(c, m)'
      BY <1>1 DEF Settled
    <3>4. m \in Message /\ m0 \in Message
      BY <1>2, <1>7, <3>1
    <3> QED
      BY <1>2, <1>3, <2>1, <2>4, <3>2, <3>3, <3>4
  <2> QED
    BY <2>2, <2>3, <2>4
<1>8. ResumeInv'
  <2> SUFFICES ASSUME NEW a \in Resuming, ~lagged[a],
                      NEW m \in messages, m.to = a
               PROVE  Settled(a, m)' \/ Doomed(m)' \/ After(a, m)'
    BY <1>1 DEF ResumeInv
  <2>0. /\ a \in Follower
        /\ Settled(a, m) \/ Doomed(m) \/ After(a, m)
    BY DEF Resuming, StreamIInv, ResumeInv
  <2>1. CASE a = c /\ m0.to = c
    <3>1. CASE m \in announced
      <4>1. Settled(c, m) \/ \E i \in next[c]..Len(sent) : sent[i] = m
        BY <1>1, <2>1, <3>1 DEF StreamIInv, ComingInv
      <4>2. ASSUME NEW i \in next[c]..Len(sent), sent[i] = m
            PROVE  Settled(c, m)' \/ m.at > m0.at
        BY <1>7, <2>1, <4>2
      <4>3. m.at > m0.at => After(c, m)'
        BY <1>4, <2>1 DEF After
      <4> QED
        BY <1>5, <2>0, <2>1, <4>1, <4>2, <4>3
    <3>2. CASE m \notin announced
      <4>1. m.at \in Nat /\ m0.at \in Nat
        BY <1>3
      <4>2. CASE m0.at >= m.at
        BY <1>1, <1>3, <2>1, <3>2, <4>2 DEF Doomed
      <4>3. CASE m.at > m0.at
        BY <1>4, <2>1, <4>3 DEF After
      <4> QED
        BY <4>1, <4>2, <4>3
    <3> QED
      BY <3>1, <3>2
  <2>2. CASE a # c \/ m0.to # c
    <3>1. last'[a] = last[a]
      BY <1>4, <2>0, <2>2
    <3> QED
      BY <1>5, <1>6, <2>0, <3>1 DEF After
  <2> QED
    BY <2>1, <2>2
<1>9. ComingInv'
  <2> SUFFICES ASSUME NEW a \in Resuming, conn[a] = "live", ~lagged[a],
                      NEW m \in announced, m.to = a
               PROVE  \/ Settled(a, m)'
                      \/ m \in replay[a]
                      \/ \E i \in next'[a]..Len(sent) : sent[i] = m
    BY <1>1 DEF ComingInv
  <2>0. /\ a \in Follower
        /\ \/ Settled(a, m) \/ m \in replay[a]
           \/ \E i \in next[a]..Len(sent) : sent[i] = m
    BY DEF Resuming, StreamIInv, ComingInv
  <2>1. CASE a = c
    <3>1. ASSUME NEW i \in next[c]..Len(sent), sent[i] = m
          PROVE  Settled(c, m)' \/ i \in next'[c]..Len(sent)
      BY <1>7, <2>1, <3>1
    <3> QED
      BY <1>5, <2>0, <2>1, <3>1
  <2>2. CASE a # c
    BY <1>1, <1>2, <1>5, <2>0, <2>2
  <2> QED
    BY <2>1, <2>2
<1>10. ReplayInv'
  BY <1>1, <1>5, <1>6 DEF StreamIInv, ReplayInv, Resuming
<1>11. OrderInv'
  BY <1>1 DEF StreamIInv, OrderInv
<1> QED
  BY <1>8, <1>9, <1>10, <1>11 DEF MissInv

\* Every step keeps what a client misses on its way, or within the replay of
\* its next connection.
LEMMA MissStep ==
    ASSUME StreamIInv, [Next]_vars
    PROVE  MissInv'
<1> USE DEF StreamIInv
<1>1. ASSUME UNCHANGED <<messages, sent, announced, overtaken, conn, next,
                         replay, lagged>>,
             UNCHANGED <<received, last>>
      PROVE  MissInv'
  BY <1>1 DEF MissInv, ResumeInv, ComingInv, ReplayInv, OrderInv, Settled,
              Doomed, After
<1>2. ASSUME NEW r \in Request, Address(r) \/ Broadcast(r) \/ Stamp(r) \/ Fail(r)
      PROVE  MissInv'
  BY <1>1, <1>2 DEF Address, Broadcast, Stamp, Fail, clientVars, historyVars
<1>3. ASSUME NEW a \in Follower, KeepAlive(a)
      PROVE  MissInv'
  BY <1>1, <1>3 DEF KeepAlive, historyVars
<1>4. ASSUME NEW a \in Follower, ReadChunk(a)
      PROVE  MissInv'
  <2>1. /\ \A b \in Resuming : received'[b] = received[b] /\ last'[b] = last[b]
        /\ UNCHANGED <<messages, sent, announced, overtaken, conn, next,
                       replay, lagged>>
    BY <1>4 DEF ReadChunk, Resuming, historyVars, StreamTypeOK
  <2> QED
    BY <2>1 DEF MissInv, ResumeInv, ComingInv, ReplayInv, OrderInv, Settled,
                Doomed, After
<1>5. ASSUME NEW a \in Follower, Connect(a) \/ Disconnect(a)
      PROVE  MissInv'
  <2>1. /\ \A b \in Follower :
              conn'[b] = "live" =>
                  /\ conn[b] = "live"
                  /\ next'[b] = next[b]
                  /\ replay'[b] = replay[b]
        /\ UNCHANGED <<messages, sent, announced, overtaken, lagged, received,
                       last>>
    BY <1>5 DEF Connect, Disconnect, clientVars, historyVars, StreamTypeOK
  <2> QED
    BY <2>1 DEF MissInv, ResumeInv, ComingInv, ReplayInv, OrderInv, Settled,
                Doomed, After, Resuming
<1>6. ASSUME NEW a \in Follower, Lag(a)
      PROVE  MissInv'
  <2>1. /\ \A b \in Follower :
              ~lagged'[b] => ~lagged[b] /\ next'[b] = next[b]
        /\ UNCHANGED <<messages, sent, announced, overtaken, conn, replay,
                       received, last>>
    BY <1>6 DEF Lag, historyVars, StreamTypeOK
  <2> QED
    BY <2>1 DEF MissInv, ResumeInv, ComingInv, ReplayInv, OrderInv, Settled,
                Doomed, After, Resuming
<1>7. ASSUME Restart
      PROVE  MissInv'
  <2>1. /\ \A b \in Follower : conn'[b] = "off"
        /\ sent' = <<>>
        /\ UNCHANGED <<messages, announced, overtaken, lagged, received, last>>
    BY <1>7 DEF Restart, DropHandlers, historyVars
  <2> QED
    BY <2>1 DEF MissInv, ResumeInv, ComingInv, ReplayInv, OrderInv, Settled,
                Doomed, After, Resuming
<1>8. ASSUME UNCHANGED vars
      PROVE  MissInv'
  BY <1>1, <1>8 DEF vars, clientVars, historyVars
<1> QED
  BY <1>2, <1>3, <1>4, <1>5, <1>6, <1>7, <1>8, InsertMisses, AnnounceMisses,
     ReadReplayMisses, YieldReplayMisses, ForwardMisses DEF Next
-----------------------------------------------------------------------------
(***************************************************************************)
(* The theorems.                                                           *)
(***************************************************************************)

\* The invariant holds at first, with no handler and no client.
LEMMA StreamInit ==
    ASSUME Init
    PROVE  StreamIInv
<1> USE StreamAssumption DEF Init, StreamAssumption
<1>1. StreamTypeOK
  BY DEF StreamTypeOK
<1>2. StoredInv /\ ReceivedIsStored
  BY DEF StoredInv, ReceivedIsStored, Elements, Rows
<1>3. ResumeInv /\ ComingInv /\ ReplayInv /\ OrderInv
  BY DEF ResumeInv, ComingInv, ReplayInv, OrderInv, Resuming
<1> QED
  BY <1>1, <1>2, <1>3 DEF StreamIInv

\* The inductive invariant StreamIInv of the handlers and streams.
THEOREM StreamInductive == Spec => []StreamIInv
<1>1. Init => StreamIInv
  BY StreamInit
<1>2. StreamIInv /\ [Next]_vars => StreamIInv'
  <2> SUFFICES ASSUME StreamIInv, [Next]_vars
               PROVE  StreamIInv'
    OBVIOUS
  <2>1. StreamTypeOK'
    BY TypeStep DEF StreamIInv
  <2>2. StoredInv' /\ ReceivedIsStored'
    BY StoredStep DEF StreamIInv
  <2>3. MissInv'
    BY MissStep
  <2> QED
    BY <2>1, <2>2, <2>3 DEF StreamIInv, MissInv
<1> QED
  BY <1>1, <1>2, PTL DEF Spec

\* The variables keep their types (StreamTypeOK).
THEOREM StreamTypeCorrect == Spec => []StreamTypeOK
<1>1. StreamIInv => StreamTypeOK
  BY DEF StreamIInv
<1> QED
  BY <1>1, StreamInductive, PTL

\* What a client handles is a row addressed to it (ReceivedIsStored), however
\* handlers interleave, fail, and are dropped when the hub restarts.
THEOREM ReceivedStored == Spec => []ReceivedIsStored
<1>1. StreamIInv => ReceivedIsStored
  BY DEF StreamIInv
<1> QED
  BY <1>1, StreamInductive, PTL

\* A client that comes back with last_event_id, and has not lagged, misses
\* only what was overtaken (ResumeMissesOnlyOvertaken).
THEOREM ResumeLosesNothing == Spec => []ResumeMissesOnlyOvertaken
<1>1. StreamIInv => ResumeMissesOnlyOvertaken
  <2> SUFFICES ASSUME StreamIInv, NEW a \in Resuming, Drained(a), ~lagged[a],
                      NEW m \in announced, m.to = a
               PROVE  Settled(a, m)
    BY DEF ResumeMissesOnlyOvertaken
  <2>1. \/ Settled(a, m) \/ m \in replay[a]
        \/ \E i \in next[a]..Len(sent) : sent[i] = m
    BY DEF StreamIInv, ComingInv, Drained
  <2>2. next[a] \in Nat /\ Len(sent) \in Nat
    BY DEF StreamIInv, StreamTypeOK, Resuming
  <2> QED
    BY <2>1, <2>2 DEF Drained
<1> QED
  BY <1>1, StreamInductive, PTL
=============================================================================
