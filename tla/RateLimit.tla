----------------------------- MODULE RateLimit -----------------------------
(***************************************************************************)
(* The hub's rate limit: one bucket for its one token, which counts the    *)
(* requests of a window that starts with the first request after the last  *)
(* window ended (check_rate_limit).                                        *)
(*                                                                         *)
(* The clock is read just before the bucket is locked; here both are one   *)
(* step, as a tick is far longer than the time between them.               *)
(***************************************************************************)
EXTENDS Integers, Sequences

CONSTANTS
    WINDOW,          \* its length in ticks
    MAX_REQUESTS     \* the requests it admits

ASSUME WindowAssumption == WINDOW \in Nat \ {0}
ASSUME MaxRequestsAssumption == MAX_REQUESTS \in Nat \ {0}

VARIABLES
    now,        \* the monotonic clock
    bucket,     \* RateBucket: when its window started, and the requests since;
                \* before the first request there is none, a window long past
    admitted    \* history: when this process admitted each request

limitVars == <<now, bucket, admitted>>

NoBucket == [window_started |-> -WINDOW, count |-> 0]

LimitInit == now = 0 /\ bucket = NoBucket /\ admitted = <<>>

\* Current, had the start of the window been left as it is.
CurrentBug ==
    IF now - bucket.window_started >= WINDOW
    THEN [window_started |-> bucket.window_started, count |-> 0]
    ELSE bucket

\* The bucket as a request finds it: a new one when the window is over.
Current ==
    IF now - bucket.window_started >= WINDOW
    THEN [window_started |-> now, count |-> 0]
    ELSE bucket

Counted == [Current EXCEPT !.count = @ + 1]

\* check_rate_limit returns Ok.
Admit ==
    /\ Counted.count <= MAX_REQUESTS
    /\ bucket' = Counted
    /\ admitted' = Append(admitted, now)
    /\ UNCHANGED now

\* It answers 429, and has counted the request.
Refuse ==
    /\ Counted.count > MAX_REQUESTS
    /\ bucket' = Counted
    /\ UNCHANGED <<now, admitted>>

Tick ==
    /\ now' = now + 1
    /\ UNCHANGED <<bucket, admitted>>

\* The table of buckets is in memory: another process of the hub starts empty.
Forget ==
    /\ bucket' = NoBucket
    /\ admitted' = <<>>
    /\ UNCHANGED now

LimitNext == Admit \/ Refuse \/ Tick \/ Forget

LimitSpec == LimitInit /\ [][LimitNext]_limitVars
-----------------------------------------------------------------------------
LimitTypeOK ==
    /\ now \in Nat
    /\ bucket \in [window_started : Int, count : Nat]
    /\ admitted \in Seq(Nat)

\* Around the end of a window twice the limit passes, and never more: of
\* 2 * MAX_REQUESTS + 1 requests that one process admits in a row, the first and
\* the last are at least a window apart.
BurstBound ==
    \A i \in 1 .. Len(admitted) - 2 * MAX_REQUESTS :
        admitted[i + 2 * MAX_REQUESTS] - admitted[i] >= WINDOW
=============================================================================
