---------------------------- MODULE RuntimeOutput ----------------------------
(***************************************************************************)
(* How the end of an agent's process becomes the health of its attempt,    *)
(* constant Outcomes of module Pipeline.  Only what the agent wrote, on    *)
(* either stream and in any case, and its exit code count; a process ended *)
(* by a signal has no code.                                                *)
(***************************************************************************)
EXTENDS Integers

RateLimitWords == {"rate limit", "rate_limit", "too many requests", "429"}
AuthWords      == {"auth", "unauthorized", "invalid api key", "401"}

NoCode == -1

\* Of the words, one of each set stands for the others.
Ending == [code : {NoCode, 0, 1}, says : SUBSET {"rate limit", "auth"}]

\* classify_output: the words come first, whatever the exit code.
ClassifyOutput(e) ==
    CASE e.says \cap RateLimitWords # {} -> "rate_limited"
      [] e.says \cap RateLimitWords = {} /\ e.says \cap AuthWords # {} -> "auth_expired"
      [] e.says \cap (RateLimitWords \cup AuthWords) = {} /\ e.code \notin {NoCode, 0} -> "crashed"
      [] OTHER -> "healthy"
=============================================================================
