---------------------------- MODULE FailurePolicy ----------------------------
(***************************************************************************)
(* What the section on_failure of a workflow file asks for: the failure    *)
(* action of each role, which is constant Policy of module Pipeline.       *)
(*                                                                         *)
(* A value is written as a word, or as retry(<n>), where <n> may be no      *)
(* number.                                                                 *)
(***************************************************************************)
EXTENDS Integers

\* The n of what stands in the brackets when it is no number, or none of 32 bits.
NoNumber == -1

Written(word) == [word |-> word, n |-> 0]
Retries(n)    == [word |-> "retry", n |-> n]

Absent == [word |-> "absent", n |-> 0]

\* parse_failure_action: what is no number counts as 1, a word that is not
\* known as "fail".
ParseFailureAction(s) ==
    CASE s.word = "retry" ->
            [kind |-> "retry", retries |-> IF s.n # NoNumber THEN s.n ELSE 1]
      [] s.word \in {"skip", "ask_user"} -> [kind |-> s.word, retries |-> 0]
      [] OTHER -> [kind |-> "fail", retries |-> 0]

\* failure_action_for_role: the override of the role, the default, or one retry.
\* A file without the section has neither.
FailureActionForRole(section, role) ==
    IF role \in DOMAIN section.overrides
    THEN ParseFailureAction(section.overrides[role])
    ELSE IF section.default # Absent
    THEN ParseFailureAction(section.default)
    ELSE [kind |-> "retry", retries |-> 1]
=============================================================================
