---------------------------- MODULE MCHubStream ----------------------------
(***************************************************************************)
(* resume: a client that comes back with last_event_id, and three messages *)
(* to it, so that two may overtake each other while a third is delivered.  *)
(*                                                                         *)
(* watch: a client that watches, a broadcast to it and another agent, and  *)
(* a message to it.                                                        *)
(***************************************************************************)
EXTENDS HubStreamProperties

CONSTANTS ann, bob, toall, first, second, third

Agents    == {ann, bob}
Followers == {ann}
Nobody    == {}
ToAnn     == {first, second, third}
Messages  == {toall, first}
ResumeAudience == [r \in ToAnn |-> {ann}]
WatchAudience  == [r \in Messages |-> IF r = toall THEN Agents ELSE {ann}]
ToOne     == {first}
=============================================================================
