------------------------------- MODULE MCHost -------------------------------
(***************************************************************************)
(* Small instances of module Host.                                         *)
(***************************************************************************)
EXTENDS Host, TLC

CONSTANTS
    s1, s2, s3, c1, c2, k1, k2, w1, a1, m1, m2, m3, x1, x2

\* Two branches that merge, one that conflicts, one with nothing to merge.
MCBranch == (s1 :> "clean") @@ (s2 :> "conflict") @@ (s3 :> "current")

\* Two children of one agent, two commands and one waiter.
MCAgentOf == (c1 :> a1) @@ (c2 :> a1)
             @@ (k1 :> a1) @@ (k2 :> a1) @@ (w1 :> a1)

\* Two starts and two shutdowns of one shared server, one isolated server.
MCNameOf == (m1 :> "docs") @@ (m2 :> "docs") @@ (m3 :> "git")
            @@ (x1 :> "docs") @@ (x2 :> "docs")
=============================================================================
