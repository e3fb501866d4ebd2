---------------------------- MODULE MCSessions -----------------------------
(***************************************************************************)
(* One recognised agent a with a resource m and its helper h, an           *)
(* unrelated resource n, and an agent v that only its vendor registers.    *)
(***************************************************************************)
EXTENDS Sessions

CONSTANTS a, m, h, n, v

MCParent == [p \in Proc |-> CASE p = m -> a [] p = h -> m [] OTHER -> Nobody]
MCWorlds == {{a, m, h}, {a, n}, {v}}

\* In the end a session is open while its root lives and closed once it died, whichever
\* scan is applied last (apply_ownership, end_absent_sessions).
EndsMatchLives == DeadSessionsEnd /\ WrongEndHeals
=============================================================================
