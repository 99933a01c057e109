----------------------------- MODULE SessionSharing -----------------------------
(***************************************************************************)
(* What the engine promises about the work of one session: imports and     *)
(* profiles have the session to themselves, queries and exports share it.  *)
(* A readers-writers rule, without registries, threads or requests.        *)
(*                                                                         *)
(* EngineWork implements this module.                                      *)
(***************************************************************************)
CONSTANTS
    Sessions,
    Exclusives,     \* work that tolerates no other: imports and profiles
    Shared          \* work that tolerates its own kind: queries and exports

VARIABLE at         \* at[s]: the work admitted to session s and not yet over

Init == at = [s \in Sessions |-> {}]

Enter(s, w) ==
    /\ w \in Exclusives => at[s] = {}
    /\ at[s] \cap Exclusives = {}
    /\ at' = [at EXCEPT ![s] = @ \cup {w}]

Leave(s, w) == w \in at[s] /\ at' = [at EXCEPT ![s] = @ \ {w}]

Next ==
    \E s \in Sessions :
        \/ \E w \in (Exclusives \cup Shared) \cap (at'[s] \ at[s]) : Enter(s, w)
        \/ \E w \in at[s] \ at'[s] : Leave(s, w)

Spec == Init /\ [][Next]_at

\* Exclusive work is alone in its session.
Exclusion ==
    \A s \in Sessions : \A w \in at[s] \cap Exclusives : at[s] = {w}
================================================================================
