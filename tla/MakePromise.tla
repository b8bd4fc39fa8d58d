---------------------------- MODULE MakePromise -----------------------------
(***************************************************************************)
(* What a parallel make promises: a rule is made only when everything it   *)
(* depends on has been made, it fails only through its own commands, with  *)
(* its dependencies made, or through a dependency that failed, and the     *)
(* make is over only when every target has been decided.                   *)
(***************************************************************************)
CONSTANT Rules

VARIABLES deps,          \* the set of rules each rule depends on
          goals,         \* the targets to decide
          made, failed,
          over

makeVars == <<deps, goals, made, failed, over>>

Init ==
    /\ deps \in [Rules -> SUBSET Rules]
    /\ goals \subseteq Rules
    /\ made = {} /\ failed = {}
    /\ over = FALSE

Make(r) ==
    /\ deps[r] \subseteq made
    /\ made' = made \cup {r}
    /\ UNCHANGED <<deps, goals, failed, over>>

Fail(r) ==
    /\ deps[r] \subseteq made \/ deps[r] \cap failed # {}
    /\ failed' = failed \cup {r}
    /\ UNCHANGED <<deps, goals, made, over>>

Finish ==
    /\ goals \subseteq made \cup failed
    /\ over' = TRUE
    /\ UNCHANGED <<deps, goals, made, failed>>

Next == (\E r \in Rules : Make(r) \/ Fail(r)) \/ Finish

Spec == Init /\ [][Next]_makeVars
=============================================================================
