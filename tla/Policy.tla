------------------------------- MODULE Policy -------------------------------
(***************************************************************************)
(* The policy engine (policy.Engine.Evaluate) and the risk classes of the  *)
(* action catalog it consults, as operators.                               *)
(*                                                                         *)
(* An input has the actor's role, whether the incident's environment is    *)
(* one of the engine's, the catalog's risk of the action, the risk the     *)
(* proposal asks for, whether target and parameters pass actions.Validate, *)
(* and the history of the same action on the incident.  "none" is the      *)
(* empty string: no role, an action that is not registered, no request.    *)
(***************************************************************************)
EXTENDS Integers

Risks == {"low", "medium", "high"}
Roles == {"viewer", "operator", "none"}

riskRank(r) == CASE r = "low" -> 1 [] r = "medium" -> 2 [] r = "high" -> 3 [] OTHER -> 0

\* Mutant: the proposal decides alone.
EffectiveRiskAsRequested(catalog, requested) ==
    IF requested = "none" THEN catalog ELSE requested

EffectiveRisk(catalog, requested) ==
    CASE requested = "none" -> catalog
      [] requested \in Risks /\ riskRank(catalog) > riskRank(requested) -> catalog
      [] OTHER -> requested

IsRegistered(catalog) == catalog # "none"

\* The early returns deny, and ask for approval; so does any other risk.
Evaluate(input) ==
    LET risk == EffectiveRisk(input.catalog, input.requested)
        unauthorised == input.role \in {"viewer", "none"} \/ ~input.enabled
        repeated == input.recent >= 2 \/ input.failed >= 2
        allow == /\ ~unauthorised /\ IsRegistered(input.catalog) /\ ~repeated /\ input.valid
                 /\ risk \in {"low", "medium"}
    IN  [allow |-> allow, approval |-> ~(allow /\ risk = "low"),
         risk |-> IF unauthorised THEN "none" ELSE risk]

=============================================================================
