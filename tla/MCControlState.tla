--------------------------- MODULE MCControlState ---------------------------
(* ControlState with two purges of one cache prefix and one flag toggle.   *)
EXTENDS ControlState

MCKeys == {"purge1", "purge2", "toggle"}
MCTargets == {"prefix", "flag"}
MCTargetOf == [k \in MCKeys |-> IF k = "toggle" THEN "flag" ELSE "prefix"]
MCFields == {"max_keys", "purge_token", "enabled"}
MCValues == {"100", "true"} \cup MCKeys
MCDesired ==
    [k \in MCKeys |->
        IF k = "toggle" THEN [enabled |-> "true"] ELSE [max_keys |-> "100", purge_token |-> k]]

\* The collisions that matter: a key with the target of another, and that
\* one's key with the first one's target.
HashColliding == [x \in MCKeys \cup MCTargets |->
    CASE x = "purge1" -> 1 [] x = "flag" -> 1 [] x = "toggle" -> 2 [] x = "prefix" -> 2 [] x = "purge2" -> 3]

=============================================================================
