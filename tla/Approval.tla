------------------------------ MODULE Approval ------------------------------
(***************************************************************************)
(* Whether an Act may start: the two policies of the configuration, and    *)
(* the decisions that the policy Lens (src/lenses/fallen) records for the  *)
(* Acts these policies ask about.                                          *)
(*                                                                         *)
(* A policy is [rules, default, approvals]; a rule holds the Act kinds it  *)
(* matches (targets, trust, paths, times and parameters select among Acts  *)
(* in the same way) and its effect.  The argument of a decision binds the  *)
(* Act, the generation of its target (which stands for the epoch too), the *)
(* scope, the approver and the approvers required.                         *)
(***************************************************************************)
EXTENDS RayPhotons

CONSTANTS
    UserPolicy,
    ProjectPolicies,    \* {} when the project configures none, else one policy
    RiskOf              \* the risk class of each kind of Act

\* evaluate_single_policy: deny, then allow, then ask; a risk that needs approval
\* turns every permission into a question.
EvaluateSingle(policy, kind) ==
    LET effects == {r.effect : r \in {s \in policy.rules : kind \in s.acts}}
        result == CASE "deny" \in effects  -> "deny"
                    [] "allow" \in effects -> "allow"
                    [] "ask" \in effects   -> "ask"
                    [] OTHER               -> policy.default
    IN  IF result # "deny" /\ RiskOf[kind] \in policy.approvals THEN "ask" ELSE result

\* Neither policy can widen what the other grants.
EvaluatePolicy(kind) ==
    LET verdicts == {EvaluateSingle(p, kind) : p \in {UserPolicy} \cup ProjectPolicies}
    IN  CASE "deny" \in verdicts -> "deny"
          [] "ask" \in verdicts  -> "ask"
          [] OTHER               -> "allow"

Decisions == {"approval.granted", "approval.denied"}

\* An exact decision names the Act, a session decision its kind and target.
Binds(decision, act, kind, generation) ==
    /\ \/ decision.act = act
       \/ decision.scope = "session" /\ decision.kind = kind
    /\ decision.generation = generation

\* Mutant: a one-shot grant is never used up.
DecidedForEver(log, act, kind, generation, expired) ==
    LET binding == {i \in Positions(log, Decisions) \ expired :
                        Binds(log[i].arg, act, kind, generation)}
    IN  IF binding = {} THEN "ask"
        ELSE IF log[Max(binding)].kind = "approval.denied" THEN "deny" ELSE "allow"

\* The last decision that binds the Act and has not expired; a one-shot grant is
\* used up by an admission of the same Act that follows it.
Decided(log, act, kind, generation, expired) ==
    LET binding == {i \in Positions(log, Decisions) \ expired :
                        Binds(log[i].arg, act, kind, generation)}
        last == Max(binding)
        used == \E j \in StartsOf(log, act) : j > last
    IN  IF binding = {} THEN "ask"
        ELSE IF log[last].kind = "approval.denied" THEN "deny"
        ELSE IF log[last].arg.scope = "one_shot" /\ used THEN "ask"
        ELSE "allow"

\* The admission callback of the runtime.
Admitted(log, act, kind, generation, expired) ==
    LET verdict == EvaluatePolicy(kind)
    IN  \/ verdict = "allow"
        \/ verdict = "ask" /\ Decided(log, act, kind, generation, expired) = "allow"

\* FallenLens::refract: a grant counts once every required approver has given
\* one; until then it is recorded as a stage.  Nothing ever uses up a stage.
FallenEmits(log, approved, decision) ==
    LET stages == {i \in Positions(log, {"approval.stage-granted"}) :
                      /\ log[i].arg.act = decision.act
                      /\ log[i].arg.generation = decision.generation}
        approvers == {log[i].arg.approver : i \in stages} \cup {decision.approver}
    IN  Said(CASE ~approved -> "approval.denied"
               [] decision.required \subseteq approvers -> "approval.granted"
               [] OTHER -> "approval.stage-granted", decision)
=============================================================================
