----------------------------- MODULE ApprovalGate -----------------------------
(***************************************************************************)
(* What the program promises to the pipeline that calls it: it gathers     *)
(* evidence (a plan, the entities and the rules that protect or exempt     *)
(* them) and then decides once. It lets the plan be applied only if no     *)
(* change of a known entity needs approval, asks for approval only if one  *)
(* does, and does neither for a plan of another code base. It may refuse   *)
(* at any time. The rules are stated on the changes as the plan lists      *)
(* them, without types of diffs, pairs or outcomes.                        *)
(***************************************************************************)
EXTENDS Terraform, Sequences

VARIABLES
  evidence,   \* Undefined, or [mode, changes, entities, rules]
  decision    \* "pending", "apply", "approve" or "refuse"

vars == <<evidence, decision>>

nameInPlan ==
  [CREATE |-> "create", UPDATE_IN_PLACE |-> "update", DELETE |-> "delete"]

performedActions(change) ==
  {action \in Action :
     \E i \in DOMAIN change.actions : change.actions[i] = nameInPlan[action]}

\* A change inside a module is the concern of the module called in the root.
concerns(entity, change) ==
  IF change.module_address \in {Undefined, Null, <<>>}
    THEN /\ entity.entityInfo.internalType = "plain_resource"
         /\ entity.entityInfo.providerType = change.type
         /\ entity.entityInfo.userProvidedName = change.name
    ELSE /\ entity.entityInfo.internalType = "module"
         /\ entity.entityInfo.userProvidedName = change.module_address[2]

concerned(change) == {entity \in evidence.entities : concerns(entity, change)}

isKnown(change) == concerned(change) # {}

-----------------------------------------------------------------------------
protects(actions, change) ==
  \/ actions = Undefined
  \/ actions # Null /\ performedActions(change) \cap actions # {}

matches(matchers, change, P(_, _)) ==
  /\ matchers # Undefined
  /\ \E i \in DOMAIN matchers :
       matchers[i].providerType = change.type /\ P(matchers[i].actions, change)

isProtected(change) ==
  \/ /\ evidence.rules.requireApprovalActions # Undefined
     /\ protects(evidence.rules.requireApprovalActions, change)
  \/ matches(evidence.rules.requireApprovalItems, change, protects)
  \/ \E entity \in concerned(change) :
       /\ entity.decorator.type = "manual_approval"
       /\ protects(entity.decorator.matchActions, change)

covers(actions, change) ==
  \/ actions = Undefined
  \/ actions # Null /\ performedActions(change) \subseteq actions

exemptActions(change) ==
  {action \in Action :
     \/ /\ evidence.rules.safeToApplyActions # Undefined
        /\ action \in evidence.rules.safeToApplyActions
     \/ \E entity \in concerned(change) :
          /\ entity.decorator.type = "safe_to_apply"
          /\ entity.decorator.matchActions \notin {Undefined, Null}
               => action \in entity.decorator.matchActions}

isExempt(change) ==
  \/ matches(evidence.rules.safeToApplyItems, change, covers)
  \/ performedActions(change) \subseteq exemptActions(change)

needsApproval(change) ==
  IF evidence.mode = "require_approval" THEN isProtected(change) ELSE ~ isExempt(change)

\* Only deletions may concern what the code base does not know.
isPlanOfCodeBase ==
  \A change \in evidence.changes :
    isKnown(change) \/ performedActions(change) = {"DELETE"}

-----------------------------------------------------------------------------
Init == evidence = Undefined /\ decision = "pending"

Gather ==
  /\ decision = "pending" /\ evidence = Undefined
  /\ evidence' # Undefined
  /\ UNCHANGED decision

Apply ==
  /\ decision = "pending" /\ evidence # Undefined
  /\ isPlanOfCodeBase
  /\ \A change \in evidence.changes : isKnown(change) => ~ needsApproval(change)
  /\ decision' = "apply"
  /\ UNCHANGED evidence

Approve ==
  /\ decision = "pending" /\ evidence # Undefined
  /\ isPlanOfCodeBase
  /\ \E change \in evidence.changes : isKnown(change) /\ needsApproval(change)
  /\ decision' = "approve"
  /\ UNCHANGED evidence

Refuse ==
  /\ decision = "pending"
  /\ decision' = "refuse"
  /\ UNCHANGED evidence

Next == Gather \/ Apply \/ Approve \/ Refuse

Spec == Init /\ [][Next]_vars
=============================================================================
