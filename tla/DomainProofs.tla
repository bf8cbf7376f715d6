------------------------------ MODULE DomainProofs ------------------------------
(***************************************************************************)
(* Lemmas about the operators of the program that have no state: the       *)
(* search for decorators, the changes of a plan, and the outcomes of the   *)
(* two modes. The proofs about the scan and about the program cite them.   *)
(***************************************************************************)
EXTENDS PlanReader, ApprovalModes, SourceFile, WellFoundedInduction, TLAPS

\* The first of some indices, for the operators that look for one.
LEMMA LeastElement ==
  ASSUME NEW S \in SUBSET Nat, S # {}
  PROVE  \E n \in S : \A m \in S : n <= m
<1> DEFINE R == {ss \in Nat \X Nat : ss[1] < ss[2]}
<1>1. IsWellFoundedOn(R, Nat)
  BY NatLessThanWellFounded DEF OpToRel
<1>2. \A m, n \in Nat : m < n => <<m, n>> \in R
  OBVIOUS
<1> HIDE DEF R
<1>3. PICK n \in S : \A m \in S : ~ (<<m, n>> \in R)
  BY <1>1, WFMin
<1>4. ASSUME NEW m \in S
      PROVE  n <= m
  <2>1. ~ (m < n)
    BY <1>2, <1>3
  <2> QED
    BY <2>1
<1> QED
  BY <1>4

\* The last of the indices below another.
LEMMA GreatestBelow ==
  ASSUME NEW S \in SUBSET Nat, NEW i \in Nat, NEW k \in S, k < i
  PROVE  \E n \in S : n < i /\ \A m \in S : m < i => m <= n
<1> DEFINE D == {d \in Nat : i - d \in S /\ i - d < i}
<1>1. i - k \in D
  OBVIOUS
<1>2. PICK d \in D : \A e \in D : d <= e
  BY <1>1, LeastElement
<1>3. ASSUME NEW m \in S, m < i
      PROVE  m <= i - d
  <2>1. i - m \in D
    BY <1>3
  <2> QED
    BY <1>2, <2>1
<1> QED
  BY <1>2, <1>3

-----------------------------------------------------------------------------
(***************************************************************************)
(* The modes. `done` are the actions a change performs: none if the type   *)
(* of its diff is undefined. What a list of actions or of matchers demands *)
(* of a change is stated on them, and a mode's outcome, unless it throws,  *)
(* says whether the rules demand it.                                       *)
(***************************************************************************)
performs(diff, done) ==
  /\ diff.diffType \in DiffType \cup {Undefined}
  /\ done = IF diff.diffType = Undefined THEN {} ELSE mapDiffTypeToActions(diff.diffType)

touches(actions, done) ==
  \/ actions = Undefined
  \/ actions # Null /\ done \cap actions # {}

contains(actions, done) ==
  \/ actions = Undefined
  \/ actions # Null /\ done \subseteq actions

LEMMA DiffActions ==
  ASSUME NEW diff, NEW done, performs(diff, done)
  PROVE  /\ done \subseteq Action
         /\ diff.diffType = Undefined => mapDiffTypeToActions(diff.diffType) = Undefined
         /\ diff.diffType # Undefined =>
              /\ mapDiffTypeToActions(diff.diffType) = done
              /\ done # Undefined /\ done # Null
<1>1. done \subseteq Action
  BY AbsentValues DEF performs, mapDiffTypeToActions, DiffType, Action
<1>2. done # Undefined /\ done # Null
  BY <1>1, AbsentValues
<1> QED
  BY <1>1, <1>2, AbsentValues DEF performs, mapDiffTypeToActions, DiffType

\* Matchers tried in order, until one says yes or throws, answer yes only when one of
\* them does, and no only when all of them do.
LEMMA SomeOutcome ==
  ASSUME NEW n \in Nat, NEW outcomes \in [1 .. n -> Outcome]
  PROVE  /\ some(outcomes) \in Outcome
         /\ some(outcomes) = "yes" => \E i \in 1 .. n : outcomes[i] = "yes"
         /\ some(outcomes) = "no" => \A i \in 1 .. n : outcomes[i] = "no"
<1> DEFINE S == {i \in 1 .. n : outcomes[i] # "no"}
<1>1. CASE S = {}
  <2>1. ~ \E i \in DOMAIN outcomes : decides(outcomes, i)
    BY <1>1 DEF decides
  <2> QED
    BY <1>1, <2>1 DEF some, Outcome
<1>2. CASE S # {}
  <2>0. S \in SUBSET Nat
    OBVIOUS
  <2>1. PICK i \in S : \A j \in S : i <= j
    BY <1>2, <2>0, LeastElement
  <2>2. decides(outcomes, i) /\ i \in DOMAIN outcomes
    BY <2>1 DEF decides
  <2> DEFINE k == CHOOSE j \in DOMAIN outcomes : decides(outcomes, j)
  <2>3. k \in 1 .. n /\ decides(outcomes, k)
    BY <2>2
  <2>4. some(outcomes) = outcomes[k]
    BY <2>2 DEF some
  <2> HIDE DEF k
  <2> QED
    BY <2>3, <2>4 DEF decides
<1> QED
  BY <1>1, <1>2

LEMMA SomeIncluded ==
  ASSUME NEW items, NEW itemsToCheck
  PROVE  /\ isSomeItemIncluded(items, itemsToCheck) \in Outcome
         /\ isSomeItemIncluded(items, itemsToCheck) = "throws"
              <=> itemsToCheck \in {Undefined, Null} \/ items \in {Undefined, Null}
         /\ isSomeItemIncluded(items, itemsToCheck) = "yes"
              => itemsToCheck \cap items # {}
         /\ isSomeItemIncluded(items, itemsToCheck) = "no"
              => itemsToCheck \cap items = {}
BY DEF isSomeItemIncluded, Bool, Outcome

LEMMA AllIncluded ==
  ASSUME NEW items, NEW itemsToCheck
  PROVE  /\ areAllItemsIncluded(items, itemsToCheck) \in Outcome
         /\ areAllItemsIncluded(items, itemsToCheck) = "throws"
              <=> itemsToCheck = Undefined \/ items = Null
         /\ areAllItemsIncluded(items, itemsToCheck) = "yes"
              => itemsToCheck \subseteq items
         /\ areAllItemsIncluded(items, itemsToCheck) = "no"
              => ~ (itemsToCheck \subseteq items)
BY DEF areAllItemsIncluded, Bool, Outcome

-----------------------------------------------------------------------------
LEMMA RequireMatcher ==
  ASSUME NEW diff, NEW done, performs(diff, done), NEW matcher \in TerraformDiffMatcher
  PROVE  LET outcome == requireApprovalMatcher(matcher, diff)
             demanded == matcher.providerType = diff.providerType
                           /\ touches(matcher.actions, done)
         IN  outcome \in Outcome
             /\ (outcome = "yes" => demanded) /\ (outcome = "no" => ~ demanded)
<1> DEFINE inner == isSomeItemIncluded(mapDiffTypeToActions(diff.diffType), matcher.actions)
<1>1. /\ inner \in Outcome
      /\ inner = "yes" => touches(matcher.actions, done)
      /\ inner = "no" => matcher.actions # Undefined /\ ~ touches(matcher.actions, done)
  BY SomeIncluded, DiffActions DEF touches
<1> HIDE DEF inner
<1>2. requireApprovalMatcher(matcher, diff) =
        And(Bool(matcher.providerType = diff.providerType),
            IF matcher.actions = Undefined THEN "yes" ELSE inner)
  BY DEF requireApprovalMatcher, inner
<1> QED
  BY <1>1, <1>2 DEF And, Bool, Outcome, touches

LEMMA RequireMatchers ==
  ASSUME NEW configuration, configuration.global \in GlobalConfiguration,
         NEW diff, NEW done, performs(diff, done)
  PROVE  LET outcome == matchesRequireApprovalItems(configuration, diff)
             matchers == configuration.global.requireApprovalItems
             demanded == /\ matchers # Undefined
                         /\ \E i \in DOMAIN matchers :
                              /\ matchers[i].providerType = diff.providerType
                              /\ touches(matchers[i].actions, done)
         IN  outcome \in Outcome
             /\ (outcome = "yes" => demanded) /\ (outcome = "no" => ~ demanded)
<1> DEFINE matchers == configuration.global.requireApprovalItems
           outcomes == [i \in DOMAIN matchers |-> requireApprovalMatcher(matchers[i], diff)]
<1>1. CASE matchers = Undefined
  BY <1>1 DEF matchesRequireApprovalItems, Outcome
<1>2. CASE matchers # Undefined
  <2>1. matchers \in Seq(TerraformDiffMatcher)
    BY <1>2 DEF GlobalConfiguration
  <2>2. Len(matchers) \in Nat /\ DOMAIN matchers = 1 .. Len(matchers)
        /\ \A i \in DOMAIN matchers : matchers[i] \in TerraformDiffMatcher
    BY <2>1
  <2>3. \A i \in DOMAIN matchers :
          LET demanded == matchers[i].providerType = diff.providerType
                            /\ touches(matchers[i].actions, done)
          IN  outcomes[i] \in Outcome
              /\ (outcomes[i] = "yes" => demanded) /\ (outcomes[i] = "no" => ~ demanded)
    BY <2>2, RequireMatcher
  <2>4. outcomes \in [1 .. Len(matchers) -> Outcome]
    BY <2>2, <2>3
  <2>5. matchesRequireApprovalItems(configuration, diff) = some(outcomes)
    BY <1>2 DEF matchesRequireApprovalItems
  <2> HIDE DEF outcomes, matchers
  <2>6. /\ some(outcomes) \in Outcome
        /\ some(outcomes) = "yes" => \E i \in 1 .. Len(matchers) : outcomes[i] = "yes"
        /\ some(outcomes) = "no" => \A i \in 1 .. Len(matchers) : outcomes[i] = "no"
    BY <2>2, <2>4, SomeOutcome
  <2> QED
    BY <1>2, <2>2, <2>3, <2>5, <2>6 DEF matchers
<1> QED
  BY <1>1, <1>2

\* A change needs approval in the first mode if a rule or its entity says so.
LEMMA RequireOutcome ==
  ASSUME NEW configuration, configuration.global \in GlobalConfiguration,
         NEW diff, NEW done, performs(diff, done),
         NEW entity, entity.decorator \in DecoratorType
  PROVE  LET outcome == doesDiffRequireApproval(configuration, diff, entity)
             rules == configuration.global
             demanded ==
               \/ /\ rules.requireApprovalItems # Undefined
                  /\ \E i \in DOMAIN rules.requireApprovalItems :
                       /\ rules.requireApprovalItems[i].providerType = diff.providerType
                       /\ touches(rules.requireApprovalItems[i].actions, done)
               \/ /\ rules.requireApprovalActions # Undefined
                  /\ touches(rules.requireApprovalActions, done)
               \/ /\ entity.decorator.type = "manual_approval"
                  /\ touches(entity.decorator.matchActions, done)
         IN  outcome \in Outcome
             /\ (outcome = "yes" => demanded) /\ (outcome = "no" => ~ demanded)
<1> DEFINE rules == configuration.global
           A == matchesRequireApprovalItems(configuration, diff)
           B == doesContainActionThatAlwaysRequireApproval(configuration, diff.diffType)
           C == And(Bool(entity.decorator.type = "manual_approval"),
                    isDiffActionIncludedInEntityDecorator(entity.decorator, diff))
           byItems == /\ rules.requireApprovalItems # Undefined
                      /\ \E i \in DOMAIN rules.requireApprovalItems :
                           /\ rules.requireApprovalItems[i].providerType = diff.providerType
                           /\ touches(rules.requireApprovalItems[i].actions, done)
           byActions == /\ rules.requireApprovalActions # Undefined
                        /\ touches(rules.requireApprovalActions, done)
           byEntity == /\ entity.decorator.type = "manual_approval"
                       /\ touches(entity.decorator.matchActions, done)
<1>1. A \in Outcome /\ (A = "yes" => byItems) /\ (A = "no" => ~ byItems)
  BY RequireMatchers
<1>2. B \in Outcome /\ (B = "yes" => byActions) /\ (B = "no" => ~ byActions)
  <2>1. CASE rules.requireApprovalActions = Undefined
    BY <2>1 DEF doesContainActionThatAlwaysRequireApproval, Outcome
  <2>2. CASE rules.requireApprovalActions # Undefined
    <3>1. B = isSomeItemIncluded(rules.requireApprovalActions,
                                 mapDiffTypeToActions(diff.diffType))
      BY <2>2 DEF doesContainActionThatAlwaysRequireApproval
    <3>2. rules.requireApprovalActions \in SUBSET Action
      BY <2>2 DEF GlobalConfiguration
    <3>3. rules.requireApprovalActions # Null
      BY <3>2, AbsentValues
    <3> QED
      BY <2>2, <3>1, <3>3, SomeIncluded, DiffActions DEF touches
  <2> QED
    BY <2>1, <2>2
<1>3. C \in Outcome /\ (C = "yes" => byEntity) /\ (C = "no" => ~ byEntity)
  <2>1. CASE entity.decorator.type # "manual_approval"
    BY <2>1 DEF And, Bool, Outcome
  <2>2. CASE entity.decorator.type = "manual_approval"
    <3>1. C = isDiffActionIncludedInEntityDecorator(entity.decorator, diff)
      BY <2>2 DEF And, Bool
    <3>2. CASE entity.decorator.matchActions = Undefined
      BY <2>2, <3>1, <3>2 DEF isDiffActionIncludedInEntityDecorator, touches, Outcome
    <3>3. CASE entity.decorator.matchActions # Undefined
      <4>1. C = isSomeItemIncluded(entity.decorator.matchActions,
                                   mapDiffTypeToActions(diff.diffType))
        BY <2>2, <3>1, <3>3 DEF isDiffActionIncludedInEntityDecorator
      <4> QED
        BY <2>2, <3>3, <4>1, SomeIncluded, DiffActions DEF touches
    <3> QED
      BY <3>2, <3>3
  <2> QED
    BY <2>1, <2>2
<1>4. doesDiffRequireApproval(configuration, diff, entity) = Or(A, Or(B, C))
  BY DEF doesDiffRequireApproval
<1> HIDE DEF A, B, C, byItems, byActions, byEntity
<1>5. LET outcome == doesDiffRequireApproval(configuration, diff, entity)
          demanded == byItems \/ byActions \/ byEntity
      IN  outcome \in Outcome
          /\ (outcome = "yes" => demanded) /\ (outcome = "no" => ~ demanded)
  BY <1>1, <1>2, <1>3, <1>4 DEF Or, Outcome
<1> QED
  BY <1>5 DEF byItems, byActions, byEntity

-----------------------------------------------------------------------------
LEMMA SafeMatcher ==
  ASSUME NEW diff, NEW done, performs(diff, done), NEW matcher \in TerraformDiffMatcher
  PROVE  LET outcome == safeToApplyMatcher(matcher, diff)
             exempt == matcher.providerType = diff.providerType
                         /\ contains(matcher.actions, done)
         IN  outcome \in Outcome
             /\ (outcome = "yes" => exempt) /\ (outcome = "no" => ~ exempt)
<1> DEFINE inner == areAllItemsIncluded(matcher.actions, mapDiffTypeToActions(diff.diffType))
<1>1. matcher.actions # Undefined =>
        /\ inner \in Outcome
        /\ inner = "yes" => contains(matcher.actions, done)
        /\ inner = "no" => ~ contains(matcher.actions, done)
  BY AllIncluded, DiffActions DEF contains
<1> HIDE DEF inner
<1>2. safeToApplyMatcher(matcher, diff) =
        And(Bool(matcher.providerType = diff.providerType),
            IF matcher.actions = Undefined THEN "yes" ELSE inner)
  BY DEF safeToApplyMatcher, inner
<1> QED
  BY <1>1, <1>2 DEF And, Bool, Outcome, contains

LEMMA SafeMatchers ==
  ASSUME NEW configuration, configuration.global \in GlobalConfiguration,
         NEW diff, NEW done, performs(diff, done)
  PROVE  LET outcome == matchesSafeToApplyItems(configuration, diff)
             matchers == configuration.global.safeToApplyItems
             exempt == /\ matchers # Undefined
                       /\ \E i \in DOMAIN matchers :
                            /\ matchers[i].providerType = diff.providerType
                            /\ contains(matchers[i].actions, done)
         IN  outcome \in Outcome
             /\ (outcome = "yes" => exempt) /\ (outcome = "no" => ~ exempt)
<1> DEFINE matchers == configuration.global.safeToApplyItems
           outcomes == [i \in DOMAIN matchers |-> safeToApplyMatcher(matchers[i], diff)]
<1>1. CASE matchers = Undefined
  BY <1>1 DEF matchesSafeToApplyItems, Outcome
<1>2. CASE matchers # Undefined
  <2>1. matchers \in Seq(TerraformDiffMatcher)
    BY <1>2 DEF GlobalConfiguration
  <2>2. Len(matchers) \in Nat /\ DOMAIN matchers = 1 .. Len(matchers)
        /\ \A i \in DOMAIN matchers : matchers[i] \in TerraformDiffMatcher
    BY <2>1
  <2>3. \A i \in DOMAIN matchers :
          LET exempt == matchers[i].providerType = diff.providerType
                          /\ contains(matchers[i].actions, done)
          IN  outcomes[i] \in Outcome
              /\ (outcomes[i] = "yes" => exempt) /\ (outcomes[i] = "no" => ~ exempt)
    BY <2>2, SafeMatcher
  <2>4. outcomes \in [1 .. Len(matchers) -> Outcome]
    BY <2>2, <2>3
  <2>5. matchesSafeToApplyItems(configuration, diff) = some(outcomes)
    BY <1>2 DEF matchesSafeToApplyItems
  <2> HIDE DEF outcomes, matchers
  <2>6. /\ some(outcomes) \in Outcome
        /\ some(outcomes) = "yes" => \E i \in 1 .. Len(matchers) : outcomes[i] = "yes"
        /\ some(outcomes) = "no" => \A i \in 1 .. Len(matchers) : outcomes[i] = "no"
    BY <2>2, <2>4, SomeOutcome
  <2> QED
    BY <1>2, <2>2, <2>3, <2>5, <2>6 DEF matchers
<1> QED
  BY <1>1, <1>2

LEMMA SafeActions ==
  ASSUME NEW configuration, configuration.global \in GlobalConfiguration,
         NEW entity, entity.decorator \in DecoratorType
  PROVE  safeActionsForResource(configuration, entity) =
           {action \in Action :
              \/ /\ configuration.global.safeToApplyActions # Undefined
                 /\ action \in configuration.global.safeToApplyActions
              \/ /\ entity.decorator.type = "safe_to_apply"
                 /\ entity.decorator.matchActions \notin {Undefined, Null}
                      => action \in entity.decorator.matchActions}
<1>1. configuration.global.safeToApplyActions # Undefined =>
        configuration.global.safeToApplyActions \subseteq Action
  BY DEF GlobalConfiguration
<1>2. entity.decorator.type = "safe_to_apply" =>
        entity.decorator.matchActions \in (SUBSET Action) \cup {Undefined, Null}
  BY DEF DecoratorType, MatchActions, NoDecorator
<1> QED
  BY <1>1, <1>2 DEF safeActionsForResource, getSafeToApplyActionsFromDecorator

\* A change needs approval in the second mode unless a rule exempts it or all
\* its actions are safe.
LEMMA SafeOutcome ==
  ASSUME NEW configuration, configuration.global \in GlobalConfiguration,
         NEW diff, NEW done, performs(diff, done),
         NEW entity, entity.decorator \in DecoratorType
  PROVE  LET outcome == isNotSafeToApply(configuration, diff, entity)
             rules == configuration.global
             exempt ==
               \/ /\ rules.safeToApplyItems # Undefined
                  /\ \E i \in DOMAIN rules.safeToApplyItems :
                       /\ rules.safeToApplyItems[i].providerType = diff.providerType
                       /\ contains(rules.safeToApplyItems[i].actions, done)
               \/ done \subseteq safeActionsForResource(configuration, entity)
         IN  outcome \in Outcome
             /\ (outcome = "yes" => ~ exempt) /\ (outcome = "no" => exempt)
<1> DEFINE rules == configuration.global
           A == matchesSafeToApplyItems(configuration, diff)
           safe == safeActionsForResource(configuration, entity)
           B == areAllItemsIncluded(safe, mapDiffTypeToActions(diff.diffType))
           byItems == /\ rules.safeToApplyItems # Undefined
                      /\ \E i \in DOMAIN rules.safeToApplyItems :
                           /\ rules.safeToApplyItems[i].providerType = diff.providerType
                           /\ contains(rules.safeToApplyItems[i].actions, done)
           byActions == done \subseteq safe
<1>1. A \in Outcome /\ (A = "yes" => byItems) /\ (A = "no" => ~ byItems)
  BY SafeMatchers
<1>2. B \in Outcome /\ (B = "yes" => byActions) /\ (B = "no" => ~ byActions)
  <2> HIDE DEF safe
  <2> QED
    BY AllIncluded, DiffActions
<1>3. isNotSafeToApply(configuration, diff, entity) = And(Negation(A), Negation(B))
  BY DEF isNotSafeToApply
<1> HIDE DEF A, B, byItems, byActions
<1>4. LET outcome == isNotSafeToApply(configuration, diff, entity)
          exempt == byItems \/ byActions
      IN  outcome \in Outcome
          /\ (outcome = "yes" => ~ exempt) /\ (outcome = "no" => exempt)
  BY <1>1, <1>2, <1>3 DEF And, Negation, Outcome
<1> QED
  BY <1>4 DEF byItems, byActions

\* The filter over all pairs.
LEMMA SomeOf ==
  ASSUME NEW outcomes \in SUBSET Outcome
  PROVE  /\ someOf(outcomes) \in Outcome
         /\ someOf(outcomes) = "yes" => "yes" \in outcomes /\ "throws" \notin outcomes
         /\ someOf(outcomes) = "no" => outcomes \subseteq {"no"}
BY DEF someOf, Bool, Outcome

-----------------------------------------------------------------------------
(***************************************************************************)
(* The changes of a plan. A change whose actions the reader understands    *)
(* performs the actions of its diff; one it does not know performs none.   *)
(***************************************************************************)
nameOf == [CREATE |-> "create", UPDATE_IN_PLACE |-> "update", DELETE |-> "delete"]

performedBy(actions) ==
  {action \in Action : \E i \in DOMAIN actions : actions[i] = nameOf[action]}

LEMMA MappedActions ==
  ASSUME NEW actions \in Seq(PlanAction \cup UnknownPlanAction),
         mapActions(actions) # "throws"
  PROVE  /\ mapActions(actions) \in DiffType \cup {Undefined}
         /\ performedBy(actions) = IF mapActions(actions) = Undefined
                                     THEN {} ELSE mapDiffTypeToActions(mapActions(actions))
<1> USE DEF DiffType, Action
<1>1. Undefined \notin DiffType
  BY AbsentValues
<1>2. \A action \in Action :
        action \in performedBy(actions) <=> \E i \in DOMAIN actions : actions[i] = nameOf[action]
  BY DEF performedBy
<1>3. performedBy(actions) \subseteq Action
  BY DEF performedBy
<1>4. CASE Len(actions) = 2 /\ includes(actions, "create") /\ includes(actions, "delete")
  <2>1. Len(actions) # 1
    BY <1>4
  <2>2. actions # <<"create">> /\ actions # <<"update">> /\ actions # <<"delete">>
    BY <2>1
  <2>3. mapActions(actions) = "replace"
    BY <1>4, <2>1, <2>2, Zenon DEF mapActions
  <2>4. DOMAIN actions = {1, 2}
    BY <1>4
  <2>5. performedBy(actions) = {"CREATE", "DELETE"}
    BY <1>2, <1>3, <1>4, <2>4 DEF includes, nameOf
  <2> QED
    BY <1>1, <2>3, <2>5 DEF mapDiffTypeToActions
<1>5. CASE Len(actions) = 1
  <2>1. DOMAIN actions = {1} /\ actions = <<actions[1]>>
    BY <1>5
  <2>2. \A action \in Action : action \in performedBy(actions) <=> actions[1] = nameOf[action]
    BY <1>2, <2>1
  <2>3. CASE actions[1] = "create"
    <3>1. actions = <<"create">>
      BY <2>1, <2>3
    <3>2. /\ actions # <<"update">> /\ actions # <<"delete">>
          /\ Len(actions) # 2 /\ actions[1] \notin UnknownPlanAction
      BY <1>5, <3>1 DEF UnknownPlanAction
    <3>4. mapActions(actions) = "create"
      BY <3>1, <3>2, Zenon DEF mapActions
    <3>3. performedBy(actions) = {"CREATE"}
      BY <1>3, <2>2, <2>3 DEF nameOf
    <3> QED
      BY <1>1, <3>3, <3>4 DEF mapDiffTypeToActions
  <2>4. CASE actions[1] = "update"
    <3>1. actions = <<"update">>
      BY <2>1, <2>4
    <3>2. /\ actions # <<"create">> /\ actions # <<"delete">>
          /\ Len(actions) # 2 /\ actions[1] \notin UnknownPlanAction
      BY <1>5, <3>1 DEF UnknownPlanAction
    <3>4. mapActions(actions) = "update"
      BY <3>1, <3>2, Zenon DEF mapActions
    <3>3. performedBy(actions) = {"UPDATE_IN_PLACE"}
      BY <1>3, <2>2, <2>4 DEF nameOf
    <3> QED
      BY <1>1, <3>3, <3>4 DEF mapDiffTypeToActions
  <2>5. CASE actions[1] = "delete"
    <3>1. actions = <<"delete">>
      BY <2>1, <2>5
    <3>2. /\ actions # <<"create">> /\ actions # <<"update">>
          /\ Len(actions) # 2 /\ actions[1] \notin UnknownPlanAction
      BY <1>5, <3>1 DEF UnknownPlanAction
    <3>4. mapActions(actions) = "delete"
      BY <3>1, <3>2, Zenon DEF mapActions
    <3>3. performedBy(actions) = {"DELETE"}
      BY <1>3, <2>2, <2>5 DEF nameOf
    <3> QED
      BY <1>1, <3>3, <3>4 DEF mapDiffTypeToActions
  <2>6. CASE actions[1] \notin {"create", "update", "delete"}
    <3>1. actions # <<"create">> /\ actions # <<"update">> /\ actions # <<"delete">>
      BY <2>1, <2>6
    <3>2. mapActions(actions) = Undefined
      BY <1>5, <3>1 DEF mapActions
    <3>3. performedBy(actions) = {}
      BY <1>3, <2>2, <2>6 DEF nameOf
    <3> QED
      BY <1>1, <3>2, <3>3 DEF mapDiffTypeToActions
  <2> QED
    BY <2>3, <2>4, <2>5, <2>6
<1>6. CASE Len(actions) # 1
           /\ ~ (Len(actions) = 2 /\ includes(actions, "create") /\ includes(actions, "delete"))
  <2>1. actions # <<"create">> /\ actions # <<"update">> /\ actions # <<"delete">>
    BY <1>6
  <2> QED
    BY <1>6, <2>1 DEF mapActions
<1> QED
  BY <1>4, <1>5, <1>6

LEMMA OnlyDeletionsDelete ==
  ASSUME NEW diff, NEW done, performs(diff, done)
  PROVE  diff.diffType = "delete" <=> done = {"DELETE"}
BY AbsentValues DEF performs, DiffType, mapDiffTypeToActions

-----------------------------------------------------------------------------
(***************************************************************************)
(* What the readers yield when they do not fail.                           *)
(***************************************************************************)
LEMMA ReadChange ==
  ASSUME NEW file \in PlanFile, readPlanError(file) = "none",
         NEW i \in keptChanges(file.resource_changes)
  PROVE  LET change == file.resource_changes[i]
             diff == toTerraformDiff(change)
         IN  /\ change \in ResourceChange
             /\ diff \in TerraformDiff
             /\ performs(diff, performedBy(change.actions))
             /\ diff.providerType = change.type
             /\ diff.userProvidedName = change.name
             /\ IF change.module_address \in {Undefined, Null, <<>>}
                  THEN diff.firstLevelModule = Undefined
                  ELSE /\ diff.firstLevelModule = change.module_address[2]
                       /\ diff.firstLevelModule # Undefined
<1> DEFINE changes == file.resource_changes
           change == changes[i]
           diff == toTerraformDiff(change)
<1>1. /\ ~ hasInvalidContent(changes)
      /\ changes \in Seq(ResourceChange) \cup {Undefined}
  BY DEF readPlanError, PlanFile
<1>2. changes \in Seq(ResourceChange)
  BY <1>1 DEF hasInvalidContent
<1>3. i \in DOMAIN changes /\ change \in ResourceChange
  BY <1>2 DEF keptChanges
<1>4. /\ change.actions # Undefined
      /\ diff.diffType # "throws" /\ diff.firstLevelModule # "throws"
  BY <1>1, <1>3 DEF hasInvalidContent
<1> HIDE DEF changes, change
<1>5. /\ change.actions \in Seq(PlanAction \cup UnknownPlanAction)
      /\ change.module_address \in Seq(Name \cup {"module"}) \cup {Undefined, Null}
      /\ change.address \in Address /\ change.type \in ProviderType /\ change.name \in Name
  BY <1>3, <1>4 DEF ResourceChange
<1>6. /\ diff.diffType = mapActions(change.actions)
      /\ diff.firstLevelModule = extractFirstLevelModuleIfAvailable(change.module_address)
      /\ diff.providerType = change.type /\ diff.userProvidedName = change.name
      /\ diff = [fullyQualifiedAddress |-> change.address, providerType |-> change.type,
                 userProvidedName |-> change.name, diffType |-> diff.diffType,
                 firstLevelModule |-> diff.firstLevelModule]
  BY DEF toTerraformDiff
<1> HIDE DEF diff
<1>7. performs(diff, performedBy(change.actions))
  BY <1>4, <1>5, <1>6, MappedActions DEF performs
<1>8. IF change.module_address \in {Undefined, Null, <<>>}
        THEN diff.firstLevelModule = Undefined
        ELSE /\ diff.firstLevelModule = change.module_address[2]
             /\ diff.firstLevelModule \in Name \cup {"module"}
  <2>1. CASE change.module_address \in {Undefined, Null, <<>>}
    BY <1>6, <2>1 DEF extractFirstLevelModuleIfAvailable
  <2>2. CASE change.module_address \notin {Undefined, Null, <<>>}
    <3>1. change.module_address \in Seq(Name \cup {"module"})
      BY <1>5, <2>2
    <3>2. Len(change.module_address) >= 2
          /\ diff.firstLevelModule = change.module_address[2]
      BY <1>4, <1>6, <2>2, <3>1 DEF extractFirstLevelModuleIfAvailable
    <3> QED
      BY <2>2, <3>1, <3>2
  <2> QED
    BY <2>1, <2>2
<1>9. diff \in TerraformDiff
  BY <1>5, <1>6, <1>7, <1>8 DEF TerraformDiff, performs
<1> QED
  BY <1>3, <1>6, <1>7, <1>8, <1>9, AbsentValues DEF diff, change, changes

LEMMA ReadDiffs ==
  ASSUME NEW file \in PlanFile, readPlanError(file) = "none"
  PROVE  readPlan(file) \in SUBSET TerraformDiff
BY ReadChange DEF readPlan

\* The configuration of a file that could be read has items with actions.
LEMMA ReadConfigurationType ==
  ASSUME NEW file \in ConfigurationFile, ~ readConfigurationThrows(file)
  PROVE  /\ readConfiguration(file) \in Configurations
         /\ \A i \in DOMAIN readConfiguration(file).requireApprovalItems :
              readConfiguration(file).requireApprovalItems[i].actions # {}
<1>1. CASE file.status = "unreadable"
  <2>1. readConfiguration(file) = DEFAULT_CONFIGURATION
    BY <1>1 DEF readConfiguration
  <2>2. NoGlobalRules \in GlobalConfiguration /\ <<>> \in Seq(RequireApprovalItem)
    BY DEF NoGlobalRules, GlobalConfiguration
  <2> QED
    BY <2>1, <2>2 DEF DEFAULT_CONFIGURATION, Configurations
<1>2. CASE file.status # "unreadable"
  <2>1. /\ readConfiguration(file) = mapToConfiguration(file.model)
        /\ validateConfiguration(file.model) /\ file.model.requireApproval # Null
    BY <1>2 DEF readConfiguration, readConfigurationThrows
  <2>2. /\ file.model.requireApproval \in Seq(RequireApprovalItem) \cup {Undefined, Null}
        /\ file.model.global \in GlobalConfiguration
    BY DEF ConfigurationFile, ConfigurationYamlModel
  <2>3. CASE file.model.requireApproval = Undefined
    <3>1. <<>> \in Seq(RequireApprovalItem)
      OBVIOUS
    <3> QED
      BY <2>1, <2>2, <2>3, <3>1 DEF mapToConfiguration, Configurations
  <2>4. CASE file.model.requireApproval # Undefined
    BY <2>1, <2>2, <2>4 DEF mapToConfiguration, Configurations, validateConfiguration
  <2> QED
    BY <2>3, <2>4
<1> QED
  BY <1>1, <1>2

LEMMA ItemEntityType ==
  ASSUME NEW item \in RequireApprovalItem,
         ~ (Len(item.fullyQualifiedAddress) < 2), item.actions # {}
  PROVE  LET entity == requireApprovalItemToTerraformEntity(item)
         IN  entity.entityInfo \in ItemEntityInfo /\ entity.decorator \in DecoratorType
<1> DEFINE address == item.fullyQualifiedAddress
<1>1. address \in Seq(AddressPart) /\ item.actions \in (SUBSET Action) \ {{}}
  BY DEF RequireApprovalItem
<1>2. address[1] \in AddressPart /\ address[2] \in AddressPart
  BY <1>1
<1>3. requireApprovalItemToTerraformEntity(item).entityInfo =
        IF address[1] = "module"
          THEN [internalType |-> "module", userProvidedName |-> address[2]]
          ELSE [internalType |-> "plain_resource", providerType |-> address[1],
                userProvidedName |-> address[2]]
  BY DEF requireApprovalItemToTerraformEntity
<1>4. requireApprovalItemToTerraformEntity(item).decorator =
        [type |-> "manual_approval", matchActions |-> item.actions]
  BY DEF requireApprovalItemToTerraformEntity
<1> HIDE DEF address
<1>5. requireApprovalItemToTerraformEntity(item).entityInfo \in ItemEntityInfo
  BY <1>2, <1>3 DEF ItemEntityInfo
<1> QED
  BY <1>1, <1>4, <1>5 DEF DecoratorType, MatchActions

\* A block of the code base is something an item may name.
LEMMA BlockEntityInfo == EntityInfo \subseteq ItemEntityInfo
BY DEF EntityInfo, TerraformPlainResource, TerraformModule, ItemEntityInfo, AddressPart

\* Entities with different identifiers: a diff has one counterpart at most, and
\* the search finds it.
LEMMA OneCounterpart ==
  ASSUME NEW entities,
         \A entity \in entities : entity.entityInfo \in ItemEntityInfo,
         \A one, other \in entities :
           one.entityInfo = other.entityInfo => one = other,
         NEW diff, NEW entity \in counterparts(diff, entities)
  PROVE  /\ counterparts(diff, entities) = {entity}
         /\ findDiffCounterpartInEntities(diff, entities) = entity
<1>1. ASSUME NEW other \in counterparts(diff, entities)
      PROVE  other = entity
  <2>1. /\ entity \in entities /\ other \in entities
        /\ entity.entityInfo \in ItemEntityInfo /\ other.entityInfo \in ItemEntityInfo
    BY DEF counterparts
  <2>2. CASE diff.firstLevelModule = Undefined
    <3>1. plainResourceMatch(diff, entity) /\ plainResourceMatch(diff, other)
      BY <2>2 DEF counterparts, moduleEntityMatch
    <3>2. entity.entityInfo = [internalType |-> "plain_resource",
            providerType |-> diff.providerType, userProvidedName |-> diff.userProvidedName]
      BY <2>1, <3>1 DEF plainResourceMatch, ItemEntityInfo
    <3>3. other.entityInfo = [internalType |-> "plain_resource",
            providerType |-> diff.providerType, userProvidedName |-> diff.userProvidedName]
      BY <2>1, <3>1 DEF plainResourceMatch, ItemEntityInfo
    <3> QED
      BY <2>1, <3>2, <3>3
  <2>3. CASE diff.firstLevelModule # Undefined
    <3>1. moduleEntityMatch(diff, entity) /\ moduleEntityMatch(diff, other)
      BY <2>3 DEF counterparts, plainResourceMatch
    <3>2. entity.entityInfo = [internalType |-> "module",
                               userProvidedName |-> diff.firstLevelModule]
      BY <2>1, <3>1 DEF moduleEntityMatch, ItemEntityInfo
    <3>3. other.entityInfo = [internalType |-> "module",
                              userProvidedName |-> diff.firstLevelModule]
      BY <2>1, <3>1 DEF moduleEntityMatch, ItemEntityInfo
    <3> QED
      BY <2>1, <3>2, <3>3
  <2> QED
    BY <2>2, <2>3
<1>2. counterparts(diff, entities) = {entity} /\ entity \in entities
  BY <1>1 DEF counterparts
<1> QED
  BY <1>2 DEF findDiffCounterpartInEntities
-----------------------------------------------------------------------------
(***************************************************************************)
(* The search for the decorator of a header, on the lines of a file.       *)
(***************************************************************************)
\* Splitting a file yields lines, whatever ends them.
LEMMA SplitLines ==
  ASSUME NEW file \in File
  PROVE  readFileAndSplitLines(file) \in Seq(Line)
<1>1. file.lines \in Seq(Line)
  BY DEF File
<1>2. ASSUME NEW line \in Line
      PROVE  withCarriageReturn(line) \in Line
  <2>1. CASE line.kind = "tag"
    <3>1. line \in [kind: {"tag", "nearTag"}, decorator: Tag]
      BY <2>1 DEF Line
    <3> QED
      BY <2>1, <3>1 DEF withCarriageReturn, Line
  <2>2. CASE line.kind = "inlineHeader"
    <3>1. line \in [kind: {"header", "inlineHeader"},
                    entityInfo: EntityInfo]
      BY <2>2 DEF Line
    <3> QED
      BY <2>2, <3>1 DEF withCarriageReturn, Line
  <2>3. CASE line.kind \in {"indentedClosing", "slashClosing"}
    BY <2>3 DEF withCarriageReturn, Line
  <2>4. CASE line.kind \notin {"tag", "inlineHeader", "indentedClosing", "slashClosing"}
    BY <2>4 DEF withCarriageReturn
  <2> QED
    BY <2>1, <2>2, <2>3, <2>4
<1>3. CASE file.crlf
  <2>1. \A i \in DOMAIN file.lines : withCarriageReturn(file.lines[i]) \in Line
    BY <1>1, <1>2
  <2> QED
    BY <1>1, <1>3, <2>1 DEF readFileAndSplitLines
<1>4. CASE ~ file.crlf
  BY <1>1, <1>4 DEF readFileAndSplitLines
<1> QED
  BY <1>3, <1>4

\* A line added to the window decides the search if it is a bracket or a tag.
LEMMA SearchFromLastLine ==
  ASSUME NEW s \in Seq(Line), NEW line \in Line
  PROVE  extractDecorator(Append(s, line)) =
           IF closingBracketRegex(line) THEN NoDecorator
           ELSE IF matchesSupportedDecorator(line) THEN line.decorator
           ELSE extractDecorator(s)
<1> DEFINE t == Append(s, line)
<1>1. t \in Seq(Line) /\ Len(t) = Len(s) + 1 /\ t[Len(t)] = line
      /\ DOMAIN t = 1 .. Len(s) + 1 /\ DOMAIN s = 1 .. Len(s) /\ Len(s) \in Nat
  OBVIOUS
<1>2. \A i \in 1 .. Len(s) : t[i] = s[i]
  OBVIOUS
<1>3. CASE endsSearch(line)
  <2>1. isWhereSearchEnds(t, Len(t))
    BY <1>1, <1>3 DEF isWhereSearchEnds
  <2>2. \A i \in DOMAIN t : isWhereSearchEnds(t, i) => i = Len(t)
    BY <1>1, <1>3 DEF isWhereSearchEnds
  <2>3. (CHOOSE i \in DOMAIN t : isWhereSearchEnds(t, i)) = Len(t)
    BY <1>1, <2>1, <2>2
  <2>4. \E i \in DOMAIN t : isWhereSearchEnds(t, i)
    BY <1>1, <2>1
  <2>5. extractDecorator(t) =
          IF closingBracketRegex(line) THEN NoDecorator ELSE line.decorator
    <3> HIDE DEF t
    <3> QED
      BY <1>1, <2>3, <2>4 DEF extractDecorator
  <2> QED
    BY <1>3, <2>5 DEF endsSearch
<1>4. CASE ~ endsSearch(line)
  <2>1. \A i \in 1 .. Len(s) : isWhereSearchEnds(t, i) <=> isWhereSearchEnds(s, i)
    BY <1>1, <1>2, <1>4 DEF isWhereSearchEnds
  <2>2. ~ isWhereSearchEnds(t, Len(t))
    BY <1>1, <1>4 DEF isWhereSearchEnds
  <2>3. (\E i \in DOMAIN t : isWhereSearchEnds(t, i))
          <=> \E i \in DOMAIN s : isWhereSearchEnds(s, i)
    BY <1>1, <2>1, <2>2
  <2>4. \A i : (i \in DOMAIN t /\ isWhereSearchEnds(t, i))
               <=> (i \in DOMAIN s /\ isWhereSearchEnds(s, i))
    BY <1>1, <2>1, <2>2
  <2>5. (CHOOSE i \in DOMAIN t : isWhereSearchEnds(t, i))
          = CHOOSE i \in DOMAIN s : isWhereSearchEnds(s, i)
    BY <2>4
  <2>6. CASE \E i \in DOMAIN s : isWhereSearchEnds(s, i)
    <3> DEFINE k == CHOOSE i \in DOMAIN s : isWhereSearchEnds(s, i)
    <3>1. k \in DOMAIN s
      BY <2>6
    <3>2. t[k] = s[k]
      BY <3>1, <1>1, <1>2
    <3> HIDE DEF k, t
    <3> QED
      BY <2>3, <2>5, <2>6, <3>2, <1>4 DEF extractDecorator, endsSearch, k, t
  <2>7. CASE ~ \E i \in DOMAIN s : isWhereSearchEnds(s, i)
    BY <2>3, <2>7, <1>4 DEF extractDecorator, endsSearch
  <2> QED
    BY <2>6, <2>7
<1> QED
  BY <1>3, <1>4

\* The search yields a decorator, or the error of a tag.
LEMMA SearchResult ==
  ASSUME NEW s \in Seq(Line)
  PROVE  extractDecorator(s) \in DecoratorType \cup {InvalidDefinition}
<1>1. CASE \E i \in DOMAIN s : isWhereSearchEnds(s, i)
  <2> DEFINE k == CHOOSE i \in DOMAIN s : isWhereSearchEnds(s, i)
  <2>1. k \in DOMAIN s /\ isWhereSearchEnds(s, k)
    BY <1>1
  <2>2. s[k] \in Line /\ endsSearch(s[k])
    BY <2>1 DEF isWhereSearchEnds
  <2>3. ~ closingBracketRegex(s[k]) => s[k].decorator \in Tag
    BY <2>2 DEF endsSearch, matchesSupportedDecorator, Line
  <2> HIDE DEF k
  <2> QED
    BY <1>1, <2>3 DEF extractDecorator, k, Tag, DecoratorType, NoDecorator
<1>2. CASE ~ \E i \in DOMAIN s : isWhereSearchEnds(s, i)
  BY <1>2 DEF extractDecorator, DecoratorType
<1> QED
  BY <1>1, <1>2

LEMMA SearchInNothing == extractDecorator(<<>>) = NoDecorator
  BY DEF extractDecorator

\* The window grows by the line that is skipped ...
LEMMA WindowGrows ==
  ASSUME NEW s \in Seq(Line), NEW a \in Nat, NEW i \in Nat,
         1 <= a, a <= i, i <= Len(s)
  PROVE  SubSeq(s, a, i) = Append(SubSeq(s, a, i - 1), s[i])
  OBVIOUS

\* ... and is a sequence of lines.
LEMMA WindowIsLines ==
  ASSUME NEW s \in Seq(Line), NEW a \in Nat, NEW i \in Nat,
         1 <= a, a <= i, i <= Len(s) + 1
  PROVE  SubSeq(s, a, i - 1) \in Seq(Line)
  OBVIOUS

\* A window of one line is that line.
LEMMA WindowOfOne ==
  ASSUME NEW s \in Seq(Line), NEW i \in 1 .. Len(s)
  PROVE  SubSeq(s, i, i) = <<s[i]>>
<1>1. SubSeq(s, i, i) = Append(SubSeq(s, i, i - 1), s[i])
  BY WindowGrows
<1>2. SubSeq(s, i, i - 1) = <<>>
  OBVIOUS
<1>3. \A line \in Line : Append(<<>>, line) = <<line>>
  OBVIOUS
<1>4. s[i] \in Line
  OBVIOUS
<1> QED
  BY <1>1, <1>2, <1>3, <1>4

\* A window that holds nothing but a header has no decorator in it.
LEMMA SearchInHeader ==
  ASSUME NEW line \in Line, detectsTerraformEntity(line)
  PROVE  extractDecorator(<<line>>) = NoDecorator
<1>1. <<>> \in Seq(Line) /\ <<line>> = Append(<<>>, line)
  OBVIOUS
<1>2. ~ matchesSupportedDecorator(line)
  BY DEF detectsTerraformEntity, matchesSupportedDecorator
<1> QED
  BY <1>1, <1>2, SearchFromLastLine, SearchInNothing

LEMMA PlainLines ==
  ASSUME NEW line \in Line
  PROVE  line.kind \in {"text", "nearTag", "closing"}
           <=> ~ endsSearch(line) /\ ~ detectsTerraformEntity(line)
BY DEF Line, endsSearch, closingBracketRegex, matchesSupportedDecorator,
       detectsTerraformEntity

\* A search ends at one line at most.
LEMMA SearchEndsOnce ==
  ASSUME NEW s \in Seq(Line), NEW k \in DOMAIN s, isWhereSearchEnds(s, k)
  PROVE  extractDecorator(s) =
           IF closingBracketRegex(s[k]) THEN NoDecorator ELSE s[k].decorator
<1>1. \A i \in DOMAIN s : isWhereSearchEnds(s, i) => i = k
  BY DEF isWhereSearchEnds
<1>2. (CHOOSE i \in DOMAIN s : isWhereSearchEnds(s, i)) = k
  BY <1>1
<1> QED
  BY <1>2 DEF extractDecorator

-----------------------------------------------------------------------------
(***************************************************************************)
(* The index where the window of a header at i begins: the header before   *)
(* it, or the first line.                                                  *)
(***************************************************************************)
IsWindowStart(s, i, w) ==
  \/ /\ w \in headersOf(s) /\ w < i
     /\ \A k \in headersOf(s) : k < i => k <= w
  \/ w = 1 /\ \A k \in headersOf(s) : ~ (k < i)

LEMMA HeadersAreIndices ==
  ASSUME NEW s \in Seq(Line)
  PROVE  headersOf(s) \subseteq 1 .. Len(s)
BY DEF headersOf

\* There is one for every line ...
LEMMA EveryWindowStarts ==
  ASSUME NEW s \in Seq(Line), NEW i \in 1 .. Len(s)
  PROVE  \E w \in 1 .. i : IsWindowStart(s, i, w)
<1>1. headersOf(s) \subseteq 1 .. Len(s) /\ headersOf(s) \in SUBSET Nat
  BY HeadersAreIndices
<1>2. CASE \E k \in headersOf(s) : k < i
  <2>1. PICK k \in headersOf(s) : k < i
    BY <1>2
  <2> DEFINE S == headersOf(s)
  <2>2. S \in SUBSET Nat /\ k \in S /\ i \in Nat
    BY <1>1
  <2> HIDE DEF S
  <2>3. PICK w \in S : w < i /\ \A n \in S : n < i => n <= w
    BY <2>1, <2>2, GreatestBelow
  <2> QED
    BY <1>1, <2>3 DEF IsWindowStart, S
<1>3. CASE ~ \E k \in headersOf(s) : k < i
  <2>1. IsWindowStart(s, i, 1) /\ 1 \in 1 .. i
    BY <1>3 DEF IsWindowStart
  <2> QED
    BY <2>1
<1> QED
  BY <1>2, <1>3

\* ... and only one, which windowStart finds.
LEMMA WindowStartIsFound ==
  ASSUME NEW s \in Seq(Line), NEW i \in Nat, NEW w, IsWindowStart(s, i, w)
  PROVE  windowStart(s, i) = w
<1>1. headersOf(s) \subseteq Nat
  BY HeadersAreIndices
<1>2. CASE \E j \in headersOf(s) : j < i
  <2> DEFINE isLargest(j) == j < i /\ \A k \in headersOf(s) : k < i => k <= j
  <2>1. w \in headersOf(s) /\ isLargest(w)
    BY <1>2 DEF IsWindowStart
  <2>2. \A j \in headersOf(s) : isLargest(j) => j = w
    BY <1>1, <2>1
  <2>3. (CHOOSE j \in headersOf(s) : isLargest(j)) = w
    <3> HIDE DEF isLargest
    <3> QED
      BY <2>1, <2>2
  <2> QED
    BY <1>2, <2>3 DEF windowStart
<1>3. CASE ~ \E j \in headersOf(s) : j < i
  BY <1>3 DEF windowStart, IsWindowStart
<1> QED
  BY <1>2, <1>3

\* A header of a file has a decorator, or a tag that is not valid.
LEMMA DecoratorOfHeader ==
  ASSUME NEW s \in Seq(Line), NEW i \in headersOf(s)
  PROVE  decoratorAt(s, i) \in DecoratorType \cup {InvalidDefinition}
<1>1. i \in 1 .. Len(s)
  BY HeadersAreIndices
<1>2. PICK w \in 1 .. i : IsWindowStart(s, i, w)
  BY <1>1, EveryWindowStarts
<1>3. windowStart(s, i) = w
  BY <1>1, <1>2, WindowStartIsFound
<1>4. SubSeq(s, w, i - 1) \in Seq(Line)
  BY <1>1, <1>2, WindowIsLines
<1> QED
  BY <1>3, <1>4, SearchResult DEF decoratorAt
=============================================================================
