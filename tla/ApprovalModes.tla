----------------------------- MODULE ApprovalModes -----------------------------
(***************************************************************************)
(* The decision: ApprovalService.generateDiffEntityPairs and the two use   *)
(* cases (core/libs/service/src/approval). A diff is paired with an entity *)
(* of the code base or of the configuration; a mode then looks at every    *)
(* pair. Each decision is an Outcome, for it may throw.                    *)
(***************************************************************************)
EXTENDS Configuration

plainResourceMatch(diff, entity) ==
  /\ diff.firstLevelModule = Undefined
  /\ entity.entityInfo.internalType = "plain_resource"
  /\ entity.entityInfo.userProvidedName = diff.userProvidedName
  /\ entity.entityInfo.providerType = diff.providerType

moduleEntityMatch(diff, entity) ==
  /\ diff.firstLevelModule # Undefined
  /\ entity.entityInfo.internalType = "module"
  /\ entity.entityInfo.userProvidedName = diff.firstLevelModule

counterparts(diff, entities) ==
  {entity \in entities :
     plainResourceMatch(diff, entity) \/ moduleEntityMatch(diff, entity)}

\* throwIfConflictIsDetected has left one entity per identifier, so that the
\* first counterpart is the only one.
findDiffCounterpartInEntities(diff, entities) ==
  CHOOSE entity \in entities : entity \in counterparts(diff, entities)

\* Mutant: every diff without counterpart is skipped, not only the deletions.
ignoreUnknownDiff(diffs, entities) == FALSE

\* A diff without counterpart throws, unless it is a deletion.
hasUnknownDiff(diffs, entities) ==
  \E diff \in diffs :
    counterparts(diff, entities) = {} /\ diff.diffType # "delete"

generateDiffEntityPairs(diffs, entities) ==
  {<<diff, findDiffCounterpartInEntities(diff, entities)>> :
     diff \in {d \in diffs : counterparts(d, entities) # {}}}

-----------------------------------------------------------------------------
\* matchers.some(...): the first matcher that matches or throws decides.
decides(outcomes, i) ==
  outcomes[i] # "no" /\ \A j \in 1 .. (i - 1) : outcomes[j] = "no"

some(outcomes) ==
  IF \E i \in DOMAIN outcomes : decides(outcomes, i)
    THEN outcomes[CHOOSE i \in DOMAIN outcomes : decides(outcomes, i)]
    ELSE "no"

\* pairs.filter(...).length > 0: the filter looks at every pair.
someOf(outcomes) ==
  IF "throws" \in outcomes THEN "throws" ELSE Bool("yes" \in outcomes)

-----------------------------------------------------------------------------
(***************************************************************************)
(* RequireApprovalModeUseCase.                                             *)
(***************************************************************************)
requireApprovalMatcher(matcher, diff) ==
  And(Bool(matcher.providerType = diff.providerType),
      IF matcher.actions = Undefined
        THEN "yes"
        ELSE isSomeItemIncluded(mapDiffTypeToActions(diff.diffType), matcher.actions))

matchesRequireApprovalItems(configuration, diff) ==
  LET matchers == configuration.global.requireApprovalItems
  IN  IF matchers = Undefined THEN "no"
      ELSE some([i \in DOMAIN matchers |-> requireApprovalMatcher(matchers[i], diff)])

doesContainActionThatAlwaysRequireApproval(configuration, diffType) ==
  LET actions == configuration.global.requireApprovalActions
  IN  IF actions = Undefined THEN "no"
      ELSE isSomeItemIncluded(actions, mapDiffTypeToActions(diffType))

doesDiffRequireApproval(configuration, diff, entity) ==
  Or(matchesRequireApprovalItems(configuration, diff),
  Or(doesContainActionThatAlwaysRequireApproval(configuration, diff.diffType),
     And(Bool(entity.decorator.type = "manual_approval"),
         isDiffActionIncludedInEntityDecorator(entity.decorator, diff))))

requireApprovalMode(configuration, pairs) ==
  someOf({doesDiffRequireApproval(configuration, pair[1], pair[2]) : pair \in pairs})

-----------------------------------------------------------------------------
(***************************************************************************)
(* SafeToApplyModeUseCase.                                                 *)
(***************************************************************************)
safeToApplyMatcher(matcher, diff) ==
  And(Bool(matcher.providerType = diff.providerType),
      IF matcher.actions = Undefined
        THEN "yes"
        ELSE areAllItemsIncluded(matcher.actions, mapDiffTypeToActions(diff.diffType)))

matchesSafeToApplyItems(configuration, diff) ==
  LET matchers == configuration.global.safeToApplyItems
  IN  IF matchers = Undefined THEN "no"
      ELSE some([i \in DOMAIN matchers |-> safeToApplyMatcher(matchers[i], diff)])

safeActionsForResource(configuration, entity) ==
  (IF configuration.global.safeToApplyActions = Undefined
     THEN {} ELSE configuration.global.safeToApplyActions)
  \cup getSafeToApplyActionsFromDecorator(entity.decorator)

isNotSafeToApply(configuration, diff, entity) ==
  And(Negation(matchesSafeToApplyItems(configuration, diff)),
      Negation(areAllItemsIncluded(safeActionsForResource(configuration, entity),
                                   mapDiffTypeToActions(diff.diffType))))

safeToApplyMode(configuration, pairs) ==
  someOf({isNotSafeToApply(configuration, pair[1], pair[2]) : pair \in pairs})

isApprovalRequired(mode, configuration, pairs) ==
  IF mode = "require_approval"
    THEN requireApprovalMode(configuration, pairs)
    ELSE safeToApplyMode(configuration, pairs)
=============================================================================
