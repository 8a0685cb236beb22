---------------------------- MODULE AuditContract ----------------------------
(* What AuditService.record accepts and stores, against what the services     *)
(* that call it pass: the rules of each operation, the validation of a call,  *)
(* the fields a snapshot and the metadata keep, and the calls themselves.     *)
(* A value is abstracted to what the validation tells apart of it, and a      *)
(* snapshot to a function from its fields to such values.                     *)
EXTENDS Functions

CONSTANT Absent  \* a snapshot, metadata or rule that is not given

\* "codeMethod" and "mask" are strings too; "ids" is an array of 1 to 16
\* distinct identifiers, "strings" any other array of strings.
Texts == {"string", "codeMethod", "mask"}

\* matchesFieldKind: the values that each kind of field admits.
FieldKinds ==
  [boolean |-> {"boolean"}, number |-> {"number"}, string |-> Texts,
   stringArray |-> {"strings", "ids"}, safeIdArray |-> {"ids"},
   claimCodeRedemptionMethod |-> {"codeMethod"}, maskedCode |-> {"mask"},
   date |-> Texts \union {"date"}, nullableString |-> Texts \union {"null"},
   nullableDate |-> Texts \union {"date", "null"}]

Required(fields) == [required |-> fields, optional |-> <<>>]
Optional(fields) == [required |-> <<>>, optional |-> fields]
ChangeRule(entityType, participant, object, metadata) ==
  [entityType |-> entityType, participant |-> participant, before |-> object, after |-> object, metadata |-> metadata]
CreationRule(entityType, object, metadata) ==
  [ChangeRule(entityType, "forbidden", object, metadata) EXCEPT !.before = Absent]

adminOperatorRule == Required(
  [id |-> "string", name |-> "string", adminProfile |-> "string", isActive |-> "boolean",
   createdAt |-> "date", updatedAt |-> "date"])
sessionsRevokedMetadataRule == Optional([sessionsRevoked |-> "number"])
actionRule ==
  [required |-> [id |-> "string", name |-> "string", description |-> "nullableString", type |-> "string",
                 points |-> "number", isActive |-> "boolean", isCodeActive |-> "boolean"],
   optional |-> [hasCode |-> "boolean", codeChanged |-> "boolean"]]
activeEntityRule == Required([isActive |-> "boolean"])
rewardRule == Required(
  [id |-> "string", name |-> "string", description |-> "nullableString", costInPoints |-> "number",
   stock |-> "number", isActive |-> "boolean"])
reconciliationBalanceRule ==
  [required |-> [participantId |-> "string", storedPoints |-> "number", storedXp |-> "number", ledgerPoints |-> "number",
                 ledgerXp |-> "number", pointsDifference |-> "number", xpDifference |-> "number"],
   optional |-> [pointEventId |-> "string", pointEventIds |-> "safeIdArray"]]
participantStatusRule == Required([id |-> "string", isActive |-> "boolean"])
\* With a bug: a reset is always of a password that had one pending.
ResetRuleOfPending == Required(
  [id |-> "string", passwordResetRequired |-> "boolean", passwordResetExpiresAt |-> "date"])
participantPasswordResetRule == Required(
  [id |-> "string", passwordResetRequired |-> "boolean", passwordResetExpiresAt |-> "nullableDate"])
claimCodeBatchRule == Required(
  [requestedQuantity |-> "number", createdQuantity |-> "number", redemptionMethod |-> "claimCodeRedemptionMethod",
   actionId |-> "string"])
claimCodeBulkAuditRule == Required(
  [targetIsActive |-> "boolean", selectedCount |-> "number", changedCount |-> "number", unchangedCount |-> "number",
   usedCount |-> "number", notFoundCount |-> "number"])
claimCodeRule == Required(
  [id |-> "string", isActive |-> "boolean", isUsed |-> "boolean", maskedCode |-> "maskedCode"])
redemptionDeliveryBeforeRule == Required(
  [id |-> "string", status |-> "string", deliveredAt |-> "nullableDate", deliveredByAdminId |-> "nullableString"])
redemptionDeliveryAfterRule == Required(
  [id |-> "string", status |-> "string", deliveredAt |-> "date", deliveredByAdminId |-> "string"])
redemptionCancellationBeforeRule == Required(
  [id |-> "string", status |-> "string", stock |-> "number", points |-> "number"])
redemptionCancellationAfterRule == Required(
  [id |-> "string", status |-> "string", stock |-> "number", points |-> "number", cancelledAt |-> "date",
   cancelledByAdminId |-> "string", pointEventId |-> "string"])
redemptionMetadataRule == Optional([rewardRedemptionId |-> "string"])
redemptionCancellationMetadataRule == Optional([rewardRedemptionId |-> "string", pointEventId |-> "string"])
batchMetadataRule == Optional([actionId |-> "string", batchSize |-> "number", claimCodeIds |-> "stringArray"])
balanceMetadataRule == Optional(
  [pointEventId |-> "string", pointEventIds |-> "safeIdArray", originalPointEventId |-> "string",
   reversalPointEventId |-> "string"])
balanceBeforeRule == Required(
  [participantId |-> "string", points |-> "number", xp |-> "number", role |-> "string", isActive |-> "boolean"])
balanceAdjustedAfterRule == Required(
  [participantId |-> "string", points |-> "number", xp |-> "number", role |-> "string", isActive |-> "boolean",
   pointEventId |-> "string"])
balanceReversalBeforeRule == Required(
  [participantId |-> "string", points |-> "number", xp |-> "number", originalPointEventId |-> "string"])
balanceReversalAfterRule == Required(
  [participantId |-> "string", points |-> "number", xp |-> "number", pointEventId |-> "string",
   originalPointEventId |-> "string"])

\* The rule of each operation: its entity, whether it names a participant, and
\* what its snapshots and metadata must and may hold.
operationRules ==
  [PARTICIPANT_STATUS_CHANGED |-> ChangeRule("PARTICIPANT", "required", participantStatusRule, Absent),
   PARTICIPANT_PASSWORD_RESET |->
     ChangeRule("PARTICIPANT", "required", participantPasswordResetRule, sessionsRevokedMetadataRule),
   ACTION_CREATED |-> CreationRule("ACTION", actionRule, Absent),
   ACTION_UPDATED |-> ChangeRule("ACTION", "forbidden", actionRule, Absent),
   ACTION_STATUS_CHANGED |-> ChangeRule("ACTION", "forbidden", activeEntityRule, Absent),
   CLAIM_CODE_BATCH_GENERATED |-> CreationRule("CLAIM_CODE_BATCH", claimCodeBatchRule, batchMetadataRule),
   CLAIM_CODE_BULK_STATUS_CHANGED |-> CreationRule("CLAIM_CODE_BULK_OPERATION", claimCodeBulkAuditRule, Absent),
   CLAIM_CODE_STATUS_CHANGED |-> ChangeRule("CLAIM_CODE", "optional", claimCodeRule, Absent),
   REWARD_CREATED |-> CreationRule("REWARD", rewardRule, Absent),
   REWARD_UPDATED |-> ChangeRule("REWARD", "forbidden", rewardRule, Absent),
   REWARD_STATUS_CHANGED |-> ChangeRule("REWARD", "forbidden", activeEntityRule, Absent),
   REWARD_REDEMPTION_DELIVERED |->
     [entityType |-> "REWARD_REDEMPTION", participant |-> "required", before |-> redemptionDeliveryBeforeRule,
      after |-> redemptionDeliveryAfterRule, metadata |-> redemptionMetadataRule],
   REWARD_REDEMPTION_CANCELLED |->
     [entityType |-> "REWARD_REDEMPTION", participant |-> "required", before |-> redemptionCancellationBeforeRule,
      after |-> redemptionCancellationAfterRule, metadata |-> redemptionCancellationMetadataRule],
   PARTICIPANT_BALANCE_ADJUSTED |->
     [entityType |-> "POINT_EVENT", participant |-> "required", before |-> balanceBeforeRule,
      after |-> balanceAdjustedAfterRule,
      metadata |-> Optional([pointEventId |-> "string", actionId |-> "string"])],
   PARTICIPANT_BALANCE_ADJUSTMENT_REVERSED |->
     [entityType |-> "POINT_EVENT", participant |-> "required", before |-> balanceReversalBeforeRule,
      after |-> balanceReversalAfterRule,
      metadata |-> Optional([originalPointEventId |-> "string", reversalPointEventId |-> "string"])],
   RECONCILIATION_ADJUSTMENT_CONFIRMED |->
     ChangeRule("RECONCILIATION", "required", reconciliationBalanceRule, balanceMetadataRule),
   ADMIN_OPERATOR_CREATED |-> CreationRule("ADMIN_OPERATOR", adminOperatorRule, sessionsRevokedMetadataRule),
   ADMIN_OPERATOR_UPDATED |->
     ChangeRule("ADMIN_OPERATOR", "forbidden", adminOperatorRule, sessionsRevokedMetadataRule),
   ADMIN_OPERATOR_STATUS_CHANGED |->
     ChangeRule("ADMIN_OPERATOR", "forbidden", adminOperatorRule, sessionsRevokedMetadataRule),
   ADMIN_OPERATOR_ACTIVATION_RESET |->
     ChangeRule("ADMIN_OPERATOR", "forbidden", adminOperatorRule, sessionsRevokedMetadataRule),
   ADMIN_OPERATOR_ACTIVATED |-> ChangeRule("ADMIN_OPERATOR", "forbidden", adminOperatorRule, Absent)]

AuditOperations == DOMAIN operationRules

\* validateOptionalObject: what is declared is required in a snapshot and never
\* in the metadata, and only a snapshot is refused for a field of nobody's.
Admits(rule, object, isSnapshot) ==
  IF object = Absent THEN ~(isSnapshot /\ rule # Absent)
  ELSE /\ rule # Absent
       /\ isSnapshot => DOMAIN object \subseteq DOMAIN rule.required \union DOMAIN rule.optional
       /\ DOMAIN rule.required \subseteq DOMAIN object
       /\ \A f \in DOMAIN object :
            /\ f \in DOMAIN rule.required => object[f] \in FieldKinds[rule.required[f]]
            /\ f \in DOMAIN rule.optional => object[f] \in FieldKinds[rule.optional[f]]

\* validateContext
Accepted(call) ==
  LET rule == operationRules[call.operation] IN
  /\ call.entityType = rule.entityType
  /\ rule.participant = "required" => call.hasParticipant
  /\ rule.participant = "forbidden" => ~call.hasParticipant
  /\ Admits(rule.before, call.before, TRUE)
  /\ Admits(rule.after, call.after, TRUE)
  /\ Admits(rule.metadata, call.metadata, FALSE)

operatorFields == {"id", "name", "adminProfile", "isActive", "createdAt", "updatedAt"}
\* With a bug: the field added to the rule was not added to the list.
actionFieldsOfTheRow == {"id", "name", "description", "type", "points", "isActive", "isCodeActive", "hasCode"}
actionFields == {"id", "name", "description", "type", "points", "isActive", "isCodeActive", "hasCode", "codeChanged"}
rewardFields == {"id", "name", "description", "costInPoints", "stock", "isActive"}
redemptionFields ==
  {"id", "status", "deliveredAt", "cancelledAt", "deliveredByAdminId", "cancelledByAdminId", "stock", "points",
   "pointEventId"}

\* sanitizeSnapshot: the fields kept of a snapshot.
SnapshotFields(o) ==
  CASE o \in {"ACTION_CREATED", "ACTION_UPDATED"} -> actionFields
    [] o \in {"REWARD_CREATED", "REWARD_UPDATED"} -> rewardFields
    [] o \in {"PARTICIPANT_STATUS_CHANGED", "ACTION_STATUS_CHANGED", "REWARD_STATUS_CHANGED"} -> {"id", "isActive"}
    [] o \in {"REWARD_REDEMPTION_DELIVERED", "REWARD_REDEMPTION_CANCELLED"} -> redemptionFields
    [] o \in {"ADMIN_OPERATOR_CREATED", "ADMIN_OPERATOR_UPDATED", "ADMIN_OPERATOR_STATUS_CHANGED",
              "ADMIN_OPERATOR_ACTIVATION_RESET", "ADMIN_OPERATOR_ACTIVATED"} -> operatorFields
    [] o = "PARTICIPANT_PASSWORD_RESET" -> {"id", "passwordResetRequired", "passwordResetExpiresAt"}
    [] o = "CLAIM_CODE_BATCH_GENERATED" ->
         {"requestedQuantity", "createdQuantity", "redemptionMethod", "actionId"}
    [] o = "CLAIM_CODE_BULK_STATUS_CHANGED" ->
         {"targetIsActive", "selectedCount", "changedCount", "unchangedCount", "usedCount", "notFoundCount"}
    [] o = "CLAIM_CODE_STATUS_CHANGED" -> {"id", "isActive", "isUsed", "maskedCode"}
    [] o = "PARTICIPANT_BALANCE_ADJUSTED" -> {"participantId", "points", "xp", "role", "isActive", "pointEventId"}
    [] o = "PARTICIPANT_BALANCE_ADJUSTMENT_REVERSED" ->
         {"participantId", "points", "xp", "pointEventId", "originalPointEventId"}
    [] o = "RECONCILIATION_ADJUSTMENT_CONFIRMED" ->
         {"participantId", "storedPoints", "storedXp", "ledgerPoints", "ledgerXp", "pointsDifference", "xpDifference",
          "pointEventId", "pointEventIds", "originalPointEventId"}

\* sanitizeMetadata
MetadataFields ==
  {"actionId", "batchSize", "pointEventId", "pointEventIds", "originalPointEventId", "reversalPointEventId",
   "rewardRedemptionId", "sessionsRevoked", "claimCodeIds"}

Kept(object, fields) == IF object = Absent THEN Absent ELSE Restrict(object, fields \intersect DOMAIN object)

\* AuditService.record: the row it writes.
Recorded(call) ==
  [call EXCEPT !.before = Kept(call.before, SnapshotFields(call.operation)),
               !.after = Kept(call.after, SnapshotFields(call.operation)),
               !.metadata = Kept(call.metadata, MetadataFields)]

-----------------------------------------------------------------------------
\* The calls: one set for each place that records, with every shape that its
\* rows and its branches give the objects it passes.
Call(operation, entityType, hasParticipant, befores, afters, metadatas) ==
  [operation : {operation}, entityType : {entityType}, hasParticipant : {hasParticipant},
   before : befores, after : afters, metadata : metadatas]
Nothing == {Absent}
Text == {"string"}
Flag == {"boolean"}
Number == {"number"}
Date == {"date"}
Nullable(values) == values \union {"null"}

operatorSnapshot ==
  [id : Text, name : Text, adminProfile : Text, isActive : Flag, createdAt : Date, updatedAt : Date]
sessionsRevoked == [sessionsRevoked : Number]
OperatorCalls ==
  Call("ADMIN_OPERATOR_CREATED", "ADMIN_OPERATOR", FALSE, Nothing, operatorSnapshot, Nothing)
  \union Call("ADMIN_OPERATOR_ACTIVATED", "ADMIN_OPERATOR", FALSE, operatorSnapshot, operatorSnapshot, Nothing)
  \union UNION {Call(o, "ADMIN_OPERATOR", FALSE, operatorSnapshot, operatorSnapshot, sessionsRevoked) :
                  o \in {"ADMIN_OPERATOR_UPDATED", "ADMIN_OPERATOR_STATUS_CHANGED", "ADMIN_OPERATOR_ACTIVATION_RESET"}}

participantStatus == [id : Text, isActive : Flag]
participantPasswordReset == [id : Text, passwordResetRequired : Flag, passwordResetExpiresAt : Nullable(Date)]
ParticipantCalls ==
  Call("PARTICIPANT_PASSWORD_RESET", "PARTICIPANT", TRUE, participantPasswordReset, participantPasswordReset,
       sessionsRevoked)
  \union Call("PARTICIPANT_STATUS_CHANGED", "PARTICIPANT", TRUE, participantStatus, participantStatus, Nothing)

activeEntity == [isActive : Flag]
\* codeChanged is given to both snapshots, or to neither.
actionSnapshot ==
  [id : Text, name : Text, description : Nullable(Text), type : Text, points : Number, isActive : Flag,
   isCodeActive : Flag, hasCode : Flag]
actionSnapshotOfCode ==
  [id : Text, name : Text, description : Nullable(Text), type : Text, points : Number, isActive : Flag,
   isCodeActive : Flag, hasCode : Flag, codeChanged : Flag]
ActionCalls ==
  Call("ACTION_CREATED", "ACTION", FALSE, Nothing, actionSnapshotOfCode, Nothing)
  \union Call("ACTION_UPDATED", "ACTION", FALSE, actionSnapshot, actionSnapshot, Nothing)
  \union Call("ACTION_UPDATED", "ACTION", FALSE, actionSnapshotOfCode, actionSnapshotOfCode, Nothing)
  \union Call("ACTION_STATUS_CHANGED", "ACTION", FALSE, activeEntity, activeEntity, Nothing)

rewardSnapshot ==
  [id : Text, name : Text, description : Nullable(Text), costInPoints : Number, stock : Number, isActive : Flag]
redemptionDeliveryBefore == [id : Text, status : Text, deliveredAt : {"null"}, deliveredByAdminId : {"null"}]
redemptionDeliveryAfter == [id : Text, status : Text, deliveredAt : Date, deliveredByAdminId : Text]
redemptionCancellationBefore == [id : Text, status : Text, stock : Number, points : Number]
redemptionCancellationAfter ==
  [id : Text, status : Text, stock : Number, points : Number, cancelledAt : Date, cancelledByAdminId : Text,
   pointEventId : Text]
RewardCalls ==
  Call("REWARD_CREATED", "REWARD", FALSE, Nothing, rewardSnapshot, Nothing)
  \union Call("REWARD_UPDATED", "REWARD", FALSE, rewardSnapshot, rewardSnapshot, Nothing)
  \union Call("REWARD_STATUS_CHANGED", "REWARD", FALSE, activeEntity, activeEntity, Nothing)
  \union Call("REWARD_REDEMPTION_DELIVERED", "REWARD_REDEMPTION", TRUE, redemptionDeliveryBefore,
              redemptionDeliveryAfter, [rewardRedemptionId : Text])
  \union Call("REWARD_REDEMPTION_CANCELLED", "REWARD_REDEMPTION", TRUE, redemptionCancellationBefore,
              redemptionCancellationAfter, [rewardRedemptionId : Text, pointEventId : Text])

\* maskClaimCode gives the mask; a batch is audited whole.
claimCodeSnapshot == [id : Text, isActive : Flag, isUsed : Flag, maskedCode : {"mask"}]
claimCodeBatch ==
  [requestedQuantity : Number, createdQuantity : Number, redemptionMethod : {"codeMethod"}, actionId : Text]
claimCodeBulk ==
  [targetIsActive : Flag, selectedCount : Number, changedCount : Number, unchangedCount : Number,
   usedCount : Number, notFoundCount : Number]
ClaimCodeCalls ==
  Call("CLAIM_CODE_STATUS_CHANGED", "CLAIM_CODE", FALSE, claimCodeSnapshot, claimCodeSnapshot, Nothing)
  \union Call("CLAIM_CODE_BATCH_GENERATED", "CLAIM_CODE_BATCH", FALSE, Nothing, claimCodeBatch, Nothing)
  \union Call("CLAIM_CODE_BULK_STATUS_CHANGED", "CLAIM_CODE_BULK_OPERATION", FALSE, Nothing, claimCodeBulk, Nothing)

balanceBefore == [participantId : Text, points : Number, xp : Number, role : Text, isActive : Flag]
balanceAfter ==
  [participantId : Text, points : Number, xp : Number, role : Text, isActive : Flag, pointEventId : Text]
reversalBefore == [participantId : Text, points : Number, xp : Number, originalPointEventId : Text]
reversalAfter ==
  [participantId : Text, points : Number, xp : Number, pointEventId : Text, originalPointEventId : Text]
reconciliation ==
  [participantId : Text, storedPoints : Number, storedXp : Number, ledgerPoints : Number, ledgerXp : Number,
   pointsDifference : Number, xpDifference : Number]
reconciliationOfEvents ==
  [participantId : Text, storedPoints : Number, storedXp : Number, ledgerPoints : Number, ledgerXp : Number,
   pointsDifference : Number, xpDifference : Number, pointEventIds : {"ids"}]
\* Points for a question are audited as an adjustment, with its activity; a
\* confirmed reconciliation carries the identifiers of one or two events.
BalanceCalls ==
  Call("PARTICIPANT_BALANCE_ADJUSTED", "POINT_EVENT", TRUE, balanceBefore, balanceAfter,
       [pointEventId : Text] \union [pointEventId : Text, actionId : Text])
  \union Call("PARTICIPANT_BALANCE_ADJUSTMENT_REVERSED", "POINT_EVENT", TRUE, reversalBefore, reversalAfter,
              [originalPointEventId : Text, reversalPointEventId : Text])
  \union Call("RECONCILIATION_ADJUSTMENT_CONFIRMED", "RECONCILIATION", TRUE, reconciliation,
              reconciliationOfEvents, [pointEventIds : {"ids"}])

Calls ==
  OperatorCalls \union ParticipantCalls \union ActionCalls \union RewardCalls \union ClaimCodeCalls
  \union BalanceCalls

Rules ==
  {adminOperatorRule, sessionsRevokedMetadataRule, participantStatusRule, participantPasswordResetRule, actionRule,
   activeEntityRule, claimCodeBatchRule, claimCodeBulkAuditRule, claimCodeRule, rewardRule,
   redemptionDeliveryBeforeRule, redemptionDeliveryAfterRule, redemptionCancellationBeforeRule,
   redemptionCancellationAfterRule, redemptionMetadataRule, redemptionCancellationMetadataRule,
   reconciliationBalanceRule, batchMetadataRule, balanceMetadataRule, balanceBeforeRule, balanceAdjustedAfterRule,
   balanceReversalBeforeRule, balanceReversalAfterRule, operationRules.PARTICIPANT_BALANCE_ADJUSTED.metadata,
   operationRules.PARTICIPANT_BALANCE_ADJUSTMENT_REVERSED.metadata}

Snapshots ==
  UNION {operatorSnapshot, participantStatus, participantPasswordReset, activeEntity, actionSnapshot,
         actionSnapshotOfCode, rewardSnapshot, redemptionDeliveryBefore, redemptionDeliveryAfter,
         redemptionCancellationBefore, redemptionCancellationAfter, claimCodeSnapshot, claimCodeBatch, claimCodeBulk,
         balanceBefore, balanceAfter, reversalBefore, reversalAfter, reconciliation, reconciliationOfEvents}

\* Absent is none of the rules, and none of the snapshots that are passed.
AbsentAssumption == Absent \notin Rules \union Snapshots
ASSUME AbsentAssumption

-----------------------------------------------------------------------------
VARIABLES
  lastCall,  \* the last call of AuditService.record
  lastEvent  \* the row it wrote, Absent if it threw and its transaction was undone

contractVars == <<lastCall, lastEvent>>

ContractInit == lastCall = Absent /\ lastEvent = Absent

Record(call) ==
  /\ lastCall' = call
  /\ lastEvent' = IF Accepted(call) THEN Recorded(call) ELSE Absent

ContractNext == \E call \in Calls : Record(call)

ContractSpec == ContractInit /\ [][ContractNext]_contractVars

-----------------------------------------------------------------------------

(* No call of a service is refused by the rules, nor loses a field on its way *)
(* to the row: three tables far apart (what the callers pass, what is         *)
(* declared, and what is kept) agree on every operation, or a change that is  *)
(* otherwise sound is rolled back, or leaves a trace with a hole              *)
(* (AuditService.record and every caller of it).                              *)
EveryCallIsKept == lastEvent = lastCall
=============================================================================
