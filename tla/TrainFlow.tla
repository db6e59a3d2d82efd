----------------------------- MODULE TrainFlow -----------------------------
(***************************************************************************)
(* The asynchronous training loop of cosmos_rl with a fixed membership:    *)
(* the controller (PolicyStatusManager, RolloutStatusManager, the prompt   *)
(* dispatch of Controller), the policy replicas that run DataFetch         *)
(* commands, and the rollout replicas that fetch prompts, generate, report *)
(* samples, receive weights and run validation.                            *)
(*                                                                         *)
(* A prompt is its weight-version tag and a sample is the weight version   *)
(* it was generated with.  Every replica has registered, the meshes are    *)
(* built and the initial weights (version 0) are broadcast.                *)
(*                                                                         *)
(* An operator named Faulty... is a wrong form of the one after it, which  *)
(* uses it nowhere: it is there to see that a property notices the fault.  *)
(***************************************************************************)
EXTENDS Integers, Sequences, FiniteSets

CONSTANTS
  Policies,         \* policy replicas
  Rollouts,         \* rollout replicas
  LeadPolicy,       \* the policy replica with the earliest start_time
  LeadRollout,      \* the rollout replica with the earliest start_time
  TrainBatch,       \* train.train_batch_per_replica
  NGen,             \* rollout.n_generation: samples per prompt
  FetchBatch,       \* prompts per request (rollout.batch_size, one data-parallel rank)
  OutdatedFetch,    \* train_policy.outdated_rollout_fetch_batch_size
  AllowedOutdated,  \* train_policy.allowed_outdated_steps
  SyncInterval,     \* train.sync_weight_interval
  NumPrompts,       \* prompts of all epochs together
  MaxNumSteps,      \* train.max_num_steps, 0 when it is not set
  Dapo,             \* train_policy.variant = "dapo": groups are filtered by reward
  OnPolicy,         \* train_policy.on_policy
  ValFreq,          \* validation.freq, 0 when validation is disabled
  NumVal,           \* prompts of the validation set
  MaxVersion        \* bound of the weight_version_to_prompt_num table

ConstantsOK ==
  /\ IsFiniteSet(Policies) /\ LeadPolicy \in Policies
  /\ IsFiniteSet(Rollouts) /\ LeadRollout \in Rollouts
  /\ {TrainBatch, NGen, FetchBatch, SyncInterval, NumPrompts, NumVal} \subseteq Nat \ {0}
  /\ {OutdatedFetch, AllowedOutdated, MaxNumSteps, ValFreq, MaxVersion} \subseteq Nat
  /\ {Dapo, OnPolicy} \subseteq BOOLEAN
  \* the validators of policy/config/__init__.py
  /\ AllowedOutdated + 1 >= SyncInterval
  /\ OnPolicy => AllowedOutdated = 0 /\ SyncInterval = 1
  /\ Dapo => OutdatedFetch > 0

ASSUME ConstantsAssumption == ConstantsOK

\* Samples of one training step over all replicas, and prompts that yield them.
GlobalBatch == TrainBatch * Cardinality(Policies)
PromptsPerVersion == (GlobalBatch + NGen - 1) \div NGen
Versions == 0..MaxVersion

Smaller(a, b) == IF a < b THEN a ELSE b

VARIABLES
  \* controller: data fetcher and prompt tags
  promptsLeft,       \* prompts the training dataloader still holds
  versionCount,      \* weight_version_to_prompt_num
  \* controller: PolicyStatusManager
  currentStep, totalSteps,
  remainSamples,     \* remain_samples_num
  samplesOnTheFly,   \* samples_on_the_fly
  status,            \* PolicyStatus of each policy replica
  rolloutBuffer,     \* rollout_buffer, a sequence of weight versions
  onPolicyDone,      \* on_policy_rollout_completed
  \* controller: validation
  validation,        \* active: activated_val_iter is not None; step: the step it was last
                     \* activated for; left, reported: its prompts to hand out, reported back
  \* controller: RolloutStatusManager
  ended,             \* status.ended of each rollout replica
  \* redis command streams, one per replica
  policyCmds, rolloutCmds,
  \* policy workers
  trained,           \* the last step whose weight update the replica has made
  \* rollout workers
  stage,             \* where the main loop stands
  stopping,          \* shutdown_signal: the round of the main loop is the last
  promptQueue,       \* the fetched batch that waits for newer weights
  rewardQueue,       \* batches whose rewards are being computed
  weightVersion,     \* current_weight_version
  weights,           \* the training step whose weights the engine holds
  valFlag,           \* validation_flag: a broadcast asked for validation
  valStep,           \* the step it asked for (current_step)
  valGot             \* validation prompts the replica has taken

dataVars     == <<promptsLeft, versionCount>>
trainVars    == <<currentStep, remainSamples, status, rolloutBuffer, policyCmds>>
valVars      == <<valFlag, valStep, valGot>>
rolloutVars  == <<stage, stopping, promptQueue, rewardQueue, weightVersion, weights, valVars>>
vars == <<dataVars, trainVars, totalSteps, samplesOnTheFly, onPolicyDone, validation,
          ended, rolloutCmds, trained, rolloutVars>>

Statuses == {"READY", "RUNNING", "REDUCED"}
Stages   == {"loop", "ending", "await", "val", "valreport", "stopped"}

DataFetch(step, total, items) ==
  [type |-> "DataFetch", step |-> step, total |-> total, items |-> items]
Sync(type, step, total) ==
  [type |-> type, step |-> step, total |-> total, items |-> 0]

Commands == [type : {"DataFetch", "P2R", "R2R"}, step : Nat, total : Nat, items : Nat]
Batches  == [version : Nat, prompts : Nat]
Validations == [active : BOOLEAN, step : Nat, left : Nat, reported : Nat]

HeadIs(queue, type) == queue # <<>> /\ Head(queue).type = type
DropFirst(s, n) == SubSeq(s, n + 1, Len(s))

-----------------------------------------------------------------------------
(* PolicyStatusManager: how many steps there are, when a step may start *)

FaultyTrainingFinished == FALSE  \* the total is recomputed after the last step was sent

TrainingFinished == currentStep >= totalSteps /\ totalSteps > 0

\* recompute_total_steps for `samples' samples that are still to be trained on.
StepsFor(step, samples) ==
  LET bySamples == step + samples \div GlobalBatch
  IN  IF MaxNumSteps > 0 THEN Smaller(bySamples, MaxNumSteps) ELSE bySamples

FaultyAllAre(st, wanted) == \E p \in Policies : st[p] \in wanted

AllAre(st, wanted) == \A p \in Policies : st[p] \in wanted

FaultyMayStartShort(st, buffer, val) ==  \* without rollouts_enough_for_one_step
  ~val.active /\ ~TrainingFinished /\ AllAre(st, {"READY", "REDUCED"})

FaultyMayStartInValidation(st, buffer, val) ==
  ~TrainingFinished /\ AllAre(st, {"READY", "REDUCED"}) /\ Len(buffer) >= GlobalBatch

MayStart(st, buffer, val) ==
  /\ ~val.active
  /\ ~TrainingFinished
  /\ AllAre(st, {"READY", "REDUCED"})
  /\ Len(buffer) >= GlobalBatch

NeedsValidation(step, total) ==
  ValFreq > 0 /\ (step % ValFreq = 0 \/ step = total)

\* A command for every policy replica, behind those it has yet to run.
FaultyPublish(cmds, cmd) == [p \in Policies |-> <<cmd>> \o cmds[p]]

Publish(cmds, cmd) == [p \in Policies |-> Append(cmds[p], cmd)]

\* try_trigger_data_fetch_and_training from the point where the step is taken:
\* `items' samples go to every replica, followed by its DataFetch command.
StartStep(items, buffer, remain, cmds, total, val) ==
  LET step == currentStep + 1
      used == items * Cardinality(Policies)
  IN  /\ currentStep' = step
      /\ remainSamples' = remain - used
      /\ rolloutBuffer' = DropFirst(buffer, used)
      /\ status' = [p \in Policies |-> "RUNNING"]
      /\ policyCmds' = Publish(cmds, DataFetch(step, total, items))
      /\ validation' = IF NeedsValidation(step, total)
                         THEN [active |-> TRUE, step |-> step, left |-> NumVal, reported |-> 0]
                         ELSE val

\* try_trigger_data_fetch_and_training on the status, buffer, remaining samples
\* and commands its caller leaves behind.
TryTrigger(st, buffer, remain, cmds, val) ==
  \/ /\ MayStart(st, buffer, val)
     /\ StartStep(TrainBatch, buffer, remain, cmds, totalSteps, val)
  \/ /\ ~MayStart(st, buffer, val)
     /\ status' = st
     /\ rolloutBuffer' = buffer
     /\ remainSamples' = remain
     /\ policyCmds' = cmds
     /\ validation' = val
     /\ UNCHANGED currentStep

-----------------------------------------------------------------------------
(* Prompts: Controller.get_batched_prompt *)

Throttled == ~Dapo /\ samplesOnTheFly >= (AllowedOutdated + 1) * GlobalBatch

FaultyRequested == IF Throttled THEN 0 ELSE FetchBatch

\* How many prompts are asked of the data fetcher.  It works in whole batches,
\* so any positive number yields a batch; 0 yields nothing, not even an end.
Requested == IF Throttled THEN Smaller(FetchBatch, OutdatedFetch) ELSE FetchBatch

BaseVersion == currentStep + Len(rolloutBuffer) \div GlobalBatch

\* The weight versions given to n prompts in order: a prompt gets the first
\* version from BaseVersion on that is not yet full.  DAPO tags all alike.
TagCount(tags, upTo, v) == versionCount[v] + Cardinality({j \in 1..upTo : tags[j] = v})

Tagging(tags) ==
  IF Dapo
    THEN \A i \in DOMAIN tags : tags[i] = BaseVersion
    ELSE \A i \in DOMAIN tags :
           LET from == IF i = 1 THEN BaseVersion ELSE tags[i - 1]
           IN  /\ tags[i] >= from
               /\ TagCount(tags, i - 1, tags[i]) < PromptsPerVersion
               /\ \A v \in from..(tags[i] - 1) : TagCount(tags, i - 1, v) >= PromptsPerVersion

TagsFor(n) ==
  {tags \in [1..n -> {v \in Versions : BaseVersion <= v /\ v <= BaseVersion + NumPrompts}] :
     Tagging(tags)}

\* The worker's gate: only the first prompt of the batch is looked at.
FaultyVersionAllowed(r, tags) == TRUE

VersionAllowed(r, tags) == tags[1] <= weightVersion[r] + AllowedOutdated

Generate(r, n) ==
  rewardQueue' = [rewardQueue EXCEPT ![r] =
                    Append(@, [version |-> weightVersion[r], prompts |-> n])]

\* In the round of the main loop, past the commands and the check of the validation
\* flag; a round that is the last leads out of the loop.
Working(r) == stage[r] = "loop" /\ ~valFlag[r]
NextRound(r) == stage' = [stage EXCEPT ![r] = IF stopping[r] THEN "stopped" ELSE "loop"]

FaultyFetchGuard(r) == Working(r) /\ ~ended[r] /\ Requested > 0

FetchGuard(r) ==
  /\ Working(r)
  /\ ~ended[r]
  /\ promptQueue[r] = <<>>
  /\ Requested > 0

\* request_new_prompts with an answer, then the gate and one_step_generation in
\* the same round of the main loop.  A request that is throttled to 0 prompts
\* changes nothing and is a stuttering step.
FetchPrompts(r) ==
  /\ FetchGuard(r)
  /\ promptsLeft > 0
  /\ LET n == Smaller(FetchBatch, promptsLeft)
     IN  \E tags \in TagsFor(n) :
           /\ promptsLeft' = promptsLeft - n
           /\ versionCount' = [v \in Versions |-> TagCount(tags, n, v)]
           /\ samplesOnTheFly' = samplesOnTheFly + n * NGen
           /\ \/ /\ VersionAllowed(r, tags)
                 /\ Generate(r, n)
                 /\ UNCHANGED promptQueue
              \/ /\ ~VersionAllowed(r, tags)
                 /\ promptQueue' = [promptQueue EXCEPT ![r] = tags]
                 /\ UNCHANGED rewardQueue
  /\ NextRound(r)
  /\ UNCHANGED <<trainVars, totalSteps, onPolicyDone, validation, ended, rolloutCmds,
                 trained, stopping, weightVersion, weights, valVars>>

\* A batch that had to wait is generated once the weights are new enough.
HeldIsAllowed(r) == promptQueue[r] # <<>> /\ VersionAllowed(r, promptQueue[r])

GenerateHeld(r) ==
  /\ Working(r)
  /\ HeldIsAllowed(r)
  /\ Generate(r, Len(promptQueue[r]))
  /\ promptQueue' = [promptQueue EXCEPT ![r] = <<>>]
  /\ NextRound(r)
  /\ UNCHANGED <<dataVars, trainVars, totalSteps, samplesOnTheFly, onPolicyDone, validation,
                 ended, rolloutCmds, trained, stopping, weightVersion, weights, valVars>>

\* A last round that has nothing to fetch and nothing it may generate.
Leave(r) ==
  /\ Working(r)
  /\ stopping[r]
  /\ ~FetchGuard(r)
  /\ ~HeldIsAllowed(r)
  /\ NextRound(r)
  /\ UNCHANGED <<dataVars, trainVars, totalSteps, samplesOnTheFly, onPolicyDone, validation,
                 ended, rolloutCmds, trained, stopping, promptQueue, rewardQueue,
                 weightVersion, weights, valVars>>

\* The dataloader is exhausted: PROMPT_CONSUME_END is set and send_end_signal
\* starts, which first reports every outstanding batch.
FetchEnd(r) ==
  /\ FetchGuard(r)
  /\ promptsLeft = 0
  /\ stage' = [stage EXCEPT ![r] = "ending"]
  /\ UNCHANGED <<dataVars, trainVars, totalSteps, samplesOnTheFly, onPolicyDone, validation,
                 ended, rolloutCmds, trained, stopping, promptQueue, rewardQueue,
                 weightVersion, weights, valVars>>

-----------------------------------------------------------------------------
(* Samples: report_rollouts at the worker, put_rollout_group at the controller *)

\* filter_outdated_rollouts: how many of n samples of one version in a report are
\* kept.  Sample idx of the report is estimated to be trained on once the pending
\* samples and the idx samples before it have been.
EstimatedStep(idx) == currentStep + (idx + Len(rolloutBuffer)) \div GlobalBatch

FaultyFreshCount(version, n) ==  \* without the pending samples
  Cardinality({idx \in 0..(n - 1) :
                 currentStep + idx \div GlobalBatch - version <= AllowedOutdated})

FreshCount(version, n) ==
  Cardinality({idx \in 0..(n - 1) : EstimatedStep(idx) - version <= AllowedOutdated})

\* PolicyStatusManager.put_rollouts for n samples that passed the filter.  Each
\* sample is put and followed by a trigger attempt, which can only succeed once;
\* an on-policy step that empties the buffer makes the loop break.
FaultyPutRollouts(version, n, remain) ==  \* drops are not taken off remain_samples_num
  /\ TryTrigger(status, rolloutBuffer \o [i \in 1..n |-> version], remainSamples,
                policyCmds, validation)
  /\ UNCHANGED onPolicyDone

PutRollouts(version, n, remain) ==
  LET missing == GlobalBatch - Len(rolloutBuffer)
      breaks  == /\ OnPolicy
                 /\ 0 < missing /\ missing <= n
                 /\ ~validation.active /\ ~TrainingFinished /\ AllAre(status, {"READY", "REDUCED"})
      put     == IF breaks THEN missing ELSE n
  IN  IF n = 0 \/ (OnPolicy /\ onPolicyDone)
        THEN /\ remainSamples' = remain - n
             /\ UNCHANGED <<currentStep, status, rolloutBuffer, policyCmds, onPolicyDone, validation>>
        ELSE /\ TryTrigger(status, rolloutBuffer \o [i \in 1..put |-> version], remain,
                           policyCmds, validation)
             /\ onPolicyDone' = (onPolicyDone \/ breaks)

\* The batch at the head of the reward queue is done and is posted.  With DAPO
\* any number of its groups may have been filtered by dynamic_sampling.
ReportRollouts(r) ==
  /\ Working(r) \/ stage[r] \in {"ending", "valreport"}
  /\ rewardQueue[r] # <<>>
  /\ LET batch == Head(rewardQueue[r])
     IN  \E valid \in (IF Dapo THEN 0..batch.prompts ELSE {batch.prompts}) :
           LET samples  == valid * NGen
               filtered == (batch.prompts - valid) * NGen
               fresh    == FreshCount(batch.version, samples)
           IN  PutRollouts(batch.version, fresh, remainSamples - filtered - (samples - fresh))
  /\ rewardQueue' = [rewardQueue EXCEPT ![r] = Tail(@)]
  /\ UNCHANGED <<dataVars, totalSteps, samplesOnTheFly, ended, rolloutCmds, trained,
                 stage, stopping, promptQueue, weightVersion, weights, valVars>>

\* put_rollout_group with is_end.  When the last replica has ended and the samples
\* left make no further step, the rest is cleared and an empty DataFetch is sent.
LastStepIsEmpty(newTotal) == newTotal <= currentStep /\ currentStep # totalSteps

SendEndSignal(r) ==
  /\ stage[r] = "ending"
  /\ rewardQueue[r] = <<>>
  /\ NextRound(r)
  /\ ended' = [ended EXCEPT ![r] = TRUE]
  /\ LET allEnded == \A s \in Rollouts \ {r} : ended[s]
         newTotal == IF TrainingFinished THEN totalSteps
                                         ELSE StepsFor(currentStep, Len(rolloutBuffer))
     IN  \/ /\ ~allEnded
            /\ UNCHANGED <<trainVars, totalSteps, validation>>
         \/ /\ allEnded
            /\ ~LastStepIsEmpty(newTotal)
            /\ totalSteps' = newTotal
            /\ UNCHANGED <<trainVars, validation>>
         \/ /\ allEnded
            /\ LastStepIsEmpty(newTotal)
            /\ totalSteps' = currentStep + 1
            /\ \/ /\ ~validation.active
                  /\ StartStep(0, <<>>, remainSamples, policyCmds, currentStep + 1, validation)
               \/ /\ validation.active
                  /\ rolloutBuffer' = <<>>
                  /\ UNCHANGED <<currentStep, remainSamples, status, policyCmds, validation>>
  /\ UNCHANGED <<dataVars, samplesOnTheFly, onPolicyDone, rolloutCmds, trained,
                 stopping, promptQueue, rewardQueue, weightVersion, weights, valVars>>

-----------------------------------------------------------------------------
(* Training: the policy workers and PolicyStatusManager.train_ack *)

\* step_training of a real step: the gradient all-reduce makes the replicas
\* finish it together.
TrainStep ==
  /\ \A p \in Policies :
       /\ HeadIs(policyCmds[p], "DataFetch")
       /\ Head(policyCmds[p]).items > 0
       /\ trained[p] < Head(policyCmds[p]).step
  /\ trained' = [p \in Policies |-> Head(policyCmds[p]).step]
  /\ UNCHANGED <<dataVars, trainVars, totalSteps, samplesOnTheFly, onPolicyDone, validation,
                 ended, rolloutCmds, rolloutVars>>

FaultyNeedsSyncRarely(step, total) ==  \* off by one
  \/ step % (SyncInterval + 1) = 0
  \/ step = total
  \/ ValFreq > 0 /\ step % ValFreq = 0

FaultyNeedsSyncNoValidation(step, total) == step % SyncInterval = 0 \/ step = total

NeedsSync(step, total) ==
  \/ step % SyncInterval = 0
  \/ step = total
  \/ ValFreq > 0 /\ step % ValFreq = 0

\* trigger_weight_sync: one policy-to-rollout unicast, then a broadcast among the
\* rollout replicas.
PolicySync(cmds, step, total) ==
  [cmds EXCEPT ![LeadPolicy] = Append(@, Sync("P2R", step, total))]

FaultyRolloutSyncLatest(step, total) ==  \* a pending broadcast is superseded
  [r \in Rollouts |->
     IF r = LeadRollout
       THEN rolloutCmds[r] \o <<Sync("P2R", step, total), Sync("R2R", step, total)>>
       ELSE <<Sync("R2R", step, total)>>]

RolloutSync(step, total) ==
  [r \in Rollouts |->
     rolloutCmds[r] \o (IF r = LeadRollout THEN <<Sync("P2R", step, total)>> ELSE <<>>)
                    \o <<Sync("R2R", step, total)>>]

\* The end of execute_data_fetch: the replica acknowledges its DataFetch, an empty
\* one without any training, and the controller runs train_ack.
TrainAck(p) ==
  /\ HeadIs(policyCmds[p], "DataFetch")
  /\ LET cmd    == Head(policyCmds[p])
         cmds   == [policyCmds EXCEPT ![p] = Tail(@)]
         acked  == [status EXCEPT ![p] = "REDUCED"]
         ready  == [q \in Policies |-> "READY"]
         synced == NeedsSync(cmd.step, cmd.total)
     IN  /\ cmd.items = 0 \/ trained[p] = cmd.step
         /\ \/ /\ ~AllAre(acked, {"REDUCED"})
               /\ status' = acked
               /\ policyCmds' = cmds
               /\ UNCHANGED <<currentStep, remainSamples, rolloutBuffer, samplesOnTheFly,
                              onPolicyDone, validation, rolloutCmds>>
            \/ /\ AllAre(acked, {"REDUCED"})
               /\ samplesOnTheFly' = samplesOnTheFly - GlobalBatch
               /\ rolloutCmds' = IF synced THEN RolloutSync(cmd.step, cmd.total) ELSE rolloutCmds
               /\ TryTrigger(ready, rolloutBuffer, remainSamples,
                             IF synced THEN PolicySync(cmds, cmd.step, cmd.total) ELSE cmds,
                             validation)
               /\ onPolicyDone' = (onPolicyDone /\ ~OnPolicy)
  /\ UNCHANGED <<dataVars, totalSteps, ended, trained, rolloutVars>>

-----------------------------------------------------------------------------
(* Weights: the rollout workers' command handlers *)

\* policy_to_rollout_unicast: sender and receiver have both reached the command.
\* The receiver then waits for the broadcast before it does anything else.
PolicyToRollout ==
  /\ HeadIs(policyCmds[LeadPolicy], "P2R")
  /\ HeadIs(rolloutCmds[LeadRollout], "P2R")
  /\ stage[LeadRollout] = "loop"
  /\ policyCmds' = [policyCmds EXCEPT ![LeadPolicy] = Tail(@)]
  /\ rolloutCmds' = [rolloutCmds EXCEPT ![LeadRollout] = Tail(@)]
  /\ weights' = [weights EXCEPT ![LeadRollout] = trained[LeadPolicy]]
  /\ stage' = [stage EXCEPT ![LeadRollout] = "await"]
  /\ UNCHANGED <<dataVars, currentStep, remainSamples, status, rolloutBuffer, totalSteps,
                 samplesOnTheFly, onPolicyDone, validation, ended, trained, stopping, promptQueue,
                 rewardQueue, weightVersion, valVars>>

\* broadcast_to_all_rollout_replica: a collective of all rollout replicas.  It sets the
\* weight version and may set the validation flag; the broadcast that ends the worker
\* runs that validation itself, any other leaves it to the main loop, which first takes
\* the commands that have come by then.
RolloutBroadcast ==
  /\ \A r \in Rollouts :
       /\ HeadIs(rolloutCmds[r], "R2R")
       /\ stage[r] = (IF r = LeadRollout THEN "await" ELSE "loop")
  /\ LET cmd      == Head(rolloutCmds[LeadRollout])
         validate == NeedsValidation(cmd.step, cmd.total)
         flag     == [r \in Rollouts |-> validate \/ valFlag[r]]
         stop     == cmd.step >= cmd.total
     IN  /\ weightVersion' = [r \in Rollouts |-> cmd.step]
         /\ weights' = [r \in Rollouts |-> weights[LeadRollout]]
         /\ valStep' = IF validate THEN [r \in Rollouts |-> cmd.step] ELSE valStep
         /\ stopping' = [r \in Rollouts |-> stop]
         /\ stage' = [r \in Rollouts |-> IF stop /\ flag[r] THEN "val" ELSE "loop"]
         /\ valFlag' = [r \in Rollouts |-> flag[r] /\ ~stop]
  /\ rolloutCmds' = [r \in Rollouts |-> Tail(rolloutCmds[r])]
  /\ UNCHANGED <<dataVars, trainVars, totalSteps, samplesOnTheFly, onPolicyDone, validation,
                 ended, trained, promptQueue, rewardQueue, valGot>>

-----------------------------------------------------------------------------
(* Validation: do_validation and validation_report_validation_results *)

\* The iterator of an earlier step is exhausted: its validation has finished.
FaultyValidationLeftEndless(step) == 1

FaultyValidationLeftCurrent(step) == validation.left

ValidationLeft(step) == IF step = validation.step THEN validation.left ELSE 0

FetchValidation(r) ==
  /\ stage[r] = "val" \/ (stage[r] = "loop" /\ valFlag[r])
  /\ valFlag' = [valFlag EXCEPT ![r] = FALSE]
  /\ \/ /\ ValidationLeft(valStep[r]) > 0
        /\ validation' = [validation EXCEPT !.left = @ - 1]
        /\ valGot' = [valGot EXCEPT ![r] = @ + 1]
        /\ stage' = [stage EXCEPT ![r] = "val"]
     \/ /\ ValidationLeft(valStep[r]) = 0
        /\ stage' = [stage EXCEPT ![r] = "valreport"]
        /\ UNCHANGED <<validation, valGot>>
  /\ UNCHANGED <<dataVars, trainVars, totalSteps, samplesOnTheFly, onPolicyDone, ended,
                 rolloutCmds, trained, stopping, promptQueue, rewardQueue, weightVersion,
                 weights, valStep>>

\* The results are posted after the training batches queued before them; nothing
\* is posted for an empty share.  The report that completes the validation set
\* deactivates the validation and lets training go on.
ReportValidation(r) ==
  /\ stage[r] = "valreport"
  /\ rewardQueue[r] = <<>>
  /\ stage' = [stage EXCEPT ![r] = "loop"]
  /\ valGot' = [valGot EXCEPT ![r] = 0]
  /\ LET counted  == IF valStep[r] = validation.step
                       THEN [validation EXCEPT !.reported = @ + valGot[r]] ELSE validation
         finished == valGot[r] > 0 /\ counted.reported = NumVal /\ counted.active
     IN  \/ /\ finished
            /\ TryTrigger(status, rolloutBuffer, remainSamples, policyCmds,
                          [counted EXCEPT !.active = FALSE])
         \/ /\ ~finished
            /\ validation' = counted
            /\ UNCHANGED trainVars
  /\ UNCHANGED <<dataVars, totalSteps, samplesOnTheFly, onPolicyDone, ended, rolloutCmds,
                 trained, stopping, promptQueue, rewardQueue, weightVersion, weights,
                 valFlag, valStep>>

-----------------------------------------------------------------------------
(* The specification *)

Init ==
  /\ promptsLeft = NumPrompts
  /\ versionCount = [v \in Versions |-> 0]
  /\ currentStep = 0
  /\ totalSteps = StepsFor(0, NumPrompts * NGen)
  /\ remainSamples = NumPrompts * NGen
  /\ samplesOnTheFly = 0
  /\ status = [p \in Policies |-> "READY"]
  /\ rolloutBuffer = <<>>
  /\ onPolicyDone = FALSE
  /\ validation = [active |-> FALSE, step |-> 0, left |-> 0, reported |-> 0]
  /\ ended = [r \in Rollouts |-> FALSE]
  /\ policyCmds = [p \in Policies |-> <<>>]
  /\ rolloutCmds = [r \in Rollouts |-> <<>>]
  /\ trained = [p \in Policies |-> 0]
  /\ stage = [r \in Rollouts |-> "loop"]
  /\ stopping = [r \in Rollouts |-> FALSE]
  /\ promptQueue = [r \in Rollouts |-> <<>>]
  /\ rewardQueue = [r \in Rollouts |-> <<>>]
  /\ weightVersion = [r \in Rollouts |-> 0]
  /\ weights = [r \in Rollouts |-> 0]
  /\ valFlag = [r \in Rollouts |-> FALSE]
  /\ valStep = [r \in Rollouts |-> 0]
  /\ valGot = [r \in Rollouts |-> 0]

AllStopped == \A r \in Rollouts : stage[r] = "stopped"

\* Every worker has left its main loop: nothing happens any more.
Terminated == AllStopped /\ UNCHANGED vars

RolloutStep(r) ==
  \/ FetchPrompts(r)
  \/ GenerateHeld(r)
  \/ Leave(r)
  \/ FetchEnd(r)
  \/ ReportRollouts(r)
  \/ SendEndSignal(r)
  \/ FetchValidation(r)
  \/ ReportValidation(r)

Next ==
  \/ \E r \in Rollouts : RolloutStep(r)
  \/ TrainStep
  \/ \E p \in Policies : TrainAck(p)
  \/ PolicyToRollout
  \/ RolloutBroadcast
  \/ Terminated

Spec == Init /\ [][Next]_vars

\* The workers' loops and the threads that deliver commands keep running, a reward
\* computation ends, and collectives complete once every member has entered.
Fairness ==
  /\ \A r \in Rollouts : WF_vars(RolloutStep(r))
  /\ WF_vars(TrainStep)
  /\ \A p \in Policies : WF_vars(TrainAck(p))
  /\ WF_vars(PolicyToRollout)
  /\ WF_vars(RolloutBroadcast)

FairSpec == Spec /\ Fairness

-----------------------------------------------------------------------------
(* Properties *)

TypeOK ==
  /\ promptsLeft \in Nat /\ versionCount \in [Versions -> Nat]
  /\ currentStep \in Nat /\ totalSteps \in Nat
  /\ remainSamples \in Int /\ samplesOnTheFly \in Int
  /\ status \in [Policies -> Statuses]
  /\ rolloutBuffer \in Seq(Nat)
  /\ onPolicyDone \in BOOLEAN
  /\ validation \in Validations
  /\ ended \in [Rollouts -> BOOLEAN]
  /\ policyCmds \in [Policies -> Seq(Commands)]
  /\ rolloutCmds \in [Rollouts -> Seq(Commands)]
  /\ trained \in [Policies -> Nat]
  /\ stage \in [Rollouts -> Stages] /\ stopping \in [Rollouts -> BOOLEAN]
  /\ promptQueue \in [Rollouts -> Seq(Versions)]
  /\ rewardQueue \in [Rollouts -> Seq(Batches)]
  /\ weightVersion \in [Rollouts -> Nat] /\ weights \in [Rollouts -> Nat]
  /\ valFlag \in [Rollouts -> BOOLEAN]
  /\ valStep \in [Rollouts -> Nat] /\ valGot \in [Rollouts -> Nat]

\* A buffered sample is trained on at most AllowedOutdated steps after the weights it
\* was generated with, counting the steps that the samples before it in the buffer fill.
\* filter_outdated_rollouts only estimates that step, once, on arrival.
StaleBound ==
  \A i \in DOMAIN rolloutBuffer :
    currentStep + (i - 1) \div GlobalBatch - rolloutBuffer[i] <= AllowedOutdated

\* No sample, no label and no command is ahead of the controller's step (the assertion
\* of filter_outdated_rollouts, for samples still on their way as well).
VersionNotAhead ==
  /\ \A i \in DOMAIN rolloutBuffer : rolloutBuffer[i] <= currentStep
  /\ \A p \in Policies : \A i \in DOMAIN policyCmds[p] : policyCmds[p][i].step <= currentStep
  /\ \A r \in Rollouts :
       /\ weightVersion[r] <= currentStep
       /\ \A i \in DOMAIN rewardQueue[r] : rewardQueue[r][i].version <= currentStep
       /\ \A i \in DOMAIN rolloutCmds[r] : rolloutCmds[r][i].step <= currentStep

=============================================================================
