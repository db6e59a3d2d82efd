------------------------ MODULE TrainFlowProperties ------------------------
(***************************************************************************)
(* What the training loop promises: accounting of samples, truth of the    *)
(* labels and of the replica states, order of the collectives, validation, *)
(* and termination.                                                        *)
(***************************************************************************)
EXTENDS TrainFlow, FiniteSetsExt

Queued(r) == SumFunction([i \in DOMAIN rewardQueue[r] |-> rewardQueue[r][i].prompts])

\* Samples whose prompts have left the dataloader and that are not yet trained on,
\* dropped or filtered: at the rollout replicas and in the controller's buffer.
InFlight ==
  Len(rolloutBuffer)
    + NGen * SumFunction([r \in Rollouts |-> Len(promptQueue[r]) + Queued(r)])

InTraining == IF \E p \in Policies : status[p] = "RUNNING" THEN GlobalBatch ELSE 0

DataFetches(p) == {i \in DOMAIN policyCmds[p] : policyCmds[p][i].type = "DataFetch"}

SomeoneGenerates == \E r \in Rollouts : ~ended[r]

\* The extra DataFetch without samples that ends a run has not been sent.
NoEmptyStep == SomeoneGenerates \/ currentStep < totalSteps

-----------------------------------------------------------------------------
(* Samples *)

\* remain_samples_num, which total_steps and the resume point are computed from, is
\* exactly what is left to train on until the rollout replicas have all ended; on-policy
\* training may count samples that it has thrown away, but never too few.
RemainIsExact ==
  LET left == NGen * promptsLeft + InFlight
  IN  /\ remainSamples >= left
      /\ SomeoneGenerates /\ ~OnPolicy => remainSamples = left

\* samples_on_the_fly covers every sample that is being generated, waits or is being
\* trained on, so that it is never negative (the assertion of train_ack) and the
\* throttle of get_batched_prompt never lets more than the promised number through.
OnTheFlyCovers == samplesOnTheFly >= InFlight + InTraining

\* The tags give each on-policy step enough prompts, and of the right version: none of
\* their samples is dropped as outdated or cut off when the step is complete.
NoneDropped == remainSamples + currentStep * GlobalBatch = NumPrompts * NGen

\* The end signal of a replica comes after everything it has generated: when all have
\* ended, the samples that the controller clears are the only ones left.
EndIsLast ==
  \A r \in Rollouts :
    ended[r] => promptsLeft = 0 /\ promptQueue[r] = <<>> /\ rewardQueue[r] = <<>>

-----------------------------------------------------------------------------
(* Weights *)

\* A replica that may generate holds the very weights its samples are labelled with:
\* the policy has not trained past the step whose weights it is asked for.
LabelsAreTrue ==
  \A r \in Rollouts :
    /\ stage[r] \in {"loop", "ending"} /\ ~ended[r] => weights[r] = weightVersion[r]
    /\ \A i \in DOMAIN rewardQueue[r] : rewardQueue[r][i].version <= weights[r]

\* The members of a collective that is about to run are at the same command of the
\* same step: the two ends of a unicast, all the replicas of a broadcast.
CollectivesMatch ==
  /\ HeadIs(policyCmds[LeadPolicy], "P2R") /\ HeadIs(rolloutCmds[LeadRollout], "P2R")
       => Head(policyCmds[LeadPolicy]).step = Head(rolloutCmds[LeadRollout]).step
  /\ \A r, s \in Rollouts :
       HeadIs(rolloutCmds[r], "R2R") /\ HeadIs(rolloutCmds[s], "R2R")
         => Head(rolloutCmds[r]).step = Head(rolloutCmds[s]).step

\* Generation lags behind training by a bounded number of steps, whatever the speed of
\* the replicas: the unicast of one synchronisation waits for the broadcast before it.
LagIsBounded ==
  NoEmptyStep => \A r \in Rollouts : currentStep - weightVersion[r] <= 2 * SyncInterval + 1

\* A broadcast takes every replica to newer weights, and while steps are made it leaves no
\* synchronisation of the interval out, however many are on their way.  The extra empty
\* step is an exception: its acknowledgements can stand in for those of the step before.
VersionsAdvance ==
  [][\A r \in Rollouts :
       weightVersion'[r] # weightVersion[r] =>
         /\ weightVersion[r] < weightVersion'[r]
         /\ NoEmptyStep =>
              \A k \in (weightVersion[r] + 1)..(weightVersion'[r] - 1) : k % SyncInterval # 0]_vars

-----------------------------------------------------------------------------
(* Steps *)

\* The status of a replica tells whether it has a DataFetch to answer, of which there
\* is one at a time.  The extra DataFetch that ends a run does not wait for the others.
StatusIsTrue ==
  \A p \in Policies :
    /\ status[p] = "RUNNING" => DataFetches(p) # {}
    /\ NoEmptyStep =>
         /\ Cardinality(DataFetches(p)) <= 1
         /\ DataFetches(p) # {} => status[p] = "RUNNING"

\* A rollout replica stops only when no training step is left to be made, although
\* total_steps may change after the command that stops it was sent.
StopMeansFinished ==
  \A r \in Rollouts :
    stopping[r] =>
      /\ currentStep = totalSteps
      /\ \A p \in Policies : \A i \in DataFetches(p) : policyCmds[p][i].items = 0

-----------------------------------------------------------------------------
(* Validation *)

\* While a validation is active no later step is dispatched, and every prompt of the
\* validation set is still to be handed out, at one replica, or reported.
ValidationIsConserved ==
  validation.active =>
    /\ currentStep = validation.step
    /\ validation.left + validation.reported + SumFunction(valGot)
         = NumVal

\* A replica validates a step only after the controller has opened the validation
\* set for it (the lookup val_iters[validation_step]), with the weights of that step.
ValidationIsOpen ==
  \A r \in Rollouts :
    valFlag[r] \/ stage[r] \in {"val", "valreport"} =>
      /\ valStep[r] <= validation.step
      /\ valGot[r] > 0 => /\ validation.active /\ valStep[r] = validation.step
                         /\ weightVersion[r] = valStep[r]

-----------------------------------------------------------------------------
(* Progress *)

\* Training comes to its end: every rollout worker leaves its main loop.
Terminates == <>AllStopped

=============================================================================
