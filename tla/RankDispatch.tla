---------------------------- MODULE RankDispatch ----------------------------
(***************************************************************************)
(* The training loop with data_dispatch_as_rank_in_mesh: a prompt of the   *)
(* dataset belongs to one rollout rank and to one policy rank, by its      *)
(* index.  The data fetcher hands a rollout its own prompts, at most one   *)
(* training step's worth for each policy and weight version, and keeps the *)
(* others; the controller has a sample buffer per policy rank and starts a *)
(* step when each of them is full enough.                                  *)
(*                                                                         *)
(* A prompt is its position in the order in which the dataloader yields    *)
(* all epochs.  The synchronisation of weights is the order in which steps *)
(* are broadcast; validation, DAPO, on_policy and changes of the mesh are  *)
(* in TrainFlow and Membership.                                            *)
(*                                                                         *)
(* An operator named Faulty... is a wrong form of the one after it, which  *)
(* uses it nowhere: it is there to see that a property notices the fault.  *)
(***************************************************************************)
EXTENDS Integers, Sequences, FiniteSets, FiniteSetsExt

CONSTANTS
  NumPolicies,      \* policy_global_mesh_size
  NumRollouts,      \* rollout_global_mesh_size
  Size,             \* prompts of the dataset
  Epochs,           \* train.epoch
  Orders,           \* orders in which the sampler may yield the dataset in an epoch
  TrainBatch,       \* train.train_batch_per_replica
  NGen,             \* rollout.n_generation: samples per prompt
  FetchBatch,       \* prompts per request and per batch of the dataloader
  OutdatedFetch,    \* train_policy.outdated_rollout_fetch_batch_size
  AllowedOutdated,  \* train_policy.allowed_outdated_steps
  SyncInterval,     \* train.sync_weight_interval
  MaxVersion        \* bound of the tables that are indexed by a weight version

Policies == 0..(NumPolicies - 1)
Rollouts == 0..(NumRollouts - 1)
Indices == 0..(Size - 1)

ConstantsOK ==
  /\ {NumPolicies, NumRollouts, Size, Epochs, TrainBatch, NGen, FetchBatch, SyncInterval}
       \subseteq Nat \ {0}
  /\ {OutdatedFetch, AllowedOutdated, MaxVersion} \subseteq Nat
  \* a permutation of the dataset
  /\ \A o \in Orders : /\ o \in [1..Size -> Indices]
                       /\ \A x \in Indices : \E i \in 1..Size : o[i] = x
  /\ AllowedOutdated + 1 >= SyncInterval

ASSUME ConstantsAssumption == ConstantsOK

Prompts == 1..(Epochs * Size)
Versions == 0..MaxVersion
GlobalBatch == TrainBatch * NumPolicies
PromptsPerVersion == (GlobalBatch + NGen - 1) \div NGen
Quota == (TrainBatch + NGen - 1) \div NGen  \* prompt_batch_per_replica

Smaller(a, b) == IF a < b THEN a ELSE b

VARIABLES
  order,            \* the dataset index of each prompt of all epochs
  \* controller: data fetcher and prompt tags
  drawn,            \* prompts the dataloader has yielded, in their order
  held,             \* those in fetched_data_buffer
  fetched,          \* data_fetched_for_each_policy_at_step
  versionCount,     \* weight_version_to_prompt_num
  samplesOnTheFly,
  \* controller: PolicyStatusManager
  currentStep, totalSteps, remainSamples,
  buffer,           \* rollout_buffer_per_rank: the samples that wait for each policy
  status,           \* PolicyStatus of each policy
  syncs,            \* steps whose broadcast to the rollouts is still to be run
  ended,            \* status.ended of each rollout
  \* policy workers
  steps,            \* the DataFetch commands a policy is still to answer
  \* rollout workers
  stage, stopping,  \* where the main loop stands; its round is the last
  fetchEnd,         \* prompt_fetch_end
  promptQueue,      \* the fetched prompts that wait for newer weights, with their tag
  rewardQueue,      \* batches whose rewards are being computed
  weightVersion     \* current_weight_version

fetcherVars == <<order, drawn, held, fetched, versionCount>>
trainVars   == <<currentStep, remainSamples, buffer, status, steps>>
rolloutVars == <<stage, stopping, fetchEnd, promptQueue, rewardQueue, weightVersion>>
vars == <<fetcherVars, samplesOnTheFly, trainVars, totalSteps, syncs, ended, rolloutVars>>

NoPrompts == [tag |-> 0, prompts |-> {}]

RolloutRank(i) == order[i] % NumRollouts
PolicyRank(i)  == order[i] % NumPolicies

Pending == SumFunction([p \in Policies |-> Cardinality(buffer[p])])  \* total_pending_rollouts
BaseVersion == currentStep + Pending \div GlobalBatch

-----------------------------------------------------------------------------
(* ControllerDataFetcher.get_batched_prompt *)

\* How many prompts are asked of the data fetcher.
Requested ==
  IF samplesOnTheFly >= (AllowedOutdated + 1) * GlobalBatch
    THEN Smaller(FetchBatch, OutdatedFetch) ELSE FetchBatch

\* What a rollout may still be given: its own prompts, in the order of the dataloader,
\* those that were fetched before in front.
Own(r) == {i \in held \cup {j \in Prompts : j > drawn} : RolloutRank(i) = r}

FaultyPick(S, r, n) ==  \* without data_fetched_for_each_policy_at_step
  \A i \in Own(r) : i \in S <=> Cardinality({j \in S : j < i}) < n

\* The prompts of an answer: the first ones, up to n, that their policy is not yet
\* given enough of for the weight version.
Pick(S, r, n) ==
  \A i \in Own(r) :
    i \in S <=>
      /\ Cardinality({j \in S : j < i}) < n
      /\ fetched[BaseVersion][PolicyRank(i)]
           + Cardinality({j \in S : j < i /\ PolicyRank(j) = PolicyRank(i)}) < Quota

\* Where the batches of the dataloader end: none goes beyond an epoch.
BatchEnds ==
  {e * Size + Smaller(k * FetchBatch, Size) : e \in 0..(Epochs - 1), k \in 1..Size}

\* Batches are drawn until the answer is complete or the dataloader is exhausted.
DrawnFor(S, n) ==
  IF Cardinality({i \in S : i <= drawn}) = n THEN drawn
  ELSE IF Cardinality(S) = n THEN Min({d \in BatchEnds : d >= Max(S)})
  ELSE Epochs * Size

\* The tags of n prompts: versions from BaseVersion on, each filled before the next.
Room(v) == IF v < BaseVersion THEN 0 ELSE PromptsPerVersion - versionCount[v]
RoomBefore(v) == SumFunction([u \in 0..(v - 1) |-> Room(u)])
FirstTag == Min({v \in Versions : Room(v) > 0})
TagsOf(v, n) ==
  IF n <= RoomBefore(v) THEN 0 ELSE Smaller(Room(v), n - RoomBefore(v))

FaultyLeft(S, to) ==  \* an answer from fetched_data_buffer is not deleted from it
  held \cup ({i \in Prompts : drawn < i /\ i <= to} \ S)

\* What fetched_data_buffer keeps once S is answered and the dataloader is at to.
Left(S, to) == (held \cup {i \in Prompts : drawn < i /\ i <= to}) \ S

-----------------------------------------------------------------------------
(* Rollout workers *)

Allowed(r, tag) == tag <= weightVersion[r] + AllowedOutdated

Generate(r, prompts) ==
  rewardQueue' = [rewardQueue EXCEPT ![r] =
                    Append(@, [version |-> weightVersion[r], prompts |-> prompts])]

NextRound(r) == IF stopping[r] THEN "stopped" ELSE "loop"

\* The end of a round: all prompts are fetched and generated, and send_end_signal
\* starts, or the next round begins.
EndOfRound(r) ==
  stage' = [stage EXCEPT ![r] =
              IF fetchEnd'[r] /\ promptQueue'[r].prompts = {} THEN "ending" ELSE NextRound(r)]

\* request_new_prompts, then the gate on the first prompt and one_step_generation in the
\* same round of the main loop.
Fetch(r) ==
  /\ stage[r] = "loop" /\ ~fetchEnd[r] /\ promptQueue[r].prompts = {}
  /\ Requested > 0
  /\ \E S \in SUBSET Own(r) :
       /\ Pick(S, r, Requested)
       /\ LET n    == Cardinality(S)
              to   == DrawnFor(S, Requested)
              left == Left(S, to)
          IN  /\ drawn' = to
              /\ held' = left
              /\ fetchEnd' = [fetchEnd EXCEPT ![r] = n < Requested /\ left = {}]
              /\ fetched' = [fetched EXCEPT ![BaseVersion] =
                   [p \in Policies |-> @[p] + Cardinality({i \in S : PolicyRank(i) = p})]]
              /\ versionCount' = [v \in Versions |-> versionCount[v] + TagsOf(v, n)]
              /\ samplesOnTheFly' = samplesOnTheFly + n * NGen
              /\ \/ /\ S # {} /\ Allowed(r, FirstTag)
                    /\ Generate(r, S)
                    /\ UNCHANGED promptQueue
                 \/ /\ S # {} /\ ~Allowed(r, FirstTag)
                    /\ promptQueue' = [promptQueue EXCEPT ![r] = [tag |-> FirstTag, prompts |-> S]]
                    /\ UNCHANGED rewardQueue
                 \/ /\ S = {}
                    /\ UNCHANGED <<promptQueue, rewardQueue>>
  /\ EndOfRound(r)
  /\ UNCHANGED <<order, trainVars, totalSteps, syncs, ended, stopping, weightVersion>>

\* A batch that had to wait is generated once the weights are new enough.
GenerateHeld(r) ==
  /\ stage[r] = "loop"
  /\ promptQueue[r].prompts # {} /\ Allowed(r, promptQueue[r].tag)
  /\ Generate(r, promptQueue[r].prompts)
  /\ promptQueue' = [promptQueue EXCEPT ![r] = NoPrompts]
  /\ UNCHANGED fetchEnd
  /\ EndOfRound(r)
  /\ UNCHANGED <<fetcherVars, samplesOnTheFly, trainVars, totalSteps, syncs, ended, stopping,
                 weightVersion>>

\* A last round with nothing to fetch and nothing that may be generated.
Leave(r) ==
  /\ stage[r] = "loop" /\ stopping[r]
  /\ IF promptQueue[r].prompts = {} THEN fetchEnd[r] \/ Requested = 0
                                    ELSE ~Allowed(r, promptQueue[r].tag)
  /\ stage' = [stage EXCEPT ![r] = "stopped"]
  /\ UNCHANGED <<fetcherVars, samplesOnTheFly, trainVars, totalSteps, syncs, ended, stopping,
                 fetchEnd, promptQueue, rewardQueue, weightVersion>>

-----------------------------------------------------------------------------
(* PolicyStatusManager: the sample buffers and the trigger of a step *)

TrainingFinished == currentStep >= totalSteps

Before(s, t) ==
  \/ order[s.at] < order[t.at]
  \/ order[s.at] = order[t.at] /\ (s.at < t.at \/ (s.at = t.at /\ s.nth < t.nth))

\* What a step takes of a buffer that sort_queue_by_prompt_idx has sorted.  Samples of the
\* same index come from one rollout, which reports them in the order of the epochs.
NextOf(queue) ==
  {s \in queue : Cardinality({t \in queue : Before(t, s)}) < TrainBatch}

FaultyRolloutsEnough(queues) ==  \* off by one
  \A p \in Policies : Cardinality(queues[p]) > TrainBatch

FaultyRolloutsEnoughOfOne(queues) == \E p \in Policies : Cardinality(queues[p]) >= TrainBatch

RolloutsEnough(queues) == \A p \in Policies : Cardinality(queues[p]) >= TrainBatch

CanStart(sts, queues) ==
  /\ ~TrainingFinished
  /\ \A p \in Policies : sts[p] \in {"READY", "REDUCED"}
  /\ RolloutsEnough(queues)

FaultyStartStep(queues, later, remain, cmds) ==  \* samples dropped in the report are forgotten
  /\ currentStep' = currentStep + 1
  /\ remainSamples' = remainSamples - GlobalBatch
  /\ buffer' = [p \in Policies |-> (queues[p] \ NextOf(queues[p])) \cup later[p]]
  /\ status' = [p \in Policies |-> "RUNNING"]
  /\ steps' = [p \in Policies |->
                 Append(cmds[p], [step |-> currentStep + 1, total |-> totalSteps])]

\* One step more; later are the samples that come after the trigger.
StartStep(queues, later, remain, cmds) ==
  /\ currentStep' = currentStep + 1
  /\ remainSamples' = remain - GlobalBatch
  /\ buffer' = [p \in Policies |-> (queues[p] \ NextOf(queues[p])) \cup later[p]]
  /\ status' = [p \in Policies |-> "RUNNING"]
  /\ steps' = [p \in Policies |->
                 Append(cmds[p], [step |-> currentStep + 1, total |-> totalSteps])]

\* filter_outdated_rollouts: how many of n samples of one version are kept.
FreshCount(version, n) ==
  Cardinality({k \in 0..(n - 1) :
                 currentStep + (k + Pending) \div GlobalBatch - version <= AllowedOutdated})

\* The samples of a report with the numbers in K, per policy.
Samples(batch, K) ==
  LET Number(s) == Cardinality({i \in batch.prompts : i < s.at}) * NGen + s.nth
  IN  [p \in Policies |->
         {s \in [at : batch.prompts, nth : 1..NGen, version : {batch.version}] :
            PolicyRank(s.at) = p /\ Number(s) \in K}]

With(queues, more) == [p \in Policies |-> queues[p] \cup more[p]]

\* report_rollouts and put_rollouts: the samples are put one by one, each with an attempt to
\* start a step, of which one at most succeeds.
Report(r) ==
  /\ stage[r] \in {"loop", "ending"} /\ rewardQueue[r] # <<>>
  /\ LET batch  == Head(rewardQueue[r])
         n      == Cardinality(batch.prompts) * NGen
         fresh  == FreshCount(batch.version, n)
         remain == remainSamples - (n - fresh)
         To(k)  == With(buffer, Samples(batch, 1..k))
         starts == {k \in 1..fresh : CanStart(status, To(k))}
     IN  \/ /\ starts = {}
            /\ buffer' = To(fresh)
            /\ remainSamples' = remain
            /\ UNCHANGED <<currentStep, status, steps>>
         \/ /\ starts # {}
            /\ StartStep(To(Min(starts)), Samples(batch, (Min(starts) + 1)..fresh), remain, steps)
  /\ rewardQueue' = [rewardQueue EXCEPT ![r] = Tail(@)]
  /\ UNCHANGED <<fetcherVars, samplesOnTheFly, totalSteps, syncs, ended, stage, stopping,
                 fetchEnd, promptQueue, weightVersion>>

\* put_rollout_group with is_end.  The last one recomputes the number of steps.  When none
\* is left, an empty step follows; the buffers of the policies are not cleared.
SendEndSignal(r) ==
  /\ stage[r] = "ending" /\ rewardQueue[r] = <<>>
  /\ stage' = [stage EXCEPT ![r] = NextRound(r)]
  /\ ended' = [ended EXCEPT ![r] = TRUE]
  /\ LET last     == \A s \in Rollouts : ended'[s]
         newTotal == IF TrainingFinished THEN totalSteps ELSE BaseVersion
         empty    == last /\ newTotal <= currentStep /\ currentStep # totalSteps
     IN  \/ /\ ~empty
            /\ totalSteps' = IF last THEN newTotal ELSE totalSteps
            /\ UNCHANGED trainVars
         \/ /\ empty
            /\ totalSteps' = currentStep + 1
            /\ currentStep' = currentStep + 1
            /\ status' = [p \in Policies |-> "RUNNING"]
            /\ steps' = [p \in Policies |->
                           Append(steps[p], [step |-> currentStep + 1, total |-> currentStep + 1])]
            /\ UNCHANGED <<remainSamples, buffer>>
  /\ UNCHANGED <<fetcherVars, samplesOnTheFly, syncs, stopping, fetchEnd, promptQueue,
                 rewardQueue, weightVersion>>

\* A policy has trained on its share and acknowledges it: train_ack.  The last one starts
\* the synchronisation of the weights and perhaps the next step.
TrainAck(p) ==
  /\ steps[p] # <<>>
  /\ LET cmd   == Head(steps[p])
         acked == [status EXCEPT ![p] = "REDUCED"]
         ready == [q \in Policies |-> "READY"]
         cmds  == [steps EXCEPT ![p] = Tail(@)]
         sync  == cmd.step % SyncInterval = 0 \/ cmd.step = cmd.total
     IN  \/ /\ \E q \in Policies : acked[q] # "REDUCED"
            /\ status' = acked
            /\ steps' = cmds
            /\ UNCHANGED <<currentStep, remainSamples, buffer, samplesOnTheFly, syncs>>
         \/ /\ \A q \in Policies : acked[q] = "REDUCED"
            /\ samplesOnTheFly' = samplesOnTheFly - GlobalBatch
            /\ syncs' = IF sync THEN Append(syncs, cmd) ELSE syncs
            /\ \/ /\ CanStart(ready, buffer)
                  /\ StartStep(buffer, [q \in Policies |-> {}], remainSamples, cmds)
               \/ /\ ~CanStart(ready, buffer)
                  /\ status' = ready
                  /\ steps' = cmds
                  /\ UNCHANGED <<currentStep, remainSamples, buffer>>
  /\ UNCHANGED <<fetcherVars, totalSteps, ended, rolloutVars>>

\* policy_to_rollout_unicast and broadcast_to_all_rollout_replica: all rollouts take part.
\* (TrainFlow has the commands themselves.)
Broadcast ==
  /\ syncs # <<>>
  /\ \A r \in Rollouts : stage[r] = "loop"
  /\ syncs' = Tail(syncs)
  /\ weightVersion' = [r \in Rollouts |-> Head(syncs).step]
  /\ stopping' = [r \in Rollouts |-> Head(syncs).step >= Head(syncs).total]
  /\ UNCHANGED <<fetcherVars, samplesOnTheFly, trainVars, totalSteps, ended, stage, fetchEnd,
                 promptQueue, rewardQueue>>

-----------------------------------------------------------------------------
(* The specification *)

Init ==
  /\ \E o \in [1..Epochs -> Orders] :
       order = [i \in Prompts |-> o[(i - 1) \div Size + 1][((i - 1) % Size) + 1]]
  /\ drawn = 0
  /\ held = {}
  /\ fetched = [v \in Versions |-> [p \in Policies |-> 0]]
  /\ versionCount = [v \in Versions |-> 0]
  /\ samplesOnTheFly = 0
  /\ currentStep = 0
  /\ totalSteps = (Epochs * Size * NGen) \div GlobalBatch
  /\ remainSamples = Epochs * Size * NGen
  /\ buffer = [p \in Policies |-> {}]
  /\ status = [p \in Policies |-> "READY"]
  /\ syncs = <<>>
  /\ ended = [r \in Rollouts |-> FALSE]
  /\ steps = [p \in Policies |-> <<>>]
  /\ stage = [r \in Rollouts |-> "loop"]
  /\ stopping = [r \in Rollouts |-> FALSE]
  /\ fetchEnd = [r \in Rollouts |-> FALSE]
  /\ promptQueue = [r \in Rollouts |-> NoPrompts]
  /\ rewardQueue = [r \in Rollouts |-> <<>>]
  /\ weightVersion = [r \in Rollouts |-> 0]

Stopped == \A r \in Rollouts : stage[r] = "stopped"

Next ==
  \/ \E r \in Rollouts : Fetch(r)
  \/ \E r \in Rollouts : GenerateHeld(r)
  \/ \E r \in Rollouts : Leave(r)
  \/ \E r \in Rollouts : Report(r)
  \/ \E r \in Rollouts : SendEndSignal(r)
  \/ \E p \in Policies : TrainAck(p)
  \/ Broadcast

Spec == Init /\ [][Next]_vars

\* The main loops, the computation of rewards, the training and the communication go on.

FairSpec ==
  /\ Spec
  /\ \A r \in Rollouts : /\ WF_vars(Fetch(r) \/ GenerateHeld(r) \/ Leave(r))
                         /\ WF_vars(Report(r))
                         /\ WF_vars(SendEndSignal(r))
  /\ \A p \in Policies : WF_vars(TrainAck(p))
  /\ WF_vars(Broadcast)

-----------------------------------------------------------------------------
(* Properties *)

Batches(r) == {rewardQueue[r][k] : k \in 1..Len(rewardQueue[r])}
AtRollout(r) == promptQueue[r].prompts \cup UNION {b.prompts : b \in Batches(r)}

TypeOK ==
  /\ order \in [Prompts -> Indices]
  /\ drawn \in 0..(Epochs * Size) /\ held \subseteq 1..drawn
  /\ fetched \in [Versions -> [Policies -> 0..Quota]]
  /\ versionCount \in [Versions -> 0..PromptsPerVersion]
  /\ {samplesOnTheFly, remainSamples} \subseteq Int
  /\ {currentStep, totalSteps} \subseteq Nat
  /\ \A p \in Policies :
       buffer[p] \subseteq [at : 1..drawn, nth : 1..NGen, version : 0..currentStep]
  /\ status \in [Policies -> {"READY", "RUNNING", "REDUCED"}]
  /\ ended \in [Rollouts -> BOOLEAN]
  /\ stopping \in [Rollouts -> BOOLEAN]
  /\ fetchEnd \in [Rollouts -> BOOLEAN]
  /\ stage \in [Rollouts -> {"loop", "ending", "stopped"}]
  /\ weightVersion \in [Rollouts -> 0..currentStep]
  /\ \A r \in Rollouts : AtRollout(r) \subseteq 1..drawn

\* remain_samples_num, from which a resumed run starts, is what is still to be trained on:
\* the samples that wait and those of every prompt that is not reported yet.  It is kept by
\* try_trigger_data_fetch_and_training and filter_outdated_rollouts alone.
RemainIsExact ==
  remainSamples = Pending + NGen * (Epochs * Size - drawn + Cardinality(held)
     + Cardinality(UNION {AtRollout(r) : r \in Rollouts}))

\* A prompt is in one place: yet to be drawn, in fetched_data_buffer, in one batch of one
\* rollout, or reported, and only then has samples in a buffer.
PromptsAreSeparate ==
  /\ held \subseteq 1..drawn
  /\ \A r \in Rollouts :
       /\ AtRollout(r) \subseteq (1..drawn) \ held
       /\ \A s \in Rollouts \ {r} : AtRollout(r) \cap AtRollout(s) = {}
       /\ \A k \in 1..Len(rewardQueue[r]) :
            /\ rewardQueue[r][k].prompts \cap promptQueue[r].prompts = {}
            /\ \A m \in 1..(k - 1) : rewardQueue[r][k].prompts \cap rewardQueue[r][m].prompts = {}
       /\ \A p \in Policies : \A s \in buffer[p] : s.at \notin held \cup AtRollout(r)

\* samples_on_the_fly, which the throttle of get_batched_prompt reads, counts the samples
\* of the rollouts, the buffers and the step in progress.  A sample dropped as outdated would
\* stay in it, so this also says that the quotas and the tags hand out so few prompts that
\* filter_outdated_rollouts never finds a sample too old, and the throttle opens again.
ThrottleIsExact ==
  samplesOnTheFly = Pending + NGen * Cardinality(UNION {AtRollout(r) : r \in Rollouts})
     + (IF \E p \in Policies : status[p] = "RUNNING" THEN GlobalBatch ELSE 0)

\* samples_on_the_fly never misses a sample of a prompt that was handed out and is not
\* trained on: while a rollout may still ask for prompts, the throttle of get_batched_prompt
\* errs on the safe side only, however the shares, the drops and the steps fall.  After
\* that the extra step, which brings no samples, takes a global batch off all the same, and
\* the assertion of train_ack still holds.
OnTheFlyCovers ==
  /\ samplesOnTheFly >= 0
  /\ (\E r \in Rollouts : ~ended[r]) =>
       samplesOnTheFly >= Pending + NGen * Cardinality(UNION {AtRollout(r) : r \in Rollouts})
         + (IF \E p \in Policies : status[p] = "RUNNING" THEN GlobalBatch ELSE 0)

\* A sample that a step takes out of a buffer is at most allowed_outdated_steps old, although
\* its age was estimated when it came, for one queue without sort_queue_by_prompt_idx.
StaleBound ==
  [][\A p \in Policies : \A s \in buffer[p] \ buffer'[p] :
       currentStep - s.version <= AllowedOutdated]_vars

\* When the last rollout has ended and no step is in progress, put_rollout_group has found
\* that none is left or has sent one: the steps that remain are those that can start.
NoStepIsOwed ==
  \/ TrainingFinished
  \/ \E r \in Rollouts : ~ended[r]
  \/ \E p \in Policies : status[p] = "RUNNING"

\* Every rollout gets its shutdown signal and leaves the main loop.
Terminates == <>Stopped
=============================================================================
