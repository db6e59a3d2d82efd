# TLA+ models of cosmos_rl

cosmos_rl trains a language model by reinforcement learning on many machines. *Policy*
replicas train, *rollout* replicas generate samples with slightly older weights, and one
*controller* process decides who gets which prompt, when a training step starts, and when
weights travel from the policies to the rollouts. Nothing in it waits for everything: samples
of several weight versions, commands of several steps and validation prompts are on their way
at the same time, while replicas register, die and are replaced.

Five specifications model this, each with its properties, TLC configurations and TLAPS proofs:

| specification | about | main question |
|---|---|---|
| `TrainFlow` | the training loop with a fixed membership | how old may a sample be, do the counters agree, does the run end |
| `Membership` | registration, scaling, death and removal of replicas | does everyone who trains hold the same weights and take the same steps |
| `PolicyMesh` | gradient all-reduces while replicas stop | is an all-reduce ever completed as two different calls, do the survivors recover |
| `StreamRollout` | one rollout replica in asynchronous mode | is work in flight bounded, is anything left behind at the end |
| `RankDispatch` | the training loop when prompts belong to ranks | do quotas, tags and buffers that are kept per rank agree, does the run end |

`BulkSynchronous` is the abstract specification that `Membership` is shown to implement.

Paths below are relative to `src/cosmos_rl/` unless they start with `src/`.

## 1. The system

| part | state it keeps | operations | talks to |
|---|---|---|---|
| `PolicyStatusManager` (`dispatcher/status.py`) | step, total steps, remaining samples, samples on the fly, status of each policy replica, `rollout_buffer` | put rollouts, filter outdated ones, trigger a step, train ack, weight sync, validation report, register, unregister, heartbeats | commands and samples to the workers through redis |
| `RolloutStatusManager` (same file) | rollout replicas, their `ended` flags | end of a rollout, register, unregister, rebuild mesh | commands |
| `Controller` (`dispatcher/controller.py`, REST front end `dispatcher/run_web_panel.py`) | `weight_version_to_prompt_num` | hand out prompts (throttle, tags), pass on reports, NCCL errors | both managers, data fetcher |
| data fetcher (`dispatcher/data/data_fetcher.py`) | dataloader iterators, validation iterators, buffers of rank-indexed dispatch | batches of prompts, activate and clear a validation | controller |
| commands (`dispatcher/command.py`) and redis streams (`utils/redis_stream.py`) | one stream per replica | publish, subscribe | all |
| rollout worker (`rollout/worker/rollout_control.py`) | prompt queue, weight version, validation flag, end-of-data state, shutdown signal | main loop, P2R and R2R handlers, reports, end signal, validation | REST calls, NCCL |
| policy worker (`policy/worker/rl_worker.py`) | command buffer, data queue | DataFetch, P2R, mesh rebuild | REST calls, NCCL |
| `HighAvailabilitylNccl` (`utils/distributed.py`) | communicator, command queue | build mesh, retry a collective | controller |
| asynchronous rollout scheduler (`rollout/worker/asynchronous/rollout_task_scheduler.py`) | task queue, active coroutines, completion queue | put, take, run, get all, idle tests | rollout worker's main thread |
| reward dispatcher (`reward/dispatcher.py`) | rewards that compute or are there | enqueue, dequeue | rollout worker, reward processes |
| SFT workers, colocated mode, teacher replicas | as above, in simpler forms | | controller |
| pure algorithms: `utils/balance_seqlen.py`, `dispatcher/data/load_balanced_dataset.py`, `utils/parallelism_map.py` | none | | |

One training step: a rollout replica fetches a batch of prompts; the controller tags each
prompt with the weight version it is meant for. The replica holds the batch until its own
version plus `allowed_outdated_steps` reaches the tag, generates, has rewards computed and
reports. The controller drops what would be too old when trained on, buffers the rest and,
once every policy has answered the previous step and a global batch is there, sends a
`DataFetch` to every policy. When all have acknowledged it, the controller sends P2R and R2R
commands so that the weights reach the rollouts, and tries to start the next step. When the
data ends, every rollout replica reports the rest and sends an end signal; the last one makes
the controller recompute the number of steps and, if none is left, send an extra empty
`DataFetch`, whose weight sync tells all workers to stop.

What is hard about it, and what correctness means:

* *Interleaving.* Reports, acknowledgements, fetches and broadcasts arrive in any order. The
  age of a sample is estimated once, on arrival; it must bound the age when it is trained on.
* *Accounting.* Three counters describe the same samples (`remain_samples_num`,
  `samples_on_the_fly`, the length of the buffer) and change in different places. Total steps,
  the throttle and the resume point depend on them.
* *Ordering.* Commands of several steps lie in the streams at once. A collective needs all its
  members at the same command, and the weights must be those of the step they are labelled with.
* *Barriers.* The acknowledgement barrier looks at statuses, not at steps.
* *The end.* The number of steps is not known in advance and is recomputed while commands with
  the old number are on their way. Every worker must be told to stop, exactly once there is
  nothing left to do.
* *Validation.* It suspends training, shares one set of prompts among the replicas, and ends
  when an exact number of results has come back.
* *Membership.* Replicas register atom by atom, die, possibly half registered, and are
  replaced; a monitor thread and NCCL error reports change the same tables as the REST handlers.
  Whoever comes must get the weights of the step the others are in, the barrier must not fall
  with somebody in the step, and the steps promised must still be fed.
* *Collectives.* The mesh thread of a policy aborts and rebuilds a communicator that the
  training thread may be using; both write `is_comm_ready`; the retry cannot tell how an
  all-reduce ended at the other members.
* *Threads of a rollout.* In asynchronous mode three threads share queues without a lock; idle
  and completion tests read two counters while a task moves from one to the other.

`PROJECT.json` lists every component and, under "hazards", each of these points at its line.

## 2. Modules

| module | content |
|---|---|
| `TrainFlow`, `TrainFlowProperties`, `MCTrainFlow`, `TrainFlow_proofs`, `TrainFlowStreams_proofs`, `TrainFlowCounts_proofs` | the training loop: state, one action per handler, invariants; counting properties; model values for seven configurations; theorems on types, staleness and the barrier, on the command streams, on the counts |
| `BulkSynchronous` | what a group of workers that train in common steps promises, in five variables |
| `Membership`, `MCMembership`, `Membership_proofs` | the two status managers under a changing membership, its model values, theorems with the refinement of `BulkSynchronous` |
| `PolicyMesh`, `MCPolicyMesh`, `PolicyMesh_proofs` | `HighAvailabilitylNccl` and the controller's error window, its model module, theorems |
| `StreamRollout`, `StreamRollout_proofs` | the stream mode of the rollout worker, theorems |
| `RankDispatch`, `MCRankDispatch`, `RankDispatch_proofs` | dispatch with `data_dispatch_as_rank_in_mesh`, orders of the sampler, theorems |
| `SumTheorems` | sums of the values of a function over a finite set: what they are, how they change, what they count |

`Faulty...` operators are wrong forms of the operator that follows them
(a dropped guard, a missing update). No definition uses them; put in place of the right one,
each makes TLC report the property it is listed with in `PROJECT.json`, "mutants".

The specifications meet where one abstracts what another details. `TrainFlow` has a fixed
membership and the commands themselves; `Membership` lets it change and keeps of a command only
its effect. `Membership` sees an all-reduce as one step; `PolicyMesh` is that step. `TrainFlow`
generates a batch in one step; `StreamRollout` is that step in asynchronous mode, and sees of the
controller only that enough reports publish a version. `RankDispatch` replaces the data
fetcher, the sample buffer and the trigger of `TrainFlow` by those that work per rank, and sees a
weight synchronisation, whose commands are in `TrainFlow`, as one step.

### How `TrainFlow` corresponds to the code

A prompt is its weight-version tag and a sample the weight version it was generated with. The
rest of a payload decides nothing here.

| action | code |
|---|---|
| `FetchPrompts`, `GenerateHeld` | one round of `main_loop`: `request_new_prompts`, `Controller.get_batched_prompt`, the version gate, `one_step_generation` |
| `FetchEnd` | the same round when the dataloader is exhausted; `send_end_signal` starts |
| `ReportRollouts` | `report_rollouts`, then `put_rollout_group`: `dynamic_sampling`, `filter_outdated_rollouts`, `put_rollouts` with the trigger attempts in it |
| `SendEndSignal` | the `is_end` branch of `put_rollout_group`: recompute the steps, or clear the buffer and trigger the empty step |
| `TrainStep` | `step_training` of all policies, which meet in the gradient all-reduce |
| `TrainAck` | the end of `execute_data_fetch` and the whole of `PolicyStatusManager.train_ack`: barrier, weight sync, trigger, on-policy reset |
| `PolicyToRollout` | `policy_to_rollout_unicast` at both ends |
| `RolloutBroadcast` | `broadcast_to_all_rollout_replica` of all rollouts: version, validation flag, shutdown signal |
| `FetchValidation`, `ReportValidation` | `do_validation` and `validation_report_validation_results` |
| `Leave` | the last round of `main_loop` after the shutdown signal, when there is nothing to do in it |

`TryTrigger` is `try_trigger_data_fetch_and_training`; it is part of every action whose
handler calls it, never an action of its own. REST handlers run on one event loop and reach no
`await` that suspends them between their state changes, so each is one atomic step. A worker's
`main_loop` is sequential; `stage` says where it stands: in the loop, between P2R and R2R
("await"), in the blocking parts of the end signal ("ending") and of validation ("val",
"valreport"), or out of the loop ("stopped"). Redis streams are FIFO sequences, one per
replica. A broadcast that carries `weight_step >= total_steps` sets the shutdown signal and the
current round of the main loop is the last; rewards still in the queue at that moment are
never reported, in the model as in the code. The validation flag of any other broadcast is
taken up by the main loop, perhaps after it has run further commands.

### What `TrainFlow` leaves out

* Membership is fixed (see `Membership`). Every replica has registered, meshes are built, version 0 is everywhere.
* One data-parallel rank per replica; a generated batch is one reward task; rewards come back
  in the order they were asked for, as `dequeue_rewards_cal` waits for the oldest.
* `max_retry_for_on_policy <= 0`, no `data_dispatch_as_rank_in_mesh` (see `RankDispatch`), no stream mode of the
  asynchronous engine, no colocated mode, no SFT, no teacher, no validation before training,
  one generation per validation prompt.
* Text generation: an empty completion is replaced by the end token, so a batch yields
  `n_generation` samples per prompt. (Multi-turn and non-text runs may drop some.)
* Epochs follow each other without a partial batch at their boundary: `NumPrompts` counts the
  prompts of all epochs and only the last batch may be short. `RankDispatch` has the epochs.
* A request throttled to 0 prompts changes nothing and is a stuttering step.
* Policies stay in the grace round of `main_loop`, which in the code lasts 30 s, and the wait
  for R2R after P2R, 600 s in the code, has no limit.

### How `Membership` corresponds to the code

| action | code |
|---|---|
| `RegisterAtom` | `register` of an atom that is not the last of its replica: the table entry, and `n_init_replicas` raised |
| `RegisterFirstPolicy`, `RegisterPolicy` | `PolicyStatusManager.register` for the last atom, with its branch for the first replica to arrive, and `post_register_hook` with its search for a replica that has weights: the initial group, a newcomer, a refusal |
| `RegisterRollout` | `RolloutStatusManager.register`, `post_register_hook` and the first broadcast |
| `Leave`, `Exit` | `unregister_from_controller`, at the end or by `atexit` after an error |
| `Crash`, `MonitorRemove` | a process that dies without a word; `maintain_life_status` in the monitor thread, with the `KeyError` that ends it |
| `Fetch`, `GenerateHeld`, `Report` | `get_batched_prompt`, the version gate, `put_rollouts` with the trigger in it |
| `AllReduce`, `Ack` | training of a step by all who run it; `train_ack`: barrier, weight sync, next step |

`Unregister` is `unregister` of either manager: table, status, mesh, total steps, scaling log. It
does not look at the barrier or the trigger again, because the code does not.

What it leaves out: one unit of samples is `train_batch_per_replica`; a command is the effect it
has in the controller's view (the mesh asked for, the weights sent, the step to run); the atoms of
a replica arrive within one heartbeat timeout, so only one that has died is removed half
registered; a worker told to stop fetches nothing more; validation and end signals are off;
resume from a checkpoint is left out. Weights are sent even if their source has just died and the
monitor does not know yet, where the newcomer would really wait for it or raise. A replica in the middle of an all-reduce whose partner dies
is `PolicyMesh`'s subject; here an all-reduce takes all policies that run the step.

### How `PolicyMesh` corresponds to the code

| action | code (`utils/distributed.py`, `utils/pynccl.py`, `dispatcher/controller.py`) |
|---|---|
| `BgTake`, `BgUid`, `BgGiveUp`, `InitDone`, `InitTimeout` | `__run_background_thread`, `__execute_destroy_nccl_comm`, `__execute_build_mesh`: abort under the lock, the uid through the controller's store, the initialisation that needs all members |
| `Enter`, `PassReady`, `Launch`, `Enqueued` | `gradient_reduce_across_dp_replicas_`, `wait_comm_ready`, `nccl_allreduce`, `_submit_nccl`; the lock is held only while the call is enqueued |
| `Complete`, `OpTimeout`, `Fail` | the wait for the stream, `nccl_timeout_watchdog`, the `except` branch of `__do_nccl_op_with_retry` |
| `CloseWindow` | `set_replica_ncclerror` and the 10 s window of `post_ncclerror`: whoever has not reported is removed |
| `MonitorRemove` | removal of a replica without heartbeat |
| `Stop` | a replica dies, or hangs with its heartbeat process going on |

What it leaves out: nobody joins, so a mesh never repeats and names its communicator; a replica
has one atom; live replicas reach an all-reduce within its timeout; the heartbeat timeout (200 s)
is longer than the report window (10 s); broadcast, send and receive, which share the retry.
An all-reduce completes at each member separately: when one of them stops it may complete
at some and fail at others (`Torn`), and one in flight when its communicator is aborted returns
or fails (`Cut`). After `max_retry` failures it is left out and the next one begun (`GivenUp`), unless the replica
is alone by then and has nobody to disagree with (`Skipped`). `calls` and `results` are history, read by the properties only.

### How `StreamRollout` corresponds to the code

| action | code |
|---|---|
| `ConsumeCommands` | `consume_command` with the weight syncs that have arrived, and the validation flag |
| `Step` | `report_rollouts`, the end test of `stream_generation_step`, `_stream_generation_feed_prompts` |
| `Collect` | `_stream_generation_collect_results`, and `send_end_signal` after the last round |
| `ValidationFeed`, `ValidationCheck`, `ValidationCollect` | one round of `do_validation`; `is_idle` reads `_active_tasks` first and the queues later, so it takes two steps |
| `Wake`, `Take`, `Add`, `Sleep` | `_worker_loop`: clean-up, `get_nowait`, `_active_tasks.add`, the sleep |
| `Complete`, `Fail` | `_generate_single`, which runs in the loop's thread and hence only while the loop sleeps |
| `RewardDone` | a reward process |
| `Publish` | the controller and the policies, as this replica sees them |

A task is its kind, training or validation. The code does not keep even that: it marks every task
as training, and all results come back through one queue. What is left out: one replica with one
data-parallel rank; the throttle (a request for nothing is a stuttering step); pause, resume and
stop of the scheduler, which the rollout worker does not call while it generates; an
iteration of the worker loop that finds nothing to do is a stuttering step. `is_busy` and the two
counters of the room are read at once; a task that moves between the reads is counted
twice at worst, which leaves less room.

### How `RankDispatch` corresponds to the code

With `data_dispatch_as_rank_in_mesh` a prompt is its position in the order in which the dataloader
yields all epochs; `order` says which index of the dataset that is, hence to which rollout and which
policy it belongs. A sample is its prompt, its number in the group and the version of its weights.

| action | code |
|---|---|
| `Fetch` | `request_new_prompts`, the whole of `Controller.get_batched_prompt` and `ControllerDataFetcher.get_batched_prompt`, and `one_step_generation` in the same round if the version gate is open |
| `GenerateHeld`, `Leave` | a round with a batch that had to wait; a last round with nothing to do |
| `Report` | `report_rollouts`, `filter_outdated_rollouts`, `put_rollouts` into a buffer per policy, with a trigger attempt per sample |
| `SendEndSignal` | the `is_end` branch of `put_rollout_group` |
| `TrainAck` | a policy trains on its share and acknowledges it: `train_ack` with the next trigger |
| `Broadcast` | `policy_to_rollout_unicast` and `broadcast_to_all_rollout_replica` together |

The data fetcher goes through `fetched_data_buffer` and then draws batches until the answer is
complete. The model says what comes of it: `Pick`, the first prompts of the rollout whose policy is
still below its quota; `DrawnFor`, how far the dataloader is then; `Left`, what the buffer keeps.
`NextOf` is a share of a buffer that `sort_queue_by_prompt_idx` has sorted, which is why the buffer
can be a set. Left out: validation and its buffer, DAPO, on-policy training, and the
rearrangement of the buffers after a change of the mesh.

## 3. What is checked

One type invariant per specification (`TypeOK`), and:

| property | says |
|---|---|
| `StaleBound` | a buffered sample is trained on at most `allowed_outdated_steps` after its weights |
| `RemainIsExact` | `remain_samples_num` is exactly what is left to train on until all rollouts have ended (on-policy: never less) |
| `OnTheFlyCovers` (`TrainFlow`, `Membership` and, while a rollout may ask, `RankDispatch`) | `samples_on_the_fly` covers all samples generated, waiting or trained on, hence is never negative |
| `NoneDropped` | on-policy training throws no sample away (where a step is made of whole prompts and a version of whole batches) |
| `EndIsLast` | an end signal comes after everything the replica has generated |
| `LabelsAreTrue` | a replica that may generate holds the weights its samples are labelled with |
| `CollectivesMatch` | the members of a collective are at the same command |
| `LagIsBounded` | rollouts lag at most `2 * sync_weight_interval + 1` steps |
| `VersionsAdvance` | a broadcast takes every replica to newer weights and, while steps are made, leaves no synchronisation of the interval out |
| `StatusIsTrue` | a policy is RUNNING exactly while it has a DataFetch to answer, one at a time |
| `StopMeansFinished` | a rollout stops only when no step is left |
| `ValidationIsConserved` | validation prompts are neither lost nor doubled, and no step starts meanwhile |
| `ValidationIsOpen` | a replica validates only a step whose set is open, with that step's weights |
| `Terminates` | every rollout worker leaves its main loop |
| `MeshIsCurrent` | the mesh last asked for is the group that works: everybody with a step to run is in it, nobody who has left the table |
| `PoliciesAgree` | policies that train together hold the weights of the current step, newcomers included |
| `TotalIsReachable` | every step promised by `total_steps` can be fed from what remains |
| `RolloutsAreServed` | in whatever order the first replicas of both roles arrive, some rollout has been sent weights |
| `TrainsInLockstep` | `Membership` implements `BulkSynchronous` |
| `RunCompletes` | a run whose policies are there from the start and that loses nobody takes its last step and sends its weights |
| `SameGradient` | a completed all-reduce is the same call of the same communicator at all who completed it, until one is torn, cut or given up; and nobody gives up before `max_retry` replicas are lost |
| `AlignedAfterGivingUp` | the same also after an all-reduce was given up (violated, see section 4) |
| `ReadyMeansUsable` | whoever passes `wait_comm_ready` has a communicator or is alone |
| `Recovers` | two survivors or more finish their all-reduces |
| `TimeoutDoesNotBlock` | the same for any number of survivors (violated, see section 4) |
| `InFlightIsBounded` | coroutines are at most `max_concurrent_requests`, everything in the scheduler at most a batch more |
| `EndLeavesAtMostOne` | at the end signal no result waits in any queue, and at most one prompt is still with the worker thread |
| `ValidationEnds` | a validation that begins with an idle scheduler ends unless a generation fails |
| `RunEnds` | the replica leaves its main loop unless a validation or a step starves for one of two named reasons |
| `PromptsAreSeparate` | with prompts kept per rank, none is handed out twice, lost, or in a buffer before it is reported |
| `ThrottleIsExact` | `samples_on_the_fly` is exactly what rollouts, buffers and the step in progress hold: nothing is dropped, nothing leaks |
| `NoStepIsOwed` | after the last end signal a step is in progress, or none remains (violated, see section 4) |

`StaleBound`, `RemainIsExact` and `Terminates` are stated for `RankDispatch` too, where they have other
reasons: the age of a sample is estimated as in one queue, while there are several, each sorted
by index. `data_fetched_for_each_policy_at_step` is what makes them hold when shares are even;
without it (`FaultyPick`) one policy's buffer runs ahead, samples get outdated and the throttle leaks.

Two more invariants are proved (section 5) and in no run, where others say more: `VersionNotAhead` (no
sample, weight version or command is ahead of the controller's step), since a label ahead of the weights
contradicts `LabelsAreTrue`, and `SyncWaitsForAll` (the weights of a step are sent when no
policy in the table is still in it), which `TrainsInLockstep` asks of every publication.

`StatusIsTrue`, `LagIsBounded` and `VersionsAdvance` exclude the extra empty step: it is sent without
waiting for the acknowledgements of the step before it (finding 3). The exception is needed: in the
configuration of `dapo_two_policies` TLC finds a synchronisation of the interval left out after the extra step.
In `RankDispatch`, `OnTheFlyCovers` asks no more than a natural number after the last end signal, since the buffers are not cleared there and the extra
step takes a global batch off that was never added.

| run | configuration | checks | distinct states |
|---|---|---|---|
| `async_outdated` | GRPO, 1 policy, 2 rollouts, batch 3 of groups of 2, 10 prompts, 1 outdated step | `StaleBound`, `RemainIsExact`, `OnTheFlyCovers`, `Terminates` | 74,416 |
| `dapo_two_policies` | DAPO, 2 policies, 2 rollouts, step limit 2 | `StatusIsTrue`, `EndIsLast`, `StopMeansFinished` | 19,411 |
| `validation` | GRPO, 7 outdated steps, 10 steps of one sample, weights every second step, validation at step 7 and at the end, 2 rollouts, 2 validation prompts | `TypeOK`, `LabelsAreTrue`, `CollectivesMatch`, `LagIsBounded`, `VersionsAdvance`, `ValidationIsConserved`, `ValidationIsOpen`, `Terminates` | 111,062 |
| `on_policy` | 2 policies, 2 rollouts, batches of 2 groups of 2, 12 prompts | `NoneDropped` | 184 |
| `membership` | 3 policies of 2 atoms, an initial group of 2, 2 rollouts; a policy may die, a rollout may exit; 4 units of samples, 2 steps | `TypeOK` and the seven other properties of `Membership` above | 1,018,613 |
| `policy_mesh` | 3 policies, 2 all-reduces, 2 tries; one may die and another hang | `TypeOK`, `SameGradient`, `ReadyMeansUsable`, `Recovers` | 688,780 |
| `stream_rollout` | 2 requests, batches of 2, 7 training and 3 validation prompts, 3 steps, validation every second step, one failure | `TypeOK`, `InFlightIsBounded`, `EndLeavesAtMostOne`, `ValidationEnds`, `RunEnds` | 55,489 |
| `rank_dispatch` | 2 policies, 2 rollouts, 4 prompts in 2 epochs in any of three orders, a share of one prompt, 2 outdated steps, weights every second step | `ThrottleIsExact`, `StaleBound`, `Terminates` | 4,051 |
| `rank_ragged` | 2 policies, 2 rollouts, 6 prompts in 2 epochs, a share of one prompt and a half, 1 outdated step | `TypeOK`, `RemainIsExact`, `PromptsAreSeparate`, `OnTheFlyCovers` | 5,428 |
| `throttle_leak`, `validation_end`, `ack_race` | see findings | `Terminates`, violated | |

Six more configurations reproduce observations of section 4; TLC finds each violated, in seconds
(`tlc -config <cfg> <MC module>`): `MCLoneSurvivor` (`TimeoutDoesNotBlock`), `MCGiveUp`
(`AlignedAfterGivingUp`), `MCRankUneven` and
`MCRankCeiling` (`Terminates`), `MCRankOvertaken` (`StaleBound`), `MCRankOwed` (`NoStepIsOwed`).

**Bounds.** In `TrainFlow` everything is finite because the data is: `NumPrompts` prompts (6 to
12) give three to ten steps, more than the two or three that can be in flight at once, so each
run goes through start, steady state and end. Two rollouts are enough for crossing reports
and for the last end signal to differ from the first; two policies for a barrier. In
`async_outdated` a step takes one and a half prompts, so that batches straddle steps and samples
really are dropped. In `validation` the lag of five steps that `LagIsBounded` allows is reached, and step 7 is
one whose weights are sent for the validation alone. `MaxVersion` (12) is only the size of the tag table: a tag never
exceeds the larger of the number of steps and the number of prompts, both below it or equal.
In `membership` three policies give an initial group, a newcomer and a loss in one behaviour, two
atoms a replica that is registered by half, and two steps a barrier with a step after it. In
`policy_mesh`, `NumOps` is the number of buckets of one gradient reduction, and `MaxStops` bounds
the failures. `MaxRetry` is 2, as many as there are stops, so that retries do run out (with the 3 of the code and two stops
they never would). With every replica able to die and to hang the three safety properties
hold as well (6.8 million states, too many for a regular run). In `stream_rollout` a batch is as large as the
limit of requests, so a batch is fed while others wait; three steps contain two validations, one
of which is that of the last step, and seven prompts leave a short last batch. `MaxFail` bounds the failures; the run also
passes with three requests, five steps, no outdated step, and two failures. In `RankDispatch` two
policies and two rollouts are the least at which ranks differ, and two epochs the least at
which an index comes back; the orders are that of the dataset and two that give the policies
their prompts in blocks and backwards. `MaxVersion` again only sizes tables. No state constraint
is used anywhere. `CHECK_DEADLOCK FALSE` stands where the system does stop: in
`dapo_two_policies` because of the stop that `ack_race` shows, in the violation runs because they
are about stopping, in `membership`, `policy_mesh`, `stream_rollout` and the runs of `RankDispatch` because the run ends, or
stops where the listed observations say so.

**Fairness.** Weak fairness throughout, no strong fairness.
`TrainFlow`: each rollout replica's loop as a whole (it is sequential and never blocks except in
collectives and in the waits that `stage` shows), training, each policy's acknowledgement, and the
two collectives, which complete once all members have entered. `Membership`: every replica is
launched and registers, workers go on with what they have to do, the monitor goes on scanning;
nobody is obliged to fail. `PolicyMesh`: both threads of each replica, the monitor, the close of
the report window, and the initialisation of a communicator that all members have entered.
`StreamRollout`: the main thread, the worker thread, the end of each generation and each reward, and the
controller's publication of a step whose samples it has. `RankDispatch`: as `TrainFlow`. Nothing is assumed about the speed of
any of them.

**What the liveness properties assume.** `Recovers` is about behaviours in which two replicas or
more are up and registered, no living one was taken for hung or lost its mesh thread, and no
mesh overtook a failure; `RunCompletes` about those in which nobody is lost before the end. Section 4 says what
happens in the others. `RunEnds` names two ways not to end, `ValidationStarves` and `StepStarves`.

## 4. Findings

1. **The throttle does not forget dropped samples** (`throttle_leak`). `filter_outdated_rollouts`
   drops samples but leaves them in `samples_on_the_fly`, which only `train_ack` decrements
   (`dispatcher/status.py:947`). With `outdated_rollout_fetch_batch_size = 0`, the default,
   a throttled request is for 0 prompts, and once `(allowed_outdated_steps + 1)` batches' worth
   have leaked it stays so: no prompt and no end of data is ever answered again.
   The configuration's documentation speaks of the number of *left uncompleted* samples.
   `async_outdated` shows that the value 1 restores progress.
2. **The last DataFetch can be lost** (`validation_end`). `try_trigger_data_fetch_and_training`
   returns while a validation is active (`dispatcher/status.py:1248`), before it looks at
   `is_fake_last_cmd`; the validation's own retry is not an empty one, and the buffer has been
   cleared. Nobody is told to stop.
3. **Acknowledgements of two steps mix** (`ack_race`). The empty last DataFetch is sent to
   policies of which some have not answered the step before. If A answers both before B answers
   the first, the barrier falls at B's answer to the first and not at the last step, whose
   weight sync would have been the signal to end.

Further observations, each of them a behaviour of the models that a property excludes or a hazard
records:

* *A lone survivor waits for ever* (`MCLoneSurvivor`). `__do_nccl_op_with_retry` asks
  `is_single_peer` only before its retry loop (`utils/distributed.py:578`). When the other of
  two replicas hangs, the survivor is given a mesh of one, without a communicator; its retry
  fails, clears `is_comm_ready` and waits for a BuildMesh that nobody sends. The documentation of
  elastic training says that a timeout does not block the workflow.
* *Who gives up is out of step* (`MCGiveUp`). After `max_retry` failures the loop of
  `__do_nccl_op_with_retry` ends without an error (`utils/distributed.py:582`) and the replica goes
  on to the next bucket. On the next mesh its first call is for that bucket, while a survivor that has failed less
  often still retries the one before: both complete, each with the sum of two different buckets, and
  everything after is shifted by one. The TODO at `distributed.py:158` fears just this ("when comm is rebuilt, the
  reduce result will be wrong"). With one try, three policies and one death suffice; in general it takes `max_retry`
  losses and two survivors, so five policies and three losses with the 3 of the code.
* *Uneven ranks never end* (`MCRankUneven`). What a policy may not be given for the weight version
  stays in `fetched_data_buffer`, and `is_end` asks for an empty one
  (`dispatcher/data/data_fetcher.py:627`). With three prompts for two policies one of them runs
  out first, no further step starts, so the version and the quota stay as they are and no rollout
  sends its end signal.
* *Two ways to round up* (`MCRankCeiling`). The quota is `ceil(share / n_generation)` per policy
  (`data_fetcher.py:470`), the tags are `ceil(global batch / n_generation)` per version
  (`dispatcher/controller.py:248`). With 3 samples per policy and 2 generations the second prompt
  of the second policy is tagged for version 1; fully synchronised, it waits for the step
  that waits for it.
* *Lower indices overtake* (`MCRankOvertaken`). `sort_queue_by_prompt_idx` (`status.py:1313`) lets
  samples of the next epoch go before those that wait, which are then older than
  `filter_outdated_rollouts` has estimated.
* *A step is owed* (`MCRankOwed`). The last end signal recomputes `total_steps` from the sum of the
  buffers (`run_web_panel.py:454`). If a global batch is left but one buffer is short of its
  share, no step can start and the extra step that would end the run is not sent. The four
  observations about ranks concern shares of unequal size: with equal shares, a multiple of
  `n_generation`, and as many prompts for each rank, `rank_dispatch` shows none of them.
* *On-policy batches that do not divide.* On-policy, what a complete step does not take is cut off. A version
  is `ceil(global batch / n_generation)` prompts (`dispatcher/controller.py:248`), so if `n_generation` does not divide the
  global batch the rest of its last prompt is lost; and if the rollout batch does not divide a version's prompts, the
  batch that lies across two versions waits as one for the version of its first prompt, and the rest of its samples
  is lost (TLC finds `NoneDropped` violated with groups of 2 and with single samples in batches of 2, in
  both cases with `train_batch_per_replica = 3`).
* *Samples of a lost rollout.* `RolloutStatusManager.unregister` (`status.py:1492`) leaves what
  the replica was generating in `samples_on_the_fly`; the effect on the others is that of finding 1.
* *A lost policy.* `unregister` (`status.py:349-369`) never evaluates the barrier or the trigger.
  When the last policy that has not answered dies, or when the buffer becomes
  sufficient because one fewer policy is left, nothing starts the next step until another report.
* *A policy joins in the middle of a step.* It enters the table as READY, and `all_reduced`
  (`status.py:293`) is false until it has taken a step, so the barrier of the running step falls
  only with a step that includes it; samples buffered before the initial group is complete do not
  trigger on its completion either.
* *A half registered policy that dies* has no entry in `status`; the `KeyError` ends the monitor
  thread and later losses go unnoticed.
* *Abort of an all-reduce in flight.* The lock is released before the stream is waited for
  (`utils/distributed.py:588`), so the mesh thread may abort under it, and the call may return as
  if complete. After three failures an all-reduce is left without an error and the gradient is
  used unreduced. A failure's handler clears `is_comm_ready` even if the next mesh has just set it.
* *Validation in asynchronous mode.* `do_validation` takes all results that come back
  (`rollout_control.py:837`), also of training prompts that were running when it began. The number
  of results then never equals that of its prompts and it does not end (`ValidationStarves`). The
  same happens when a generation raises, because `_generate_single` only logs it.
* *The window of the worker loop.* Between `get_nowait` and `_active_tasks.add` a task is in no
  count. The end signal may be sent with one prompt still to be generated, and a validation may end
  while a task runs.
* *Labels in asynchronous mode.* A sample is labelled with the weight version at its collection
  (`rollout_control.py:1697`); the scheduler is neither drained nor paused for a weight sync.
* *Limits that are not modelled.* Redis streams are trimmed to a maximum length
  (`utils/redis_stream.py:207`); a policy leaves after one grace round of 30 s
  (`policy/worker/rl_worker.py:842`); a rollout waits at most 600 s for the R2R that follows a P2R
  (`rollout_control.py:1455`); a dataset smaller than one step gives `total_steps = 0`
  (`run_web_panel.py:461`).

## 5. What is proved

Every theorem is for all values of the constants that satisfy the assumption of its module (ranges of
parameters and what the validators of `policy/config/__init__.py` enforce), which TLC evaluates
in each run. Nothing else is assumed, but for `OnPolicyKeepsAll`, whose statement names its condition.

**`TrainFlow_proofs`**: `TypeCorrect`, `NoVersionAhead`, `BoundedStaleness`, `EndSignalIsLast`,
`StatusIsTheBarrier` (`TypeOK`, `VersionNotAhead`, `StaleBound`, `EndIsLast`, `StatusIsTrue`).

The inductive invariant is `IInv == TypeOK /\ VersionNotAhead /\ StaleBound`. None of the last
two is inductive on its own. `StaleBound` speaks of the buffer, but a sample enters the buffer from a
report, whose version must be a natural number for the filter to mean anything. The filter keeps
a *prefix* of a report of one version (`FreshPrefix`: the estimated step grows with the position),
so the sample in place `i` of the kept ones has the estimate that belongs to the place in the
buffer where it will lie; a sample dropped in the middle would shift those behind it, to earlier
places. Starting a step takes a global batch off the front and adds one to the step, which leaves
`step + place \div batch` unchanged for the others (`DivShift`, `DropFirstStale`); this is why an
estimate made once remains true. `VersionNotAhead` needs the commands' steps bounded by the
controller's, since a weight version comes from a command and a batch's version from a weight
version. `IInv` is split (`Parts`) into what the controller's actions touch (`CoreInv`), what
the rollouts' queues hold (`RolloutInv`) and plain types (`PlainTypes`); one lemma per action
re-establishes the parts it changes and `Frames` the others.

`EndIsLast` needs `EndingIsEmpty`: between its last request and its end signal a
replica has no prompts, and has not ended before. With it nothing can make `NoEmptyStep` true
again, since `total_steps` changes only in an end signal, and the one that sends the extra step
makes it false. `StatusInv` restates `StatusIsTrue` without cardinalities, on the places of the DataFetch
commands in a stream (`Fetches`), so that a command appended (`AppendFetches`) or taken
(`TailFetches`) is a statement about places. A trigger attempt starts a step only when no status is
RUNNING, hence no stream holds a step (`TryTriggerStatus`); an acknowledgement answers the only
one of its replica (`TrainAckStatus`).

**`TrainFlowStreams_proofs`**: `CollectivesAreMatched`, `LabelsAreTheWeights`, `LagIsTwoIntervals`,
`VersionsNeverSkip` (`CollectivesMatch`, `LabelsAreTrue`, `LagIsBounded`, `VersionsAdvance`).

These are about commands that the controller has put into several streams at once and that
workers take out independently of each other. The invariants therefore speak of sets of places
(`Places`) and of steps (`Steps`) in a stream, about which taking the first command (`IsRest`) and
adding one (`IsLonger`) are easy to state. `OrderInv` has four parts. `RoundInv`: within one round
of the barrier, who has answered has at most the extra empty step before it. `StreamsMatch`:
the streams of the leading policy and of the leading rollout hold unicasts of the same steps, those of
all rollouts broadcasts of the same steps, newer than the weights they have, and each stream is in increasing order.
`BehindInv`: a weight synchronisation still pending is of an earlier step than any DataFetch still pending, so a
new one is added behind the others. That is false after the extra empty step, which does not wait
for the acknowledgements; but then some policy is READY without a DataFetch (`Dead`), no round can end any more and no
synchronisation is added, so the disjunction is inductive. `CollectivesMatch` follows since the first of
an increasing stream is the least of a set of steps, and the sets are equal.

`LabelsAreTrue` needs in addition where the policy stands: `MadeInv` (`trained` of the leading policy
is the step of every unicast before it, and a DataFetch is the last command of its stream, so the
policy does not train past a unicast) and `LabelInv` (every unicast in the leading rollout's stream is
followed by its broadcast; between the two the leading rollout holds the weights to be broadcast; a report is never
of newer weights than its replica's). `LagIsBounded` needs `LagInv`, that no synchronisation is left out: every step that
is a multiple of `sync_weight_interval`, is over and is newer than a rollout's weights is in that rollout's
stream. With a larger lag two of them would be on their way; the later one still has its unicast before
it, in the leading policy's stream too, although it is more than one step old, which `MadeInv` excludes.
`VersionsAdvance` follows from the same two: a broadcast is the first of an increasing stream
and newer than the weights (`StreamsMatch`), so a multiple of the interval between the two versions would have to be in
that stream by `LagInv`, before its first broadcast.

**`TrainFlowCounts_proofs`**: `ValidationConserves`, `ValidationIsOpened`, `RemainCounts`,
`StoppingIsFinal`, `FlightIsCovered`, `OnPolicyKeepsAll` (`ValidationIsConserved`, `ValidationIsOpen`,
`RemainIsExact`, `StopMeansFinished`, `OnTheFlyCovers`, `NoneDropped`).

`ValInv` adds to the two validation properties that an inactive validation has nothing left and nobody
holds prompts of it, that a command which asks for a validation in a stream is not of a later step than the one
opened last (`Opened`), and that a replica has prompts only in the two stages of a validation.
For the sample counters, every action is a `Flow`: so many samples are lost (dropped or filtered),
so many taken into a step, and what is left, `remain_samples_num` and the step times the global batch
change by just that. `RemainIsExact` is then one line per action. `StopMeansFinished` needs `BudgetInv`,
that while anybody generates, `total_steps` is still that of the whole dataset and the samples left and those already
trained on stay within it, so that the last step promised is not started before the last samples are
generated and a recomputation in an end signal can only lower the number to what is there; `StopInv` then follows a
command of a last step from the controller to the rollouts' streams. `OnTheFlyCovers` by itself is not inductive:
an acknowledgement subtracts a global batch when the round ends, also that of the extra step, for which
none was added. `FlyInv` states it for all rounds still to end (`Covers`): if every policy can still give
`k` answers, the counter exceeds what is in flight by `k` global batches; while somebody generates it is also exact, which is what
the extra step finds when it is sent.

`OnPolicyKeepsAll` holds under `WholeBatches`: on-policy and not DAPO, `n_generation` divides the global batch, the rollout batch
divides a version's prompts. Both divisions are needed (section 4). `OnPolicyInv` ties the tags to the
buffer, which no counter does. The tags fill one version after another (`Share`), so what has been fetched determines
them. Who waits, waits for the weights of the current step or of a later one, and whatever is under way
was generated with the weights of the step it will be trained in. Of the prompts fetched, all but those
waiting for later versions are of steps up to the one being filled, so the buffer and the rollouts together never hold more than
a global batch of samples that are not waiting for later ones. And when a step is complete, nothing more is generated until its weights arrive.
Hence the filter finds no sample too old and `put_rollouts` has nothing to cut off. The one place left where a
sample could go is the clearing of the buffer in the last end signal. The recomputed total is the old one
(`SameTotal`), since nothing was lost, so the buffer is cleared only when it is empty.

**`SumTheorems`**: `SumFunction` of the community modules is a fold, and a theorem by induction that takes an
operator as parameter is of no use here. Its lemmas are by a least counterexample: a nonempty set of naturals
has a least element (`LeastElement`, from the well-foundedness of `<`), so a set of naturals that
has 0 and successors is `Nat` (`Induction`, about sets). From it: a sum exists and is an integer, does not depend on
the order (`SumsAgree`), changes with one value by the difference (`SumDiffers`, `SumUpdate`), and grows
and shrinks with a sequence (`SumAppend`, `SumTail`). The sizes of disjoint sets add up to that of their union
(`SumOfSets`), where every element of a finite set has the others above or below it, the numbers of those
below are 0, 1 and so on, each once (`Ranks`), and a sum of smaller
values is smaller, and equal only if all of them are (`SumBelow`).

**`Membership_proofs`**: `MeshAlwaysCurrent`, `PoliciesAlwaysAgree`, `SyncAlwaysWaits`,
`TotalAlwaysReachable`, `PoliciesTrainInLockstep`, the refinement, and `MembershipTypeOK`,
`FlightIsCovered`, `RolloutsAlwaysServed` (`TypeOK`, `OnTheFlyCovers`, `RolloutsAreServed`).

The inductive invariant `MembersInv` joins `MeshIsCurrent`, `SyncWaitsForAll` and `TotalIsReachable` with what they
need (`PoliciesAgree` follows): `MembersTyped`, the types (of the counters only that they are integers);
`TablesAgree`, how the controller's tables fit together (whoever trains is registered with all its
atoms; whoever was in a mesh or was sent weights is so too or has gone for good; only a RUNNING
policy has reduced its gradients); `WeightsAgree`, that whoever trains is loaded, and that every
loaded and complete policy, hence every source of a newcomer's weights, holds those of the
current step. Without `TablesAgree` an unregistration could leave a status behind, without
`WeightsAgree` a newcomer could be given the weights of a source that has none, which is the case
`RegisterPolicy` refuses. The refinement maps the policies READY, RUNNING or REDUCED to the group
and those RUNNING to the busy ones. Registration of the policy that completes the initial group is a `Join` of all of
it; an acknowledgement is a `Finish`, the last with its broadcast and perhaps the next step; a
report that triggers is a `Begin`; a removal a `Leave`; everything else stutters. `AllIn` of READY
and REDUCED is what makes `busy = {}` there, and `WeightsAgree` gives equal weights.

That the counters never fall below zero is `CountsInv`. `remain` covers the prompts still to come and what
is under way (`Fed`), so a step that takes its units leaves it a natural number; `samples_on_the_fly` covers what is under way and one
unit for each policy in a step, also for those that join or are lost in the middle. The tags need a bound of
their own (`TagsAreLimited`): a prompt moves the last tag in use by at most one, hence the search for a version with
room ends. A total of 0 steps is a boundary case that `StepsAreLimited` describes. `RolloutsAreServed` needs
that the initial group of rollouts is complete and, in it, somebody has been sent weights or no policy has any
(`ServedInv`): the first two arrivals, of either role in either order, are where it is established
(the branch of `register` for the first policy, the search of `post_register_hook` for a replica with weights), and no other step can undo it while no rollout is lost (`Onward`).

**`PolicyMesh_proofs`**: `MeshTypeOK`, `ReadyIsUsable`, `GradientsAgree` (`TypeOK`, `ReadyMeansUsable`, `SameGradient`).
For the first two the strengthening `OpsInRange` says where the training thread may stand at the last all-reduce.
`SameGradient` rests on two invariants, one for each of its parts.

`LossInv`: a replica gives up only after `max_retry` losses. All meshes that are asked for, built or used form a chain
(`MeshesInv`), since an unregistration takes replicas away one after the other (`UnregisterSends`) and a replica is sent
only what it belongs to (`QueueInv`). Whoever is missing from a replica's mesh is lost, so `Away(p)`, the number of
those missing, is at most the number of the lost, and smaller if another of the mesh is lost as well
(`AwayAreLost`). A call fails only because a member has stopped or left, and a member leaves only
after a loss (`LeftInv`); a replica then waits for a smaller mesh before it tries again. So `tries` is
at most `Away`, one more between a failure and the next mesh (`TriesOf`).

`StepInv`: calls that meet are for the same op. The `nth` call on a communicator is for op `Base + nth - 1`, with the same
`Base` at all members (`InStep`). The step that establishes it is the end of an initialisation (`SameOpAtForming`): if `q`
were behind `p`, then `p` has completed the op that `q` is at (`NoneLeftOut`), with `q` among the members, because communicators
shrink; so `q` has called it (`DoneByAll`) and completed it, which it has not, or failed in it, and
it is torn (`Accounted`). Here the three exceptions are needed: a call that is cut is in neither state, and one that is given up leaves a gap
in `NoneLeftOut`.

**`StreamRollout_proofs`**: `StreamTypeOK`, `BoundedInFlight`, `AtMostOneIsLost` (`TypeOK`,
`InFlightIsBounded`, `EndLeavesAtMostOne`). `StreamInv` adds three facts to the types. The bound
must count tasks that are done but not yet removed, and the one in hand, since adding it
makes a coroutine (`SchedulerIsBounded`); a task in hand has a free place waiting for it because
only the worker thread adds (`HandHasItsPlace`); and from the test for the end on nothing is fed,
so the scheduler only loses tasks, and what the test could not see is the one in hand
(`EndIsDrained`).

**`RankDispatch_proofs`**: `DispatchIsExclusive` (`PromptsAreSeparate`), for every number of policies
and rollouts, dataset, order, batch and quota. The property needs three more facts
(`DispatchInv`): the dataloader is within its epochs, reward queues are sequences, and
samples are of drawn prompts, since a prompt drawn now must not be in a buffer already. The work is in
`DrawnForCovers`: an answer is never larger than asked (`PickIsBounded`, by its greatest
element), so either it comes from the prompts drawn before, or it is complete
and the batch in which its last prompt lies is the last one drawn, or the dataloader is exhausted; in each case the
answer lies within what has been drawn, so nothing is both answered and still to come. After that a fetch
moves prompts into one rollout, a report moves the oldest batch out of it (`AppendApart`,
`TailApart`), and all other steps only take samples out of buffers.

`RankTypeOK` and `RankRemainCounts` (`TypeOK`, `RemainIsExact`) add `RankTyped`, the types with two facts that
`TypeOK` does not state: a buffer holds a sample (a prompt and a number) at most once, and the commands of a
policy and the pending synchronisations are of steps that have started, from which the weights get their versions. An answer stays
within the quota because its last prompt for a policy found room (`SharesFit`), and within the tags
because a version is given at most its room (`TagsFit`). The counts need that the model's
set expressions have the sizes that the code's lists have by construction: the prompts of a batch
are ranked by how many lie before them, so its samples are numbered from 1 without a gap or repetition
(`Numbers`), and those with numbers in `K`, over all policies, are as many as `K` has (`SamplesAre`); a step takes
`train_batch_per_replica` samples out of each buffer because their order is total when no sample is there twice
(`NextIsShare`). A report that starts a step in the middle is then a put, a take and a second put, of numbers
that the first did not have (`PutSamples`, `TakeShares`, `ReportPuts`). `remain_samples_num` is exact in the form `Counted`: only
a report and a step change both sides, and a fetch leaves the unreported prompts as many as they were (`TakesKeep`).

`RankFlightIsCovered` (`OnTheFlyCovers`) follows the samples through a report: they leave the rollouts, enter the
buffers or are dropped, and by `RemainIsExact` just those dropped or taken into a step come off `remain_samples_num`. What the
counter must cover can therefore only shrink, except that a step in progress counts for a whole global batch. `FlightInv` says
why that is one: while a rollout may ask, a policy has at most one step to answer and is then RUNNING
(`Rounds`), so the last answer takes a global batch off both sides, and the extra step, which breaks this, comes after all have
ended. That the counter does not fall below zero then either, although the acknowledgements of two steps may
mix, needs a count of the rounds that have ended (`LedgerInv`): each took a global batch off,
and to each every policy has given an answer, so they are at most the steps started. Those are no more than the prompts
handed out are worth: as long as steps remain because what is left is still in `remain_samples_num` (`BudgetInv`), and at the
end because all prompts have been handed out (`EndInv`) and no step beyond the dataset was ever promised, also
by the recomputed total (`PromisedInv`).

## 6. What is only model-checked

Liveness (`Terminates`, `RunCompletes`, `Recovers`, `ValidationEnds`, `RunEnds`) and ENABLED are
outside what the prover handles.

Two properties are no theorems for all values of the constants. `ThrottleIsExact` and `StaleBound` of `RankDispatch` hold for the
shares of `rank_dispatch` and not for all: where samples get outdated they stay in the counter, and
where later samples of a lower index overtake those that wait these can get older than their estimate
(`MCRankOvertaken`, section 4).

## 7. What could follow

1. Rank-indexed dispatch under a changing membership: the rearrangement of buffers and prompts
   after a mesh rebuild, composed of `RankDispatch` and `Membership`.
2. End signals and validation under a changing membership, composed of `TrainFlow` and
   `Membership`.
3. Redis streams with trimming, refined to the FIFO of `TrainFlow` as long as a reader lags less
   than the bound.
4. Acknowledgements and validation of multi-replica SFT.
5. `rearrange_mini_batches`, the load-balanced dataset and the replay buffer against reference
   definitions.

## 8. Not modelled, and why

Models, trainers and kernels, which are most of the repository's lines, are tensor computation,
with no state that a protocol depends on. The reward service, launcher, tools and
command line are I/O around the loop. The colocated mode runs policy and rollout in one process
and lacks the concurrency that is the subject here. Teacher replicas answer requests that the loop does not
wait for. Checkpoints are files. SFT and the limits of the redis streams are in section 7: a
simpler copy of the same barrier, and a transport that is lossless at the lengths the loop
produces. Every component with its status is in
`PROJECT.json`.
