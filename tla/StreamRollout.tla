--------------------------- MODULE StreamRollout ---------------------------
(***************************************************************************)
(* One rollout replica in stream mode (rollout.mode = "async").            *)
(*                                                                         *)
(* Three parties share it.  The main thread goes round main_loop: weight   *)
(* sync commands, validation, reports, then stream_generation_step, which  *)
(* feeds prompts to the RolloutTaskScheduler and collects its results.     *)
(* The scheduler's worker thread moves tasks from task_queue to            *)
(* _active_tasks and starts a coroutine for each.  The reward workers      *)
(* finish what the main thread has handed to the RewardDispatcher.         *)
(* No lock is held between two steps of any of them.                       *)
(*                                                                         *)
(* A task is its kind: a training or a validation prompt.  The code does   *)
(* not even keep that: results of both kinds come back through one queue.  *)
(***************************************************************************)
EXTENDS Integers, Sequences

CONSTANTS
  MaxConcurrent,    \* max_concurrent_requests
  BatchSize,        \* rollout.batch_size and validation.batch_size
  NumPrompts,       \* training prompts in the dataset
  NumVal,           \* validation prompts
  StepPrompts,      \* prompts that make up one training step
  TotalSteps,       \* the controller stops everybody at this step
  ValFreq,          \* validation.freq; 0: none
  AllowedOutdated,  \* allowed_outdated_steps
  MaxFail           \* bound: how many generations may fail

ASSUME StreamConstants ==
  /\ {MaxConcurrent, BatchSize, StepPrompts, TotalSteps} \subseteq Nat \ {0}
  /\ {NumPrompts, NumVal, ValFreq, AllowedOutdated, MaxFail} \subseteq Nat

VARIABLES
  \* controller, as far as this replica sees it
  promptsLeft, published,
  \* main thread
  stage,        \* where main_loop stands
  version,      \* current_weight_version
  stopping,     \* shutdown_signal, set by the controller's last broadcast
  valFlag,      \* validation_flag
  promptQueue,  \* _prompt_queue: at most one batch, with the tag of its first prompt
  fetchEnd,     \* PROMPT_FETCH_END
  consumeEnd,   \* PROMPT_CONSUME_END
  val,          \* the locals of do_validation, and what the controller has left for it
  \* scheduler
  taskQueue,    \* task_queue
  hand,         \* tasks the worker has popped and not yet added to _active_tasks
  running,      \* _active_tasks: coroutines that are not done, of each kind
  done,         \* _active_tasks: coroutines that are done and still in the set
  completed,    \* complete_queue: results of each kind
  phase,        \* the worker thread: asleep, or starting tasks
  failed,       \* generations that failed
  \* RewardDispatcher: results whose reward is computing, resp. is there
  computing, ready,
  reported      \* results posted to the controller for training

mainVars   == <<stage, version, stopping, valFlag, promptQueue, fetchEnd, consumeEnd, val>>
workVars   == <<hand, running, done, phase>>
rewardVars == <<computing, ready, reported>>
vars == <<promptsLeft, published, mainVars, taskQueue, workVars, completed, failed, rewardVars>>

Kinds  == {"train", "val"}
Stages == {"commands", "step", "collect", "val", "valcheck", "valcollect", "stopped"}
None   == [k \in Kinds |-> 0]
Total(count) == count["train"] + count["val"]

Smaller(a, b) == IF a < b THEN a ELSE b
Active == Total(running) + done

Validations ==
  [left : Nat, noMore : BOOLEAN, fetched : Nat, collected : [Kinds -> Nat], idle : BOOLEAN]

NoBatch == [tag |-> 0, size |-> 0]
NoValidation ==
  [left |-> 0, noMore |-> FALSE, fetched |-> 0, collected |-> None, idle |-> FALSE]

Init ==
  /\ promptsLeft = NumPrompts /\ published = 0
  /\ stage = "commands" /\ version = 0 /\ stopping = FALSE /\ valFlag = FALSE
  /\ promptQueue = NoBatch /\ fetchEnd = FALSE /\ consumeEnd = FALSE
  /\ val = NoValidation
  /\ taskQueue = <<>> /\ hand = <<>> /\ running = None /\ done = 0
  /\ completed = None /\ phase = "sleep" /\ failed = 0
  /\ computing = 0 /\ ready = 0 /\ reported = 0

-----------------------------------------------------------------------------
(* The controller and the reward workers *)

\* A step is trained once its samples are there, and its weights are published.
Publish ==
  /\ published < TotalSteps
  /\ reported >= StepPrompts * (published + 1)
  /\ published' = published + 1
  /\ UNCHANGED <<promptsLeft, mainVars, taskQueue, workVars, completed, failed, rewardVars>>

RewardDone ==
  /\ computing > 0
  /\ computing' = computing - 1
  /\ ready' = ready + 1
  /\ UNCHANGED <<promptsLeft, published, mainVars, taskQueue, workVars, completed, failed, reported>>

-----------------------------------------------------------------------------
(* The worker thread: _worker_loop *)

MayTake == Active < MaxConcurrent /\ taskQueue # <<>>

\* An iteration removes the tasks that are done and goes on to start others.  One
\* that finds nothing to do is a stuttering step.
Wake ==
  /\ phase = "sleep" /\ stage # "stopped"
  /\ done > 0 \/ MayTake
  /\ done' = 0
  /\ phase' = "start"
  /\ UNCHANGED <<promptsLeft, published, mainVars, taskQueue, hand, running, completed, failed, rewardVars>>

\* get_nowait: for a moment the task is neither queued nor active.
Take ==
  /\ phase = "start" /\ stage # "stopped"
  /\ hand = <<>> /\ MayTake
  /\ hand' = <<Head(taskQueue)>>
  /\ taskQueue' = Tail(taskQueue)
  /\ UNCHANGED <<promptsLeft, published, mainVars, running, done, phase, completed, failed, rewardVars>>

\* create_task, then _active_tasks.add.
Add ==
  /\ hand # <<>> /\ stage # "stopped"
  /\ running' = [running EXCEPT ![hand[1]] = @ + 1]
  /\ hand' = <<>>
  /\ UNCHANGED <<promptsLeft, published, mainVars, taskQueue, done, phase, completed, failed, rewardVars>>

Sleep ==
  /\ phase = "start" /\ stage # "stopped"
  /\ hand = <<>> /\ ~MayTake
  /\ phase' = "sleep"
  /\ UNCHANGED <<promptsLeft, published, mainVars, taskQueue, hand, running, done, completed, failed, rewardVars>>

\* _generate_single runs in the same thread, hence only while the loop is asleep.
Complete(k) ==
  /\ phase = "sleep" /\ stage # "stopped"
  /\ running[k] > 0
  /\ running' = [running EXCEPT ![k] = @ - 1]
  /\ done' = done + 1
  /\ completed' = [completed EXCEPT ![k] = @ + 1]
  /\ UNCHANGED <<promptsLeft, published, mainVars, taskQueue, hand, phase, failed, rewardVars>>

\* It catches every exception and returns None: no result, and nobody is told.
Fail(k) ==
  /\ phase = "sleep" /\ stage # "stopped"
  /\ running[k] > 0 /\ failed < MaxFail
  /\ running' = [running EXCEPT ![k] = @ - 1]
  /\ done' = done + 1
  /\ failed' = failed + 1
  /\ UNCHANGED <<promptsLeft, published, mainVars, taskQueue, hand, phase, completed, rewardVars>>

-----------------------------------------------------------------------------
(* The main thread: feeding the scheduler *)

\* is_busy, and the room that min(batch_size, ...) leaves.
FaultyRoom == Active < MaxConcurrent  \* tasks that wait in task_queue are not counted

FaultyRoomForBatch == MaxConcurrent - Len(taskQueue) - Active > BatchSize  \* for >=

Room == MaxConcurrent - Len(taskQueue) - Active > 0

\* put_rollout_batch.
Put(kind, n) == taskQueue' = taskQueue \o [i \in 1..n |-> kind]

FaultyNextBatch(left) == IF left = 0 THEN 0 ELSE BatchSize  \* the last batch may be short

\* The data fetcher reads whole batches, whatever number is asked for; it reports
\* the end on a request that finds the data used up.
NextBatch(left) == Smaller(BatchSize, left)

\* The batch this round has to offer: the one that waits, or a fresh one.
Offered ==
  IF promptQueue.size > 0
    THEN promptQueue
    ELSE [tag  |-> (NumPrompts - promptsLeft) \div StepPrompts,
          size |-> NextBatch(promptsLeft)]

\* The gate looks at the first prompt of _prompt_queue, if there is one.
VersionAllowed(batch) == batch.size = 0 \/ batch.tag <= version + AllowedOutdated

\* _stream_generation_feed_prompts for training prompts.
FeedPrompts ==
  IF Room
    THEN /\ promptsLeft' = IF promptQueue.size > 0 THEN promptsLeft
                                                   ELSE promptsLeft - Offered.size
         /\ fetchEnd' = (Offered.size = 0)
         /\ IF VersionAllowed(Offered)
              THEN Put("train", Offered.size) /\ promptQueue' = NoBatch
              ELSE promptQueue' = Offered /\ UNCHANGED taskQueue
    ELSE UNCHANGED <<promptsLeft, fetchEnd, promptQueue, taskQueue>>

FaultyAllTasksCompleted == taskQueue = <<>>  \* without the active ones

\* is_all_tasks_completed.  Only the main thread puts tasks and they become active
\* after they leave the queue, so the two reads in this order are as good as one.
AllTasksCompleted == taskQueue = <<>> /\ Active = 0

-----------------------------------------------------------------------------
(* The main thread: a round of main_loop *)

NeedsValidation(step) == ValFreq > 0 /\ (step % ValFreq = 0 \/ step = TotalSteps)

\* consume_command runs all weight syncs that have arrived; the generations that
\* are running go on.  do_validation follows if one of them asked for it.
ConsumeCommands ==
  /\ stage = "commands"
  /\ version' = published
  /\ stopping' = (published = TotalSteps)
  /\ valFlag' = \E step \in (version + 1)..published : NeedsValidation(step)
  /\ val' = IF valFlag' THEN [NoValidation EXCEPT !.left = NumVal] ELSE val
  /\ stage' = IF valFlag' THEN "val" ELSE "step"
  /\ UNCHANGED <<promptsLeft, published, promptQueue, fetchEnd, consumeEnd, taskQueue,
                 workVars, completed, failed, rewardVars>>

\* report_rollouts posts what is ready; then the first two parts of
\* stream_generation_step: the check for the end, and the next prompts.
Step ==
  /\ stage = "step"
  /\ reported' = reported + ready
  /\ ready' = 0
  /\ consumeEnd' = (fetchEnd /\ AllTasksCompleted /\ computing = 0)
  /\ IF fetchEnd THEN UNCHANGED <<promptsLeft, fetchEnd, promptQueue, taskQueue>>
                 ELSE FeedPrompts
  /\ stage' = "collect"
  /\ UNCHANGED <<published, version, stopping, valFlag, val, workVars, completed, failed, computing>>

\* _stream_generation_collect_results: every result is handed on for its reward.
\* At the end send_end_signal follows, which waits for all rewards and posts them.
Collect ==
  /\ stage = "collect"
  /\ completed' = None
  /\ IF consumeEnd
       THEN /\ reported' = reported + ready + computing + Total(completed)
            /\ computing' = 0 /\ ready' = 0
       ELSE /\ computing' = computing + Total(completed)
            /\ UNCHANGED <<ready, reported>>
  /\ stage' = IF consumeEnd \/ stopping THEN "stopped" ELSE "commands"
  /\ UNCHANGED <<promptsLeft, published, version, stopping, valFlag, promptQueue, fetchEnd,
                 consumeEnd, val, taskQueue, workVars, failed>>

-----------------------------------------------------------------------------
(* The main thread: do_validation *)

\* Feed validation prompts; then is_idle begins with a look at _active_tasks.
ValidationFeed ==
  /\ stage = "val"
  /\ IF ~val.noMore /\ Room
       THEN LET n == NextBatch(val.left)
            IN  /\ Put("val", n)
                /\ val' = [val EXCEPT !.left = @ - n, !.noMore = (n = 0),
                                      !.fetched = @ + n, !.idle = (Active = 0)]
       ELSE /\ val' = [val EXCEPT !.idle = (Active = 0)]
            /\ UNCHANGED taskQueue
  /\ stage' = "valcheck"
  /\ UNCHANGED <<promptsLeft, published, version, stopping, valFlag, promptQueue, fetchEnd,
                 consumeEnd, workVars, completed, failed, rewardVars>>

\* is_end: the rest of is_idle, and as many results as prompts.
ValidationCheck ==
  /\ stage = "valcheck"
  /\ val' = [val EXCEPT !.idle = /\ val.idle /\ val.noMore
                                 /\ taskQueue = <<>> /\ completed = None
                                 /\ val.fetched = Total(val.collected)]
  /\ stage' = "valcollect"
  /\ UNCHANGED <<promptsLeft, published, version, stopping, valFlag, promptQueue, fetchEnd,
                 consumeEnd, taskQueue, workVars, completed, failed, rewardVars>>

FaultyGathered == completed  \* the last results instead of all

Gathered == [k \in Kinds |-> val.collected[k] + completed[k]]

\* get_all takes the results of training prompts too.  After the last round the
\* validation is posted, and before it every reward that was asked for earlier.
ValidationCollect ==
  /\ stage = "valcollect"
  /\ completed' = None
  /\ IF val.idle
       THEN /\ valFlag' = FALSE
            /\ val' = NoValidation
            /\ reported' = reported + ready + computing
            /\ computing' = 0 /\ ready' = 0
            /\ stage' = "step"
       ELSE /\ val' = [val EXCEPT !.collected = Gathered]
            /\ stage' = "val"
            /\ UNCHANGED <<valFlag, rewardVars>>
  /\ UNCHANGED <<promptsLeft, published, version, stopping, promptQueue, fetchEnd, consumeEnd,
                 taskQueue, workVars, failed>>

-----------------------------------------------------------------------------
MainLoop ==
  ConsumeCommands \/ Step \/ Collect \/ ValidationFeed \/ ValidationCheck \/ ValidationCollect
Worker     == Wake \/ Take \/ Add \/ Sleep
Engine(k)  == Complete(k) \/ Fail(k)

Next == Publish \/ RewardDone \/ MainLoop \/ Worker \/ \E k \in Kinds : Engine(k)

Spec == Init /\ [][Next]_vars

\* Every thread runs, every generation and every reward comes to an end, and the
\* controller publishes the steps it has the samples for.
FairSpec ==
  /\ Spec
  /\ WF_vars(MainLoop) /\ WF_vars(Worker) /\ WF_vars(RewardDone) /\ WF_vars(Publish)
  /\ \A k \in Kinds : WF_vars(Engine(k))

-----------------------------------------------------------------------------
(* Properties *)

MainTypes ==
  /\ promptsLeft \in 0..NumPrompts /\ published \in Nat /\ version \in Nat
  /\ stage \in Stages
  /\ stopping \in BOOLEAN /\ valFlag \in BOOLEAN
  /\ fetchEnd \in BOOLEAN /\ consumeEnd \in BOOLEAN
  /\ promptQueue \in [tag : Nat, size : 0..BatchSize]
  /\ val \in Validations

SchedulerTypes ==
  /\ taskQueue \in Seq(Kinds)
  /\ hand \in Seq(Kinds) /\ Len(hand) <= 1
  /\ running \in [Kinds -> Nat] /\ done \in Nat /\ completed \in [Kinds -> Nat]
  /\ phase \in {"sleep", "start"} /\ failed \in Nat

RewardTypes == computing \in Nat /\ ready \in Nat /\ reported \in Nat

\* The type of every variable.
TypeOK == MainTypes /\ SchedulerTypes /\ RewardTypes

\* What the scheduler holds.
Outstanding == Len(taskQueue) + Len(hand) + Total(running)

\* max_concurrent_requests limits the coroutines; what is queued as well exceeds it
\* by less than a batch and the one task that _stream_generation_feed_prompts cannot
\* see because the worker has it in hand.
InFlightIsBounded ==
  /\ Active <= MaxConcurrent
  /\ Outstanding <= MaxConcurrent + BatchSize

\* What it holds, and the results that have left it and are not posted.
Unreported == Outstanding + Total(completed) + computing + ready

\* When the replica has sent its end signal, no result is left behind in the queues,
\* and of all its tasks at most the one that is_all_tasks_completed cannot see.
EndLeavesAtMostOne ==
  stage = "stopped" /\ consumeEnd => Unreported <= 1

Validating == stage \in {"val", "valcheck", "valcollect"}

\* do_validation ends if it begins with nothing in the scheduler and no generation fails.
ValidationEnds ==
  (stage = "val" /\ val = [NoValidation EXCEPT !.left = NumVal]
                 /\ Outstanding = 0 /\ completed = None)
    ~> (~Validating \/ failed > 0)

\* do_validation waits for a result that failed, or it has taken one that is not its
\* own, of a training prompt or of an earlier validation; the number of results will
\* never be that of its prompts.
ValidationStarves ==
  /\ Validating
  /\ failed > 0 \/ val.collected["train"] > 0 \/ val.collected["val"] > val.fetched

\* The prompts that wait are for a step whose weights depend on a sample that is lost.
StepStarves == promptQueue.size > 0 /\ published < promptQueue.tag /\ failed > 0

\* main_loop ends, by the end of the data or the last step, unless it starves.
RunEnds == <>[](stage = "stopped" \/ ValidationStarves \/ StepStarves)

=============================================================================
