------------------------ MODULE StreamRollout_proofs ------------------------
(***************************************************************************)
(* What the scheduler of a stream-mode rollout replica may hold, and what  *)
(* it may still hold when the replica says that it has finished.           *)
(***************************************************************************)
EXTENDS StreamRollout, SequenceTheorems, TLAPS

\* A task in the worker's hand has its place in _active_tasks: nothing else can take
\* it, and no coroutine runs before the task is added.
HandHasItsPlace == hand # <<>> => phase = "start" /\ Active < MaxConcurrent

\* The bound in the form that a coroutine's end keeps: done tasks still count.
SchedulerIsBounded ==
  /\ Active <= MaxConcurrent
  /\ Len(taskQueue) + Len(hand) + Active <= MaxConcurrent + BatchSize

\* From the check for the end on, nothing is fed and the scheduler only loses tasks.
EndIsDrained ==
  consumeEnd =>
    /\ fetchEnd
    /\ stage \in {"collect", "stopped"}
    /\ Outstanding <= 1
    /\ stage = "stopped" => Unreported <= 1

\* The strengthening of the safety properties that every step preserves.
StreamInv == TypeOK /\ HandHasItsPlace /\ SchedulerIsBounded /\ EndIsDrained

-----------------------------------------------------------------------------
(* Counting *)

LEMMA KindsOf == Kinds = {"train", "val"} /\ None \in [Kinds -> Nat] /\ Total(None) = 0
BY DEF Kinds, None, Total

LEMMA Sizes ==
  /\ MaxConcurrent \in Nat /\ BatchSize \in Nat /\ StepPrompts \in Nat \ {0}
  /\ NumPrompts \in Nat /\ NumVal \in Nat
BY StreamConstants DEF StreamConstants

LEMMA Quotient == ASSUME NEW n \in Nat, NEW d \in Nat \ {0} PROVE n \div d \in Nat
OBVIOUS

LEMMA NoValidationType == NoValidation \in Validations
BY KindsOf DEF NoValidation, Validations

LEMMA TotalType == ASSUME NEW count \in [Kinds -> Nat] PROVE Total(count) \in Nat
BY DEF Total, Kinds

\* Everything that is counted is a natural number.
LEMMA Counts ==
  ASSUME TypeOK
  PROVE  /\ Total(running) \in Nat /\ Total(completed) \in Nat
         /\ Len(taskQueue) \in Nat /\ Len(hand) \in Nat
         /\ Active \in Nat /\ Outstanding \in Nat /\ Unreported \in Nat
         /\ done \in Nat /\ computing \in Nat /\ ready \in Nat
<1>1. Total(running) \in Nat /\ Total(completed) \in Nat
  BY TotalType DEF TypeOK, SchedulerTypes
<1>2. Len(taskQueue) \in Nat /\ Len(hand) \in Nat
  BY LenProperties DEF TypeOK, SchedulerTypes
<1>3. done \in Nat /\ computing \in Nat /\ ready \in Nat
  BY DEF TypeOK, SchedulerTypes, RewardTypes
<1>. QED BY <1>1, <1>2, <1>3 DEF Active, Outstanding, Unreported

LEMMA TotalUp ==
  ASSUME NEW count \in [Kinds -> Nat], NEW k \in Kinds
  PROVE  /\ [count EXCEPT ![k] = @ + 1] \in [Kinds -> Nat]
         /\ Total([count EXCEPT ![k] = @ + 1]) = Total(count) + 1
<1>1. CASE k = "train" BY <1>1 DEF Total, Kinds
<1>2. CASE k = "val"   BY <1>2 DEF Total, Kinds
<1>. QED BY <1>1, <1>2 DEF Kinds

LEMMA TotalDown ==
  ASSUME NEW count \in [Kinds -> Nat], NEW k \in Kinds, count[k] > 0
  PROVE  /\ [count EXCEPT ![k] = @ - 1] \in [Kinds -> Nat]
         /\ Total([count EXCEPT ![k] = @ - 1]) = Total(count) - 1
<1>1. CASE k = "train" BY <1>1 DEF Total, Kinds
<1>2. CASE k = "val"   BY <1>2 DEF Total, Kinds
<1>. QED BY <1>1, <1>2 DEF Kinds

\* A batch is at most BatchSize and at most what is left, and empty only if nothing is.
LEMMA NextBatchType ==
  ASSUME NEW left \in Nat
  PROVE  NextBatch(left) \in Nat /\ NextBatch(left) <= left /\ NextBatch(left) <= BatchSize
BY StreamConstants DEF StreamConstants, NextBatch, Smaller

\* put_rollout_batch makes the queue longer by the batch.
LEMMA PutType ==
  ASSUME TypeOK, NEW kind \in Kinds, NEW n \in Nat, Put(kind, n)
  PROVE  taskQueue' \in Seq(Kinds) /\ Len(taskQueue') = Len(taskQueue) + n
<1>. DEFINE batch == [i \in 1..n |-> kind]
<1>1. batch \in Seq(Kinds) /\ Len(batch) = n
  OBVIOUS
<1>2. taskQueue \in Seq(Kinds)
  BY DEF TypeOK, SchedulerTypes
<1>3. taskQueue' = taskQueue \o batch
  BY DEF Put
<1>. HIDE DEF batch
<1>. QED BY <1>1, <1>2, <1>3, ConcatProperties

-----------------------------------------------------------------------------
(* Frames: each part of the invariant speaks of a few variables only *)

LEMMA Unchanged ==
  ASSUME StreamInv, UNCHANGED vars
  PROVE  StreamInv'
BY DEF vars, mainVars, workVars, rewardVars, StreamInv, TypeOK, MainTypes, SchedulerTypes,
       RewardTypes, HandHasItsPlace, SchedulerIsBounded, EndIsDrained, Outstanding, Unreported,
       Active

\* A step of the controller or of a reward worker.
LEMMA OutsideStep ==
  ASSUME StreamInv, Publish \/ RewardDone
  PROVE  StreamInv'
<1>1. CASE Publish
  <2>1. TypeOK'
    BY <1>1 DEF Publish, mainVars, workVars, rewardVars, StreamInv, TypeOK, MainTypes,
                SchedulerTypes, RewardTypes
  <2>. QED BY <1>1, <2>1 DEF Publish, mainVars, workVars, rewardVars, StreamInv,
              HandHasItsPlace, SchedulerIsBounded, EndIsDrained, Outstanding, Unreported,
              Active
<1>2. CASE RewardDone
  <2>1. TypeOK'
    BY <1>2 DEF RewardDone, mainVars, workVars, StreamInv, TypeOK, MainTypes,
                SchedulerTypes, RewardTypes
  <2>2. HandHasItsPlace' /\ SchedulerIsBounded'
    BY <1>2 DEF RewardDone, mainVars, workVars, StreamInv, HandHasItsPlace, SchedulerIsBounded, Active
  <2>3. UNCHANGED <<stage, consumeEnd, fetchEnd>> /\ Outstanding' = Outstanding
    BY <1>2 DEF RewardDone, mainVars, workVars, Outstanding
  <2>4. Unreported' = Unreported
    <3>1. /\ computing' = computing - 1 /\ ready' = ready + 1
          /\ Total(completed)' = Total(completed)
      BY <1>2 DEF RewardDone
    <3>. QED BY <2>3, <3>1, Counts DEF StreamInv, Unreported
  <2>5. EndIsDrained'
    BY <2>3, <2>4 DEF StreamInv, EndIsDrained
  <2>. QED BY <2>1, <2>2, <2>5 DEF StreamInv
<1>. QED BY <1>1, <1>2

-----------------------------------------------------------------------------
(* The worker thread and the engine: tasks go from the queue over the hand to the
   active ones, none comes in, and a task that is done leaves last *)

LEMMA StillDrained ==
  ASSUME StreamInv, stage # "stopped", UNCHANGED <<stage, consumeEnd, fetchEnd>>,
         Outstanding' \in Nat, Outstanding' <= Outstanding
  PROVE  EndIsDrained'
BY Counts DEF StreamInv, EndIsDrained

LEMMA WakeStep == ASSUME StreamInv, Wake PROVE StreamInv'
<1>1. TypeOK'
  BY DEF Wake, mainVars, rewardVars, StreamInv, TypeOK, MainTypes, SchedulerTypes, RewardTypes
<1>2. Active' \in Nat /\ Active' <= Active /\ Outstanding' = Outstanding
  <2>1. Active' = Total(running) /\ Active = Total(running) + done
    <3>1. Total(running)' = Total(running) /\ done' = 0
      BY DEF Wake
    <3>. QED BY <3>1, Counts DEF StreamInv, Active
  <2>2. Outstanding' = Outstanding
    BY DEF Wake, Outstanding
  <2>. QED BY <2>1, <2>2, Counts DEF StreamInv
<1>3. UNCHANGED <<taskQueue, hand, stage, consumeEnd, fetchEnd>> /\ hand = <<>>
  BY DEF Wake, mainVars, StreamInv, HandHasItsPlace
<1>4. SchedulerIsBounded' /\ HandHasItsPlace'
  BY <1>2, <1>3, Counts, Sizes DEF StreamInv, SchedulerIsBounded, HandHasItsPlace
<1>5. EndIsDrained'
  BY <1>2, <1>3, Counts, StillDrained DEF Wake, StreamInv
<1>. QED BY <1>1, <1>4, <1>5 DEF StreamInv

LEMMA TakeStep == ASSUME StreamInv, Take PROVE StreamInv'
<1>1. taskQueue \in Seq(Kinds) /\ taskQueue # <<>> /\ Active < MaxConcurrent
  BY DEF Take, MayTake, StreamInv, TypeOK, SchedulerTypes
<1>2. /\ Head(taskQueue) \in Kinds /\ Tail(taskQueue) \in Seq(Kinds)
      /\ Len(Tail(taskQueue)) = Len(taskQueue) - 1
  BY <1>1, HeadTailProperties
<1>3. /\ taskQueue' = Tail(taskQueue) /\ hand' = <<Head(taskQueue)>> /\ hand = <<>>
      /\ phase' = "start" /\ stage # "stopped"
      /\ UNCHANGED <<running, done, stage, consumeEnd, fetchEnd>>
  BY DEF Take, mainVars
<1>4. hand' \in Seq(Kinds) /\ Len(hand') = 1 /\ Len(hand) = 0
  BY <1>2, <1>3
<1>5. TypeOK'
  BY <1>2, <1>3, <1>4
  DEF Take, mainVars, rewardVars, StreamInv, TypeOK, MainTypes, SchedulerTypes, RewardTypes
<1>6. Active' = Active
  BY <1>3 DEF Active, Total
<1>7. Len(taskQueue') = Len(taskQueue) - 1
  BY <1>2, <1>3
<1>8. Outstanding' = Outstanding
  <2>1. Total(running)' = Total(running)
    BY <1>3
  <2>. QED BY <1>4, <1>7, <2>1, Counts DEF StreamInv, Outstanding
<1>9. SchedulerIsBounded' /\ HandHasItsPlace'
  BY <1>1, <1>3, <1>4, <1>6, <1>7, Counts DEF StreamInv, SchedulerIsBounded, HandHasItsPlace
<1>10. EndIsDrained'
  BY <1>3, <1>8, Counts, StillDrained DEF StreamInv
<1>. QED BY <1>5, <1>9, <1>10 DEF StreamInv

LEMMA AddStep == ASSUME StreamInv, Add PROVE StreamInv'
<1>1. /\ hand # <<>> /\ hand' = <<>> /\ stage # "stopped"
      /\ running' = [running EXCEPT ![hand[1]] = @ + 1]
      /\ UNCHANGED <<taskQueue, done, stage, consumeEnd, fetchEnd>>
  BY DEF Add, mainVars
<1>2. hand \in Seq(Kinds) /\ Len(hand) <= 1 /\ running \in [Kinds -> Nat]
  BY DEF StreamInv, TypeOK, SchedulerTypes
<1>3. Len(hand) = 1 /\ hand[1] \in Kinds /\ Len(hand') = 0 /\ hand' \in Seq(Kinds)
  <2>1. Len(hand) \in Nat /\ Len(hand) # 0
    BY <1>1, <1>2, EmptySeq
  <2>2. Len(hand) = 1
    <3>. DEFINE n == Len(hand)
    <3>1. n \in Nat /\ n # 0 /\ n <= 1
      BY <1>2, <2>1
    <3>. HIDE DEF n
    <3>2. n = 1
      BY <3>1
    <3>. QED BY <3>2 DEF n
  <2>3. hand[1] \in Kinds
    <3>1. 1 \in 1..Len(hand)
      BY <2>2
    <3>. QED BY <1>2, <3>1, ElementOfSeq
  <2>. QED BY <1>1, <2>2, <2>3
<1>4. running' \in [Kinds -> Nat] /\ Total(running)' = Total(running) + 1
  BY <1>1, <1>2, <1>3, TotalUp
<1>5. TypeOK'
  BY <1>1, <1>3, <1>4
  DEF Add, mainVars, rewardVars, StreamInv, TypeOK, MainTypes, SchedulerTypes, RewardTypes
<1>6. Active' = Active + 1
  BY <1>1, <1>4, Counts DEF StreamInv, Active
<1>7. Outstanding' = Outstanding
  BY <1>1, <1>3, <1>4, Counts DEF StreamInv, Outstanding
<1>8. Active < MaxConcurrent
  BY <1>1 DEF StreamInv, HandHasItsPlace
<1>9. SchedulerIsBounded' /\ HandHasItsPlace'
  BY <1>1, <1>3, <1>6, <1>8, Counts, Sizes DEF StreamInv, SchedulerIsBounded, HandHasItsPlace
<1>10. EndIsDrained'
  BY <1>1, <1>7, Counts, StillDrained DEF StreamInv
<1>. QED BY <1>5, <1>9, <1>10 DEF StreamInv

LEMMA SleepStep == ASSUME StreamInv, Sleep PROVE StreamInv'
BY DEF Sleep, mainVars, rewardVars, StreamInv, TypeOK, MainTypes, SchedulerTypes, RewardTypes,
       HandHasItsPlace, SchedulerIsBounded, EndIsDrained, Outstanding, Unreported, Active

\* A generation that ends, with a result or without, stays among the active tasks.
LEMMA EngineStep == ASSUME StreamInv, NEW k \in Kinds, Engine(k) PROVE StreamInv'
<1>1. /\ phase = "sleep" /\ stage # "stopped" /\ running[k] > 0
      /\ running' = [running EXCEPT ![k] = @ - 1] /\ done' = done + 1
      /\ UNCHANGED <<taskQueue, hand, phase, stage, consumeEnd, fetchEnd>>
  BY DEF Engine, Complete, Fail, mainVars
<1>2. running \in [Kinds -> Nat] /\ completed \in [Kinds -> Nat]
  BY DEF StreamInv, TypeOK, SchedulerTypes
<1>3. running' \in [Kinds -> Nat] /\ Total(running)' = Total(running) - 1
  BY <1>1, <1>2, TotalDown
<1>4. completed' \in [Kinds -> Nat] /\ failed' \in Nat
  <2>1. failed \in Nat
    BY DEF StreamInv, TypeOK, SchedulerTypes
  <2>2. CASE Complete(k)
    BY <1>2, <2>1, <2>2, TotalUp DEF Complete
  <2>3. CASE Fail(k)
    BY <1>2, <2>1, <2>3 DEF Fail
  <2>. QED BY <2>2, <2>3 DEF Engine
<1>5. TypeOK'
  <2>1. UNCHANGED <<promptsLeft, published, mainVars, rewardVars>>
    BY DEF Engine, Complete, Fail
  <2>2. MainTypes'
    BY <2>1 DEF mainVars, StreamInv, TypeOK, MainTypes
  <2>3. RewardTypes'
    BY <2>1 DEF rewardVars, StreamInv, TypeOK, RewardTypes
  <2>4. SchedulerTypes'
    BY <1>1, <1>3, <1>4 DEF StreamInv, TypeOK, SchedulerTypes
  <2>. QED BY <2>2, <2>3, <2>4 DEF TypeOK
<1>6. Active' = Active
  BY <1>1, <1>3, Counts DEF StreamInv, Active
<1>7. Outstanding' = Outstanding - 1 /\ Outstanding' \in Nat
  <2>1. Outstanding' = Outstanding - 1
    BY <1>1, <1>3, Counts DEF StreamInv, Outstanding
  <2>2. Total(running)' \in Nat
    BY <1>3, TotalType
  <2>3. Outstanding' \in Nat
    BY <1>1, <2>2, Counts DEF StreamInv, Outstanding
  <2>. QED BY <2>1, <2>3
<1>8. SchedulerIsBounded' /\ HandHasItsPlace'
  BY <1>1, <1>6 DEF StreamInv, SchedulerIsBounded, HandHasItsPlace
<1>9. EndIsDrained'
  BY <1>1, <1>7, Counts, StillDrained DEF StreamInv
<1>. QED BY <1>5, <1>8, <1>9 DEF StreamInv

-----------------------------------------------------------------------------
(* The main thread *)

\* A round that is not at its end: the check for the end has not been passed.
LEMMA NotAtEnd == ASSUME StreamInv, stage \notin {"collect", "stopped"} PROVE ~consumeEnd
BY DEF StreamInv, EndIsDrained

\* Feeding a batch when there is room.
LEMMA PutKeepsBound ==
  ASSUME StreamInv, Room, NEW kind \in Kinds, NEW n \in Nat, n <= BatchSize, Put(kind, n),
         UNCHANGED workVars
  PROVE  taskQueue' \in Seq(Kinds) /\ SchedulerIsBounded'
<1>1. taskQueue' \in Seq(Kinds) /\ Len(taskQueue') = Len(taskQueue) + n
  BY PutType DEF StreamInv
<1>2. Len(taskQueue) + Active < MaxConcurrent /\ Len(hand) <= 1 /\ Active <= MaxConcurrent
  <2>1. TypeOK /\ Len(hand) <= 1 /\ Active <= MaxConcurrent
    BY DEF StreamInv, TypeOK, SchedulerTypes, SchedulerIsBounded
  <2>2. MaxConcurrent - Len(taskQueue) - Active > 0
    BY DEF Room
  <2>. QED BY <2>1, <2>2, Counts, Sizes
<1>3. Active' = Active /\ hand' = hand
  BY DEF workVars, Active
<1>4. Len(taskQueue') + Len(hand) + Active <= MaxConcurrent + BatchSize
  BY <1>1, <1>2, Counts, Sizes DEF StreamInv
<1>. QED BY <1>1, <1>2, <1>3, <1>4 DEF SchedulerIsBounded

LEMMA ConsumeCommandsStep == ASSUME StreamInv, ConsumeCommands PROVE StreamInv'
<1>1. ~consumeEnd' /\ UNCHANGED <<taskQueue, workVars, completed, failed, rewardVars>>
  BY NotAtEnd DEF ConsumeCommands
<1>2. NumVal \in Nat /\ valFlag' \in BOOLEAN /\ stopping' \in BOOLEAN
  BY StreamConstants DEF StreamConstants, ConsumeCommands
<1>3. val' \in Validations
  <2>1. [NoValidation EXCEPT !.left = NumVal] \in Validations
    BY NoValidationType, Sizes DEF Validations
  <2>. QED BY <2>1 DEF ConsumeCommands, StreamInv, TypeOK, MainTypes
<1>4. MainTypes'
  BY <1>2, <1>3 DEF ConsumeCommands, StreamInv, TypeOK, MainTypes, Stages
<1>. QED BY <1>1, <1>4 DEF workVars, rewardVars, StreamInv, TypeOK, SchedulerTypes, RewardTypes,
            HandHasItsPlace, SchedulerIsBounded, EndIsDrained, Active

LEMMA CollectStep == ASSUME StreamInv, Collect PROVE StreamInv'
<1>1. UNCHANGED <<taskQueue, workVars, failed, fetchEnd, consumeEnd>> /\ completed' = None
  BY DEF Collect
<1>2. RewardTypes'
  BY Counts DEF Collect, StreamInv, TypeOK, RewardTypes
<1>3. TypeOK'
  BY <1>1, <1>2, KindsOf DEF Collect, workVars, StreamInv, TypeOK, MainTypes, SchedulerTypes, Stages
<1>4. HandHasItsPlace' /\ SchedulerIsBounded'
  BY <1>1 DEF workVars, StreamInv, HandHasItsPlace, SchedulerIsBounded, Active
<1>5. EndIsDrained'
  <2>1. SUFFICES ASSUME consumeEnd'
                 PROVE  fetchEnd' /\ stage' = "stopped" /\ Outstanding' <= 1 /\ Unreported' <= 1
    BY DEF EndIsDrained
  <2>2. consumeEnd /\ fetchEnd /\ Outstanding <= 1
    BY <1>1, <2>1 DEF StreamInv, EndIsDrained
  <2>3. fetchEnd' /\ stage' = "stopped" /\ computing' = 0 /\ ready' = 0
    BY <1>1, <2>2 DEF Collect
  <2>4. Outstanding' = Outstanding
    BY <1>1 DEF workVars, Outstanding
  <2>5. Total(completed)' = 0
    BY <1>1, KindsOf
  <2>6. Unreported' = Outstanding
    BY <2>3, <2>4, <2>5, Counts DEF StreamInv, Unreported
  <2>. QED BY <2>2, <2>3, <2>4, <2>6
<1>. QED BY <1>3, <1>4, <1>5 DEF StreamInv

LEMMA FeedPromptsType ==
  ASSUME StreamInv, FeedPrompts, UNCHANGED workVars
  PROVE  /\ promptsLeft' \in 0..NumPrompts /\ fetchEnd' \in BOOLEAN
         /\ promptQueue' \in [tag : Nat, size : 0..BatchSize]
         /\ taskQueue' \in Seq(Kinds) /\ SchedulerIsBounded'
<1>1. /\ promptsLeft \in 0..NumPrompts /\ promptQueue \in [tag : Nat, size : 0..BatchSize]
      /\ taskQueue \in Seq(Kinds) /\ fetchEnd \in BOOLEAN
  BY DEF StreamInv, TypeOK, MainTypes, SchedulerTypes
<1>2. CASE ~Room
  BY <1>1, <1>2 DEF FeedPrompts, StreamInv, SchedulerIsBounded, workVars, Active
<1>3. CASE Room
  <2>1. /\ NextBatch(promptsLeft) \in Nat /\ NextBatch(promptsLeft) <= promptsLeft
        /\ NextBatch(promptsLeft) <= BatchSize
    <3>1. promptsLeft \in Nat
      BY <1>1, Sizes
    <3>. QED BY <3>1, NextBatchType
  <2>2. promptsLeft' \in 0..NumPrompts
    <3>1. CASE promptQueue.size > 0
      <4>1. promptsLeft' = promptsLeft
        BY <1>3, <3>1 DEF FeedPrompts
      <4>. QED BY <1>1, <4>1
    <3>2. CASE ~(promptQueue.size > 0)
      <4>1. promptsLeft' = promptsLeft - NextBatch(promptsLeft)
        BY <1>3, <3>2 DEF FeedPrompts, Offered
      <4>. QED BY <1>1, <2>1, <4>1, Sizes
    <3>. QED BY <3>1, <3>2
  <2>3. Offered \in [tag : Nat, size : 0..BatchSize]
    <3>1. NumPrompts - promptsLeft \in Nat
      BY <1>1, Sizes
    <3>2. (NumPrompts - promptsLeft) \div StepPrompts \in Nat
      BY <3>1, Sizes, Quotient
    <3>3. NextBatch(promptsLeft) \in 0..BatchSize
      BY <2>1, Sizes
    <3>. QED BY <1>1, <3>2, <3>3 DEF Offered
  <2>4. NoBatch \in [tag : Nat, size : 0..BatchSize]
    BY Sizes DEF NoBatch
  <2>5. fetchEnd' \in BOOLEAN /\ promptQueue' \in [tag : Nat, size : 0..BatchSize]
    BY <1>3, <2>3, <2>4 DEF FeedPrompts
  <2>6. CASE VersionAllowed(Offered)
    <3>1. Put("train", Offered.size) /\ "train" \in Kinds /\ Offered.size \in Nat
      BY <1>3, <2>3, <2>6, Sizes DEF FeedPrompts, Kinds
    <3>2. Offered.size <= BatchSize
      BY <2>3, Sizes
    <3>. QED BY <1>3, <2>2, <3>2, <2>5, <3>1, PutType, PutKeepsBound DEF StreamInv
  <2>7. CASE ~VersionAllowed(Offered)
    <3>1. taskQueue' = taskQueue
      BY <1>3, <2>7 DEF FeedPrompts
    <3>. QED BY <1>1, <2>2, <2>5, <3>1 DEF StreamInv, SchedulerIsBounded, workVars, Active
  <2>. QED BY <2>6, <2>7
<1>. QED BY <1>2, <1>3

\* A round of the main loop up to the feeding of prompts.  When it finds the end, the
\* scheduler can hold nothing but the task in the worker's hand.
LEMMA StepStep == ASSUME StreamInv, Step PROVE StreamInv'
<1>1. /\ UNCHANGED <<workVars, completed, failed, computing>> /\ stage' = "collect"
      /\ consumeEnd' = (fetchEnd /\ AllTasksCompleted /\ computing = 0)
      /\ fetchEnd => UNCHANGED <<promptsLeft, fetchEnd, promptQueue, taskQueue>>
      /\ ~fetchEnd => FeedPrompts
  BY DEF Step
<1>2. /\ promptsLeft' \in 0..NumPrompts /\ fetchEnd' \in BOOLEAN
      /\ promptQueue' \in [tag : Nat, size : 0..BatchSize]
      /\ taskQueue' \in Seq(Kinds) /\ SchedulerIsBounded'
  <2>1. CASE fetchEnd
    BY <1>1, <2>1 DEF StreamInv, TypeOK, MainTypes, SchedulerTypes, SchedulerIsBounded, workVars, Active
  <2>2. CASE ~fetchEnd
    BY <1>1, <2>2, FeedPromptsType
  <2>. QED BY <2>1, <2>2
<1>3. TypeOK'
  <2>1. MainTypes'
    BY <1>1, <1>2 DEF Step, StreamInv, TypeOK, MainTypes, Stages
  <2>2. SchedulerTypes'
    BY <1>1, <1>2 DEF workVars, StreamInv, TypeOK, SchedulerTypes
  <2>3. RewardTypes'
    BY DEF Step, StreamInv, TypeOK, RewardTypes
  <2>. QED BY <2>1, <2>2, <2>3 DEF TypeOK
<1>4. HandHasItsPlace'
  BY <1>1 DEF workVars, StreamInv, HandHasItsPlace, Active
<1>5. EndIsDrained'
  <2>1. SUFFICES ASSUME consumeEnd' PROVE fetchEnd' /\ Outstanding' <= 1
    BY <1>1 DEF EndIsDrained
  <2>2. fetchEnd /\ taskQueue = <<>> /\ Active = 0
    BY <1>1, <2>1 DEF AllTasksCompleted
  <2>3. fetchEnd' /\ taskQueue' = <<>> /\ hand' = hand /\ Total(running)' = Total(running)
    BY <1>1, <2>2 DEF workVars
  <2>4. Total(running) = 0 /\ Len(taskQueue') = 0
    BY <2>2, <2>3, Counts DEF StreamInv, Active
  <2>5. Outstanding' = Len(hand)
    BY <2>3, <2>4, Counts DEF StreamInv, Outstanding
  <2>. QED BY <2>3, <2>5 DEF StreamInv, TypeOK, SchedulerTypes
<1>. QED BY <1>2, <1>3, <1>4, <1>5 DEF StreamInv

LEMMA ValidationFeedStep == ASSUME StreamInv, ValidationFeed PROVE StreamInv'
<1>1. ~consumeEnd' /\ UNCHANGED <<workVars, completed, failed, rewardVars>> /\ stage' = "valcheck"
  BY NotAtEnd DEF ValidationFeed
<1>2. val.left \in Nat /\ val.fetched \in Nat /\ (Active = 0) \in BOOLEAN
  BY DEF Validations, StreamInv, TypeOK, MainTypes
<1>3. /\ taskQueue' \in Seq(Kinds) /\ SchedulerIsBounded'
      /\ val' \in Validations
  <2>1. CASE ~val.noMore /\ Room
    <3>. DEFINE n == NextBatch(val.left)
    <3>1. n \in Nat /\ n <= val.left /\ n <= BatchSize
      BY <1>2, NextBatchType
    <3>2. /\ Put("val", n) /\ "val" \in Kinds
          /\ val' = [val EXCEPT !.left = @ - n, !.noMore = (n = 0),
                                !.fetched = @ + n, !.idle = (Active = 0)]
      BY <2>1 DEF ValidationFeed, Kinds
    <3>. HIDE DEF n
    <3>3. val.left - n \in Nat /\ val.fetched + n \in Nat
      BY <1>2, <3>1
    <3>4. val' \in Validations
      BY <1>2, <3>2, <3>3 DEF Validations, StreamInv, TypeOK, MainTypes
    <3>. QED BY <1>1, <2>1, <3>1, <3>2, <3>4, PutKeepsBound
  <2>2. CASE ~(~val.noMore /\ Room)
    <3>1. taskQueue' = taskQueue /\ val' = [val EXCEPT !.idle = (Active = 0)]
      BY <2>2 DEF ValidationFeed
    <3>. QED BY <1>1, <1>2, <3>1
         DEF workVars, Validations, StreamInv, TypeOK, MainTypes, SchedulerTypes,
             SchedulerIsBounded, Active
  <2>. QED BY <2>1, <2>2
<1>4. MainTypes'
  BY <1>1, <1>3 DEF ValidationFeed, StreamInv, TypeOK, MainTypes, Stages
<1>5. SchedulerTypes' /\ RewardTypes'
  BY <1>1, <1>3 DEF workVars, rewardVars, StreamInv, TypeOK, SchedulerTypes, RewardTypes
<1>. QED BY <1>1, <1>3, <1>4, <1>5
     DEF workVars, StreamInv, TypeOK, HandHasItsPlace, EndIsDrained, Active

LEMMA ValidationCheckStep == ASSUME StreamInv, ValidationCheck PROVE StreamInv'
<1>1. /\ ~consumeEnd'
      /\ UNCHANGED <<taskQueue, workVars, completed, failed, rewardVars>>
  BY NotAtEnd DEF ValidationCheck
<1>2. MainTypes'
  <2>. DEFINE isEnd == /\ val.idle /\ val.noMore
                      /\ taskQueue = <<>> /\ completed = None
                      /\ val.fetched = Total(val.collected)
  <2>1. val' = [val EXCEPT !.idle = isEnd] /\ isEnd \in BOOLEAN
    BY DEF ValidationCheck
  <2>. HIDE DEF isEnd
  <2>. QED BY <2>1 DEF ValidationCheck, Validations, StreamInv, TypeOK, MainTypes, Stages
<1>. QED BY <1>1, <1>2 DEF workVars, rewardVars, StreamInv, TypeOK, SchedulerTypes, RewardTypes,
            HandHasItsPlace, SchedulerIsBounded, EndIsDrained, Active

LEMMA ValidationCollectStep == ASSUME StreamInv, ValidationCollect PROVE StreamInv'
<1>1. ~consumeEnd' /\ UNCHANGED <<taskQueue, workVars, failed>> /\ completed' = None
  BY NotAtEnd DEF ValidationCollect
<1>2. Gathered \in [Kinds -> Nat]
  BY DEF Gathered, Validations, StreamInv, TypeOK, MainTypes, SchedulerTypes
<1>3. MainTypes'
  <2>1. val' \in Validations /\ valFlag' \in BOOLEAN
    BY <1>2, NoValidationType DEF ValidationCollect, Validations, StreamInv, TypeOK, MainTypes
  <2>. QED BY <2>1 DEF ValidationCollect, StreamInv, TypeOK, MainTypes, Stages
<1>4. RewardTypes'
  BY DEF ValidationCollect, rewardVars, StreamInv, TypeOK, RewardTypes
<1>5. SchedulerTypes'
  BY <1>1, KindsOf DEF workVars, StreamInv, TypeOK, SchedulerTypes
<1>. QED BY <1>1, <1>3, <1>4, <1>5
     DEF workVars, StreamInv, TypeOK, HandHasItsPlace, SchedulerIsBounded, EndIsDrained, Active

-----------------------------------------------------------------------------
(* The theorems *)

LEMMA InitStream == Init => StreamInv
<1>. SUFFICES ASSUME Init PROVE StreamInv
  OBVIOUS
<1>1. NoBatch \in [tag : Nat, size : 0..BatchSize] /\ NoValidation \in Validations
  BY NoValidationType, Sizes DEF NoBatch
<1>2. MainTypes
  <2>1. promptsLeft \in 0..NumPrompts /\ published \in Nat /\ version \in Nat
    BY Sizes DEF Init
  <2>2. stage \in Stages /\ promptQueue = NoBatch /\ val = NoValidation
    BY DEF Init, Stages
  <2>3. /\ stopping \in BOOLEAN /\ valFlag \in BOOLEAN
        /\ fetchEnd \in BOOLEAN /\ consumeEnd \in BOOLEAN
    BY DEF Init
  <2>. QED BY <1>1, <2>1, <2>2, <2>3 DEF MainTypes
<1>3. SchedulerTypes /\ RewardTypes
  BY KindsOf DEF Init, SchedulerTypes, RewardTypes
<1>4. Active = 0 /\ Len(taskQueue) = 0 /\ Len(hand) = 0
  BY KindsOf, EmptySeq DEF Init, Active
<1>. QED BY <1>2, <1>3, <1>4, Sizes DEF Init, StreamInv, TypeOK, HandHasItsPlace, SchedulerIsBounded, EndIsDrained

LEMMA StreamStep == StreamInv /\ [Next]_vars => StreamInv'
BY Unchanged, OutsideStep, WakeStep, TakeStep, AddStep, SleepStep, EngineStep,
   ConsumeCommandsStep, StepStep, CollectStep, ValidationFeedStep, ValidationCheckStep,
   ValidationCollectStep
DEF Next, MainLoop, Worker

\* Every variable of the replica's threads and queues keeps its type, whatever the sizes
\* and limits.
THEOREM StreamTypeOK == Spec => []TypeOK
<1>1. StreamInv => TypeOK
  BY DEF StreamInv
<1>. QED BY InitStream, StreamStep, <1>1, PTL DEF Spec

\* max_concurrent_requests, which two threads test without a lock, bounds the coroutines
\* exactly and the tasks in the scheduler up to one batch.
THEOREM BoundedInFlight == Spec => []InFlightIsBounded
<1>1. StreamInv => InFlightIsBounded
  <2>. SUFFICES ASSUME StreamInv PROVE InFlightIsBounded
    OBVIOUS
  <2>1. Outstanding <= Len(taskQueue) + Len(hand) + Active
    BY Counts DEF StreamInv, Outstanding, Active
  <2>. QED BY <2>1, Counts, Sizes DEF StreamInv, SchedulerIsBounded, InFlightIsBounded
<1>. QED BY InitStream, StreamStep, <1>1, PTL DEF Spec

\* An end signal is sent with at most one task of the replica unreported, however many
\* were in flight: the one between task_queue and _active_tasks.
THEOREM AtMostOneIsLost == Spec => []EndLeavesAtMostOne
<1>1. StreamInv => EndLeavesAtMostOne
  BY DEF StreamInv, EndIsDrained, EndLeavesAtMostOne
<1>. QED BY InitStream, StreamStep, <1>1, PTL DEF Spec
=============================================================================
