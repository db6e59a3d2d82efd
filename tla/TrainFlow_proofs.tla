-------------------------- MODULE TrainFlow_proofs --------------------------
(***************************************************************************)
(* What holds in every behaviour of the training loop, for every           *)
(* configuration the validators accept: the types, that no version is      *)
(* ahead of the controller's step, the bound on staleness, that the end    *)
(* signal of a replica is its last message, and that the status of a       *)
(* policy replica tells whether it has a step to answer.                   *)
(***************************************************************************)
EXTENDS TrainFlowProperties, FiniteSetTheorems, SequenceTheorems, TLAPS

-----------------------------------------------------------------------------
(* Arithmetic of the global batch *)

\* The global batch is never empty: there is a policy replica.
LEMMA GlobalBatchType == GlobalBatch \in Nat \ {0}
<1>1. Cardinality(Policies) \in Nat \ {0}
  BY ConstantsAssumption, FS_CardinalityType, FS_EmptySet DEF ConstantsOK
<1>2. TrainBatch \in Nat \ {0}
  BY ConstantsAssumption DEF ConstantsOK
<1>. QED BY <1>1, <1>2 DEF GlobalBatch

\* Taking one batch off the front of the buffer and counting one more step cancel out.
LEMMA DivShift ==
  ASSUME NEW a \in Nat, NEW g \in Nat \ {0}
  PROVE  (a + g) \div g = a \div g + 1 /\ a \div g \in Nat
  OBVIOUS

\* Division by the global batch is monotonic.
LEMMA DivMono ==
  ASSUME NEW a \in Nat, NEW b \in Nat, a <= b, NEW g \in Nat \ {0}
  PROVE  a \div g <= b \div g /\ a \div g \in Nat
  OBVIOUS

\* The samples of a report are numbered from 0.
LEMMA Segment ==
  ASSUME NEW k \in Nat
  PROVE  IsFiniteSet(0..(k - 1)) /\ Cardinality(0..(k - 1)) = k
<1>1. k - 1 \in Int /\ 0 \in Int
  OBVIOUS
<1>. QED BY <1>1, FS_Interval

\* The samples that filter_outdated_rollouts keeps are a prefix of the report.
LEMMA FreshPrefix ==
  ASSUME NEW version \in Nat, NEW n \in Nat, TypeOK
  PROVE  /\ FreshCount(version, n) \in 0..n
         /\ \A idx \in 0..(FreshCount(version, n) - 1) :
              EstimatedStep(idx) - version <= AllowedOutdated
<1> DEFINE kept == {idx \in 0..(n - 1) : EstimatedStep(idx) - version <= AllowedOutdated}
<1>1. /\ IsFiniteSet(kept) /\ Cardinality(kept) \in Nat /\ Cardinality(kept) <= n
  <2>1. IsFiniteSet(0..(n - 1)) /\ Cardinality(0..(n - 1)) = n
    BY Segment
  <2>. QED BY <2>1, FS_Subset, FS_CardinalityType
<1>2. \A i \in 0..(n - 1), j \in kept : i <= j => i \in kept
  <2>1. currentStep \in Nat /\ Len(rolloutBuffer) \in Nat /\ AllowedOutdated \in Nat
    BY ConstantsAssumption DEF TypeOK, ConstantsOK
  <2>2. \A i, j \in Nat : i <= j => EstimatedStep(i) <= EstimatedStep(j)
    BY <2>1, GlobalBatchType, DivMono DEF EstimatedStep
  <2>3. \A i \in Nat : EstimatedStep(i) \in Nat
    BY <2>1, GlobalBatchType, DivMono DEF EstimatedStep
  <2>. QED BY <2>1, <2>2, <2>3
<1>3. \A idx \in 0..(Cardinality(kept) - 1) : idx \in kept
  <2>1. SUFFICES ASSUME NEW idx \in 0..(Cardinality(kept) - 1), idx \notin kept
                 PROVE  FALSE
    OBVIOUS
  <2>. idx \in Nat
    BY <1>1
  <2>. HIDE DEF kept
  <2>2. kept \subseteq 0..(idx - 1)
    BY <1>1, <1>2, <2>1 DEF kept
  <2>3. IsFiniteSet(0..(idx - 1)) /\ Cardinality(0..(idx - 1)) = idx
    BY Segment
  <2>4. Cardinality(kept) <= idx
    BY <2>2, <2>3, FS_Subset
  <2>. QED BY <1>1, <2>1, <2>4
<1>. QED BY <1>1, <1>3 DEF FreshCount

-----------------------------------------------------------------------------
(* The inductive invariant, and its parts as predicates of a buffer or a queue *)

IInv == TypeOK /\ VersionNotAhead /\ StaleBound

Stale(buffer, step) ==
  \A i \in 1..Len(buffer) : step + (i - 1) \div GlobalBatch - buffer[i] <= AllowedOutdated
BufferUpTo(buffer, step) == \A i \in 1..Len(buffer) : buffer[i] <= step
CommandsUpTo(queue, step) == \A i \in 1..Len(queue) : queue[i].step <= step
BatchesUpTo(queue, step) == \A i \in 1..Len(queue) : queue[i].version <= step

\* What the proofs use of the configuration.
LEMMA Constants ==
  /\ TrainBatch \in Nat \ {0} /\ NGen \in Nat \ {0} /\ FetchBatch \in Nat \ {0}
  /\ SyncInterval \in Nat \ {0} /\ NumPrompts \in Nat \ {0} /\ NumVal \in Nat \ {0}
  /\ OutdatedFetch \in Nat /\ AllowedOutdated \in Nat /\ MaxNumSteps \in Nat
  /\ ValFreq \in Nat /\ MaxVersion \in Nat
  /\ LeadPolicy \in Policies /\ LeadRollout \in Rollouts
BY ConstantsAssumption DEF ConstantsOK

\* recompute_total_steps yields a number of steps.
LEMMA StepsForType ==
  ASSUME NEW step \in Nat, NEW samples \in Nat
  PROVE  StepsFor(step, samples) \in Nat
<1>1. samples \div GlobalBatch \in Nat
  BY GlobalBatchType, DivMono
<1>. QED BY <1>1, Constants DEF StepsFor, Smaller

\* A command appended to a stream keeps the bound on the steps in it.
LEMMA AppendUpTo ==
  ASSUME NEW queue \in Seq(Commands), NEW cmd \in Commands, NEW step \in Nat,
         CommandsUpTo(queue, step), cmd.step <= step
  PROVE  /\ Append(queue, cmd) \in Seq(Commands)
         /\ CommandsUpTo(Append(queue, cmd), step)
BY AppendProperties DEF CommandsUpTo

\* What is left of a sequence when its first g elements are taken off.
LEMMA DropFirstProperties ==
  ASSUME NEW buffer \in Seq(Nat), NEW g \in Nat, g <= Len(buffer)
  PROVE  /\ DropFirst(buffer, g) \in Seq(Nat)
         /\ Len(DropFirst(buffer, g)) = Len(buffer) - g
         /\ \A i \in 1..Len(DropFirst(buffer, g)) :
              /\ i + g \in 1..Len(buffer)
              /\ DropFirst(buffer, g)[i] = buffer[i + g]
<1>1. PICK n \in Nat : n = Len(buffer)
  OBVIOUS
<1>2. \A i \in (g + 1)..n : buffer[i] \in Nat
  <2>1. SUFFICES ASSUME NEW i \in (g + 1)..n PROVE buffer[i] \in Nat
    OBVIOUS
  <2>2. i \in 1..Len(buffer)
    BY <1>1
  <2>. QED BY <2>2, ElementOfSeq
<1>3. PICK m \in Nat : m = n - g
  <2>1. g <= n
    BY <1>1, Zenon
  <2>2. n - g \in Nat
    BY <2>1
  <2>. QED BY <2>2, Zenon
<1>4. (IF g + 1 <= n THEN n - (g + 1) + 1 ELSE 0) = m /\ n - (g + 1) + 1 = m
  BY <1>1, <1>3
<1>5. /\ SubSeq(buffer, g + 1, n) \in Seq(Nat)
      /\ Len(SubSeq(buffer, g + 1, n)) = IF g + 1 <= n THEN n - (g + 1) + 1 ELSE 0
      /\ \A i \in 1..(n - (g + 1) + 1) :
           SubSeq(buffer, g + 1, n)[i] = buffer[(g + 1) + i - 1]
  BY <1>1, <1>2, SubSeqProperties
<1>6. DropFirst(buffer, g) = SubSeq(buffer, g + 1, n)
  BY <1>1 DEF DropFirst
<1>7. DropFirst(buffer, g) \in Seq(Nat) /\ Len(DropFirst(buffer, g)) = m
  BY <1>4, <1>5, <1>6, Zenon
<1>8. ASSUME NEW i \in 1..m
      PROVE  i + g \in 1..n /\ DropFirst(buffer, g)[i] = buffer[i + g]
  <2>1. i + g \in 1..n /\ (g + 1) + i - 1 = i + g
    BY <1>3
  <2>2. SubSeq(buffer, g + 1, n)[i] = buffer[(g + 1) + i - 1]
    BY <1>4, <1>5, <1>8, Zenon
  <2>. QED BY <2>1, <2>2, <1>6, Zenon
<1>9. \A i \in 1..Len(DropFirst(buffer, g)) :
        /\ i + g \in 1..Len(buffer)
        /\ DropFirst(buffer, g)[i] = buffer[i + g]
  BY <1>1, <1>7, <1>8, Zenon
<1>. QED BY <1>1, <1>3, <1>7, <1>9, Zenon

\* A step takes its samples off the front of the buffer; the others move up by as
\* many places as a step uses, so that the step they are meant for stays the same.
LEMMA DropFirstStale ==
  ASSUME NEW buffer \in Seq(Nat), NEW step \in Nat,
         Stale(buffer, step), BufferUpTo(buffer, step), Len(buffer) >= GlobalBatch
  PROVE  /\ DropFirst(buffer, GlobalBatch) \in Seq(Nat)
         /\ Stale(DropFirst(buffer, GlobalBatch), step + 1)
         /\ BufferUpTo(DropFirst(buffer, GlobalBatch), step + 1)
<1>1. PICK g \in Nat \ {0} : g = GlobalBatch
  BY GlobalBatchType
<1>2. PICK rest : rest = DropFirst(buffer, g)
  OBVIOUS
<1>3. g <= Len(buffer)
  BY <1>1
<1>4. /\ rest \in Seq(Nat)
      /\ \A i \in 1..Len(rest) : i + g \in 1..Len(buffer) /\ rest[i] = buffer[i + g]
  BY <1>2, <1>3, DropFirstProperties
<1>5. Stale(rest, step + 1)
  <2>1. SUFFICES ASSUME NEW i \in 1..Len(rest)
                 PROVE  step + 1 + (i - 1) \div GlobalBatch - rest[i] <= AllowedOutdated
    BY Zenon DEF Stale
  <2>2. PICK a \in Nat : a = i - 1
    <3>1. Len(rest) \in Nat
      BY <1>4
    <3>. QED BY <3>1
  <2>3. PICK q \in Nat : q = a \div GlobalBatch
    BY GlobalBatchType, DivShift
  <2>4. (a + GlobalBatch) \div GlobalBatch = q + 1
    BY <2>3, GlobalBatchType, DivShift
  <2>5. (i + g) - 1 = a + GlobalBatch
    BY <1>1, <2>2
  <2>6. PICK b \in Nat : b = buffer[i + g]
    BY <1>4, <2>1, ElementOfSeq
  <2>7. step + ((i + g) - 1) \div GlobalBatch - buffer[i + g] <= AllowedOutdated
    BY <1>4, <2>1, Zenon DEF Stale
  <2>8. step + (q + 1) - b <= AllowedOutdated
    BY <2>4, <2>5, <2>6, <2>7, Zenon
  <2>9. step + 1 + q - b <= AllowedOutdated
    BY <2>8, Constants
  <2>10. rest[i] = b /\ (i - 1) \div GlobalBatch = q
    BY <1>4, <2>1, <2>2, <2>3, <2>6, Zenon
  <2>. QED BY <2>9, <2>10, Zenon
<1>6. BufferUpTo(rest, step + 1)
  <2>1. SUFFICES ASSUME NEW i \in 1..Len(rest)
                 PROVE  rest[i] <= step + 1
    BY Zenon DEF BufferUpTo
  <2>2. PICK b \in Nat : b = buffer[i + g] /\ b = rest[i]
    BY <1>4, <2>1, ElementOfSeq
  <2>3. b <= step
    BY <1>4, <2>1, <2>2, Zenon DEF BufferUpTo
  <2>. QED BY <2>2, <2>3
<1>. QED BY <1>1, <1>2, <1>4, <1>5, <1>6, Zenon

\* What try_trigger_data_fetch_and_training reads and writes, as its caller leaves it.
CoreInv(st, buffer, remain, cmds, val, step) ==
  /\ step \in Nat /\ remain \in Int
  /\ st \in [Policies -> Statuses]
  /\ buffer \in Seq(Nat) /\ Stale(buffer, step) /\ BufferUpTo(buffer, step)
  /\ val \in Validations
  /\ cmds \in [Policies -> Seq(Commands)]
  /\ \A p \in Policies : CommandsUpTo(cmds[p], step)

\* What the rollout replicas hold that carries a version.
RolloutInv(rewards, versions, cmds, step) ==
  /\ rewards \in [Rollouts -> Seq(Batches)]
  /\ versions \in [Rollouts -> Nat]
  /\ cmds \in [Rollouts -> Seq(Commands)]
  /\ \A r \in Rollouts :
       /\ BatchesUpTo(rewards[r], step)
       /\ versions[r] <= step
       /\ CommandsUpTo(cmds[r], step)

\* The types of everything else.
PlainTypes ==
  /\ promptsLeft \in Nat /\ versionCount \in [Versions -> Nat]
  /\ totalSteps \in Nat /\ samplesOnTheFly \in Int /\ onPolicyDone \in BOOLEAN
  /\ ended \in [Rollouts -> BOOLEAN] /\ trained \in [Policies -> Nat]
  /\ stage \in [Rollouts -> Stages] /\ stopping \in [Rollouts -> BOOLEAN]
  /\ promptQueue \in [Rollouts -> Seq(Versions)]
  /\ weights \in [Rollouts -> Nat]
  /\ valFlag \in [Rollouts -> BOOLEAN]
  /\ valStep \in [Rollouts -> Nat] /\ valGot \in [Rollouts -> Nat]

\* The invariant falls into the three groups of conjuncts.
LEMMA Parts ==
  IInv <=> /\ CoreInv(status, rolloutBuffer, remainSamples, policyCmds, validation, currentStep)
           /\ RolloutInv(rewardQueue, weightVersion, rolloutCmds, currentStep)
           /\ PlainTypes
<1> DEFINE core == CoreInv(status, rolloutBuffer, remainSamples, policyCmds, validation, currentStep)
           roll == RolloutInv(rewardQueue, weightVersion, rolloutCmds, currentStep)
<1>1. TypeOK => DOMAIN rolloutBuffer = 1..Len(rolloutBuffer)
  BY LenProperties DEF TypeOK
<1>2. TypeOK => \A p \in Policies : DOMAIN policyCmds[p] = 1..Len(policyCmds[p])
  BY LenProperties DEF TypeOK
<1>3. TypeOK => \A r \in Rollouts : /\ DOMAIN rolloutCmds[r] = 1..Len(rolloutCmds[r])
                                   /\ DOMAIN rewardQueue[r] = 1..Len(rewardQueue[r])
  BY LenProperties DEF TypeOK
<1>4. core /\ roll /\ PlainTypes => TypeOK
  BY DEF CoreInv, RolloutInv, PlainTypes, TypeOK
<1>5. IInv => core
  BY <1>1, <1>2 DEF IInv, TypeOK, VersionNotAhead, StaleBound, CoreInv, Stale, BufferUpTo, CommandsUpTo
<1>6. IInv => roll
  BY <1>3 DEF IInv, TypeOK, VersionNotAhead, RolloutInv, CommandsUpTo, BatchesUpTo
<1>7. IInv => PlainTypes
  BY DEF IInv, TypeOK, PlainTypes
<1>8. core /\ roll /\ PlainTypes => StaleBound
  BY <1>1, <1>4 DEF StaleBound, CoreInv, Stale
<1>9. core /\ roll /\ PlainTypes => VersionNotAhead
  BY <1>1, <1>2, <1>3, <1>4 DEF VersionNotAhead, CoreInv, BufferUpTo, RolloutInv, CommandsUpTo, BatchesUpTo
<1>. QED BY <1>4, <1>5, <1>6, <1>7, <1>8, <1>9 DEF IInv

\* A later step disturbs nothing of what the queues and the rollout replicas hold.
LEMMA QueueLater ==
  ASSUME NEW step \in Nat, NEW later \in Nat, step <= later
  PROVE  /\ \A queue \in Seq(Commands) : CommandsUpTo(queue, step) => CommandsUpTo(queue, later)
         /\ \A queue \in Seq(Batches) : BatchesUpTo(queue, step) => BatchesUpTo(queue, later)
<1>1. ASSUME NEW queue \in Seq(Commands), CommandsUpTo(queue, step)
      PROVE  CommandsUpTo(queue, later)
  <2>1. SUFFICES ASSUME NEW i \in 1..Len(queue) PROVE queue[i].step <= later
    BY DEF CommandsUpTo
  <2>2. queue[i] \in Commands /\ queue[i].step <= step
    BY <1>1, ElementOfSeq DEF CommandsUpTo
  <2>3. queue[i].step \in Nat
    BY <2>2 DEF Commands
  <2>. QED BY <2>2, <2>3
<1>2. ASSUME NEW queue \in Seq(Batches), BatchesUpTo(queue, step)
      PROVE  BatchesUpTo(queue, later)
  <2>1. SUFFICES ASSUME NEW i \in 1..Len(queue) PROVE queue[i].version <= later
    BY DEF BatchesUpTo
  <2>2. queue[i] \in Batches /\ queue[i].version <= step
    BY <1>2, ElementOfSeq DEF BatchesUpTo
  <2>3. queue[i].version \in Nat
    BY <2>2 DEF Batches
  <2>. QED BY <2>2, <2>3
<1>. QED BY <1>1, <1>2

\* The same for the part of the rollout replicas as a whole.
LEMMA RolloutLater ==
  ASSUME NEW rewards, NEW versions, NEW cmds, NEW step \in Nat, NEW later \in Nat,
         RolloutInv(rewards, versions, cmds, step), step <= later
  PROVE  RolloutInv(rewards, versions, cmds, later)
<1>1. \A r \in Rollouts : versions[r] \in Nat /\ versions[r] <= later
  BY DEF RolloutInv
<1>2. \A r \in Rollouts : BatchesUpTo(rewards[r], later) /\ CommandsUpTo(cmds[r], later)
  BY QueueLater DEF RolloutInv
<1>. QED BY <1>1, <1>2 DEF RolloutInv

\* Starting a step on a buffer whose remainder is fresh enough for the next one.
LEMMA StartStepInv ==
  ASSUME NEW st, NEW items \in Nat, NEW buffer, NEW remain, NEW cmds, NEW total \in Nat, NEW val,
         CoreInv(st, buffer, remain, cmds, val, currentStep),
         items * Cardinality(Policies) \in Nat,
         DropFirst(buffer, items * Cardinality(Policies)) \in Seq(Nat),
         Stale(DropFirst(buffer, items * Cardinality(Policies)), currentStep + 1),
         BufferUpTo(DropFirst(buffer, items * Cardinality(Policies)), currentStep + 1),
         StartStep(items, buffer, remain, cmds, total, val)
  PROVE  /\ CoreInv(status', rolloutBuffer', remainSamples', policyCmds', validation', currentStep')
         /\ currentStep <= currentStep'
<1> DEFINE step == currentStep + 1
           cmd  == DataFetch(step, total, items)
<1>1. currentStep \in Nat /\ step \in Nat /\ currentStep' = step /\ currentStep <= currentStep'
  BY DEF CoreInv, StartStep
<1>2. remainSamples' \in Int
  BY DEF CoreInv, StartStep
<1>3. status' \in [Policies -> Statuses]
  BY DEF StartStep, Statuses
<1>4. validation' \in Validations
  BY <1>1, Constants DEF CoreInv, StartStep, Validations
<1>5. cmd \in Commands /\ cmd.step <= step
  BY <1>1 DEF DataFetch, Commands
<1>6. \A p \in Policies : cmds[p] \in Seq(Commands) /\ CommandsUpTo(cmds[p], step)
  BY <1>1, QueueLater DEF CoreInv
<1>7. \A p \in Policies : /\ Append(cmds[p], cmd) \in Seq(Commands)
                         /\ CommandsUpTo(Append(cmds[p], cmd), step)
  BY <1>1, <1>5, <1>6, AppendUpTo
<1>8. policyCmds' = [p \in Policies |-> Append(cmds[p], cmd)]
  BY DEF StartStep, Publish
<1>. QED BY <1>1, <1>2, <1>3, <1>4, <1>7, <1>8 DEF CoreInv, StartStep

\* A trigger attempt keeps the invariant, whether a step starts or not.
LEMMA TryTriggerInv ==
  ASSUME NEW st, NEW buffer, NEW remain, NEW cmds, NEW val, totalSteps \in Nat,
         CoreInv(st, buffer, remain, cmds, val, currentStep),
         TryTrigger(st, buffer, remain, cmds, val)
  PROVE  /\ CoreInv(status', rolloutBuffer', remainSamples', policyCmds', validation', currentStep')
         /\ currentStep <= currentStep'
<1>1. CASE MayStart(st, buffer, val)
  <2>1. StartStep(TrainBatch, buffer, remain, cmds, totalSteps, val)
    BY <1>1 DEF TryTrigger
  <2>2. TrainBatch * Cardinality(Policies) = GlobalBatch
    BY DEF GlobalBatch
  <2>3. /\ DropFirst(buffer, GlobalBatch) \in Seq(Nat)
        /\ Stale(DropFirst(buffer, GlobalBatch), currentStep + 1)
        /\ BufferUpTo(DropFirst(buffer, GlobalBatch), currentStep + 1)
    BY <1>1, DropFirstStale DEF MayStart, CoreInv
  <2>. QED BY <2>1, <2>2, <2>3, GlobalBatchType, Constants, StartStepInv
<1>2. CASE ~MayStart(st, buffer, val)
  BY <1>2 DEF TryTrigger, CoreInv
<1>. QED BY <1>1, <1>2

\* filter_outdated_rollouts and put_rollouts: the samples that are put carry a version
\* that is fresh enough for the step each is estimated, and then meant, for.
LEMMA PutRolloutsInv ==
  ASSUME IInv, NEW version \in Nat, version <= currentStep, NEW n \in Nat, NEW remain \in Int,
         PutRollouts(version, FreshCount(version, n), remain)
  PROVE  /\ CoreInv(status', rolloutBuffer', remainSamples', policyCmds', validation', currentStep')
         /\ currentStep <= currentStep'
         /\ onPolicyDone' \in BOOLEAN
<1> DEFINE fresh   == FreshCount(version, n)
           missing == GlobalBatch - Len(rolloutBuffer)
           breaks  == /\ OnPolicy
                      /\ 0 < missing /\ missing <= fresh
                      /\ ~validation.active /\ ~TrainingFinished
                      /\ AllAre(status, {"READY", "REDUCED"})
           put     == IF breaks THEN missing ELSE fresh
           tail    == [i \in 1..put |-> version]
           longer  == rolloutBuffer \o tail
<1>0. CoreInv(status, rolloutBuffer, remainSamples, policyCmds, validation, currentStep)
  BY Parts
<1>1. TypeOK /\ fresh \in 0..n /\ fresh \in Nat
  BY FreshPrefix DEF IInv
<1>2. \A idx \in 0..(fresh - 1) : EstimatedStep(idx) - version <= AllowedOutdated
  BY <1>1, FreshPrefix
<1>3. CASE fresh = 0 \/ (OnPolicy /\ onPolicyDone)
  <2>1. /\ remainSamples' = remain - fresh
        /\ UNCHANGED <<currentStep, status, rolloutBuffer, policyCmds, onPolicyDone, validation>>
    BY <1>3 DEF PutRollouts
  <2>2. remainSamples' \in Int
    BY <1>1, <2>1
  <2>. QED BY <1>0, <1>1, <2>1, <2>2 DEF CoreInv, TypeOK
<1>4. CASE ~(fresh = 0 \/ (OnPolicy /\ onPolicyDone))
  <2>1. /\ TryTrigger(status, longer, remain, policyCmds, validation)
        /\ onPolicyDone' = (onPolicyDone \/ breaks)
    BY <1>4 DEF PutRollouts
  <2>2. put \in Nat /\ put <= fresh
    BY <1>1, GlobalBatchType DEF TypeOK
  <2>. HIDE DEF fresh, put
  <2>3. tail \in Seq(Nat) /\ Len(tail) = put
    BY <2>2
  <2>4. /\ longer \in Seq(Nat)
        /\ Len(longer) = Len(rolloutBuffer) + put
        /\ \A i \in 1..Len(longer) :
             longer[i] = IF i <= Len(rolloutBuffer) THEN rolloutBuffer[i] ELSE version
    <3>1. rolloutBuffer \in Seq(Nat) /\ Len(rolloutBuffer) \in Nat
      BY <1>1 DEF TypeOK
    <3>. HIDE DEF tail
    <3>2. /\ longer \in Seq(Nat)
          /\ Len(longer) = Len(rolloutBuffer) + Len(tail)
          /\ \A i \in 1..(Len(rolloutBuffer) + Len(tail)) :
               longer[i] = IF i <= Len(rolloutBuffer) THEN rolloutBuffer[i]
                                                      ELSE tail[i - Len(rolloutBuffer)]
      BY <2>3, <3>1, ConcatProperties
    <3>3. \A j \in 1..put : tail[j] = version
      BY DEF tail
    <3>. QED BY <2>2, <2>3, <3>1, <3>2, <3>3
  <2>5. currentStep \in Nat /\ Len(rolloutBuffer) \in Nat
    BY <1>1 DEF TypeOK
  <2>. HIDE DEF tail, longer
  <2>6. Stale(longer, currentStep)
    <3>1. SUFFICES ASSUME NEW i \in 1..Len(longer)
                   PROVE  currentStep + (i - 1) \div GlobalBatch - longer[i] <= AllowedOutdated
      BY DEF Stale
    <3>2. CASE i <= Len(rolloutBuffer)
      BY <1>0, <2>4, <2>5, <3>2 DEF CoreInv, Stale
    <3>3. CASE i > Len(rolloutBuffer)
      <4>1. PICK idx \in 0..(fresh - 1) : i - 1 = idx + Len(rolloutBuffer)
        <5>1. (i - 1) - Len(rolloutBuffer) \in 0..(fresh - 1)
          BY <1>1, <2>2, <2>4, <2>5, <3>3
        <5>. QED BY <2>5, <5>1
      <4>2. EstimatedStep(idx) - version <= AllowedOutdated
        BY <1>2
      <4>3. longer[i] = version
        BY <2>4, <2>5, <3>3
      <4>4. EstimatedStep(idx) = currentStep + (i - 1) \div GlobalBatch
        BY <4>1, Zenon DEF EstimatedStep
      <4>5. EstimatedStep(idx) - longer[i] <= AllowedOutdated
        BY <4>2, <4>3, Zenon
      <4>6. (i - 1) \div GlobalBatch \in Nat
        <5>1. PICK a \in Nat : a = i - 1
          BY <1>1, <2>5, <4>1
        <5>. QED BY <5>1, GlobalBatchType, DivMono
      <4>7. longer[i] \in Nat
        BY <2>4, ElementOfSeq
      <4>. QED BY <2>5, <4>4, <4>5, <4>6, <4>7, Constants
    <3>. QED BY <2>2, <2>4, <2>5, <3>2, <3>3
  <2>7. BufferUpTo(longer, currentStep)
    <3>1. SUFFICES ASSUME NEW i \in 1..Len(longer) PROVE longer[i] <= currentStep
      BY DEF BufferUpTo
    <3>2. CASE i <= Len(rolloutBuffer)
      BY <1>0, <2>4, <2>5, <3>2 DEF CoreInv, BufferUpTo
    <3>3. CASE i > Len(rolloutBuffer)
      BY <2>4, <2>5, <3>3
    <3>. QED BY <2>2, <2>4, <2>5, <3>2, <3>3
  <2>8. CoreInv(status, longer, remain, policyCmds, validation, currentStep)
    BY <1>0, <2>4, <2>6, <2>7 DEF CoreInv
  <2>. HIDE DEF breaks
  <2>9. onPolicyDone' \in BOOLEAN
    BY <1>1, <2>1 DEF TypeOK
  <2>. QED BY <1>1, <2>1, <2>8, <2>9, TryTriggerInv DEF TypeOK
<1>. QED BY <1>3, <1>4

-----------------------------------------------------------------------------
(* The initial states *)

\* The controller and the workers start within the invariant.
LEMMA InitInv == Init => IInv
<1>. SUFFICES ASSUME Init PROVE IInv
  OBVIOUS
<1>1. CoreInv(status, rolloutBuffer, remainSamples, policyCmds, validation, currentStep)
  BY Constants DEF Init, CoreInv, Stale, BufferUpTo, CommandsUpTo, Validations, Statuses
<1>2. RolloutInv(rewardQueue, weightVersion, rolloutCmds, currentStep)
  BY DEF Init, RolloutInv, BatchesUpTo, CommandsUpTo
<1>3. StepsFor(0, NumPrompts * NGen) \in Nat
  BY Constants, StepsForType
<1>4. promptsLeft \in Nat /\ versionCount \in [Versions -> Nat]
  BY Constants DEF Init
<1>9. totalSteps \in Nat
  <2>1. totalSteps = StepsFor(0, NumPrompts * NGen)
    BY Zenon DEF Init
  <2>. QED BY <1>3, <2>1, Zenon
<1>5. samplesOnTheFly \in Int
  BY DEF Init
<1>10. onPolicyDone \in BOOLEAN
  BY Zenon DEF Init
<1>6. /\ ended \in [Rollouts -> BOOLEAN] /\ stopping \in [Rollouts -> BOOLEAN]
      /\ valFlag \in [Rollouts -> BOOLEAN]
  BY Zenon DEF Init
<1>7. /\ trained \in [Policies -> Nat] /\ weights \in [Rollouts -> Nat]
      /\ valStep \in [Rollouts -> Nat] /\ valGot \in [Rollouts -> Nat]
  BY DEF Init
<1>8. stage \in [Rollouts -> Stages] /\ promptQueue \in [Rollouts -> Seq(Versions)]
  BY DEF Init, Stages
<1>. QED BY <1>1, <1>2, <1>4, <1>5, <1>6, <1>7, <1>8, <1>9, <1>10, Parts DEF PlainTypes

-----------------------------------------------------------------------------
(* The steps *)

\* The three groups, established for the next state, make up the invariant there.
LEMMA PartsNext ==
  /\ CoreInv(status', rolloutBuffer', remainSamples', policyCmds', validation', currentStep')
  /\ RolloutInv(rewardQueue', weightVersion', rolloutCmds', currentStep')
  /\ PlainTypes'
  => IInv'
<1>1. (/\ CoreInv(status, rolloutBuffer, remainSamples, policyCmds, validation, currentStep)
       /\ RolloutInv(rewardQueue, weightVersion, rolloutCmds, currentStep)
       /\ PlainTypes
       => IInv)'
  BY Parts, PTL
<1>. QED BY <1>1

\* What a step leaves alone keeps its part of the invariant.
LEMMA Frames ==
  ASSUME IInv
  PROVE  /\ UNCHANGED <<trainVars, validation>> =>
              CoreInv(status', rolloutBuffer', remainSamples', policyCmds', validation', currentStep')
         /\ /\ UNCHANGED <<rewardQueue, weightVersion, rolloutCmds>>
            /\ currentStep' \in Nat /\ currentStep <= currentStep'
            => RolloutInv(rewardQueue', weightVersion', rolloutCmds', currentStep')
<1>1. /\ CoreInv(status, rolloutBuffer, remainSamples, policyCmds, validation, currentStep)
      /\ RolloutInv(rewardQueue, weightVersion, rolloutCmds, currentStep)
  BY Parts
<1>2. currentStep \in Nat
  BY <1>1 DEF CoreInv
<1>3. UNCHANGED <<trainVars, validation>> =>
        CoreInv(status', rolloutBuffer', remainSamples', policyCmds', validation', currentStep')
  BY <1>1 DEF trainVars
<1>4. /\ UNCHANGED <<rewardQueue, weightVersion, rolloutCmds>>
      /\ currentStep' \in Nat /\ currentStep <= currentStep'
      => RolloutInv(rewardQueue', weightVersion', rolloutCmds', currentStep')
  BY <1>1, <1>2, RolloutLater
<1>. QED BY <1>3, <1>4

\* Going round the main loop once more keeps stages well typed.
LEMMA NextRoundInv ==
  ASSUME IInv, NEW r \in Rollouts, NextRound(r)
  PROVE  stage' \in [Rollouts -> Stages]
<1>1. stage \in [Rollouts -> Stages]
  BY Parts DEF PlainTypes
<1>2. (IF stopping[r] THEN "stopped" ELSE "loop") \in Stages
  BY DEF Stages
<1>. QED BY <1>1, <1>2 DEF NextRound

\* Generation labels a batch with the replica's own weight version.
LEMMA GenerateInv ==
  ASSUME IInv, NEW r \in Rollouts, NEW n \in Nat, Generate(r, n), currentStep' = currentStep,
         UNCHANGED <<weightVersion, rolloutCmds>>
  PROVE  RolloutInv(rewardQueue', weightVersion', rolloutCmds', currentStep')
<1> DEFINE batch == [version |-> weightVersion[r], prompts |-> n]
<1>1. RolloutInv(rewardQueue, weightVersion, rolloutCmds, currentStep)
  BY Parts
<1>2. batch \in Batches /\ batch.version <= currentStep
  BY <1>1 DEF RolloutInv, Batches
<1>3. rewardQueue[r] \in Seq(Batches) /\ BatchesUpTo(rewardQueue[r], currentStep)
  BY <1>1 DEF RolloutInv
<1>. HIDE DEF batch
<1>4. /\ Append(rewardQueue[r], batch) \in Seq(Batches)
      /\ BatchesUpTo(Append(rewardQueue[r], batch), currentStep)
  BY <1>2, <1>3, AppendProperties DEF BatchesUpTo
<1>5. rewardQueue' = [rewardQueue EXCEPT ![r] = Append(rewardQueue[r], batch)]
  BY DEF Generate, batch
<1>. QED BY <1>1, <1>4, <1>5 DEF RolloutInv

\* A fetched batch carries versions within the table, and what is generated of it is not ahead.
LEMMA FetchPromptsInv ==
  ASSUME IInv, NEW r \in Rollouts, FetchPrompts(r)
  PROVE  IInv'
<1>1. PlainTypes /\ currentStep \in Nat
  BY Parts DEF CoreInv
<1> DEFINE n == Smaller(FetchBatch, promptsLeft)
<1>2. /\ n \in Nat /\ n <= promptsLeft
  BY <1>1, Constants DEF Smaller, PlainTypes
<1>3. UNCHANGED <<trainVars, totalSteps, onPolicyDone, validation, ended, rolloutCmds,
                  trained, stopping, weightVersion, weights, valVars>>
  BY DEF FetchPrompts
<1>4. PICK tags \in TagsFor(n) :
        /\ promptsLeft' = promptsLeft - n
        /\ versionCount' = [v \in Versions |-> TagCount(tags, n, v)]
        /\ samplesOnTheFly' = samplesOnTheFly + n * NGen
        /\ \/ Generate(r, n) /\ UNCHANGED promptQueue
           \/ promptQueue' = [promptQueue EXCEPT ![r] = tags] /\ UNCHANGED rewardQueue
  BY DEF FetchPrompts
<1>. HIDE DEF n
<1>5. tags \in Seq(Versions)
  <2>1. tags \in [1..n -> Versions]
    BY DEF TagsFor
  <2>. QED BY <1>2, <2>1
<1>6. CoreInv(status', rolloutBuffer', remainSamples', policyCmds', validation', currentStep')
  BY <1>3, Frames
<1>7. RolloutInv(rewardQueue', weightVersion', rolloutCmds', currentStep')
  <2>1. currentStep' = currentStep /\ UNCHANGED <<weightVersion, rolloutCmds>>
    BY <1>3 DEF trainVars
  <2>2. CASE Generate(r, n)
    BY <1>2, <2>1, <2>2, GenerateInv
  <2>3. CASE UNCHANGED rewardQueue
    BY <1>1, <2>1, <2>3, Frames
  <2>. QED BY <1>4, <2>2, <2>3
<1>8. versionCount' \in [Versions -> Nat]
  <2>1. \A v \in Versions : TagCount(tags, n, v) \in Nat
    <3>1. TAKE v \in Versions
    <3>2. IsFiniteSet(1..n)
      BY <1>2, FS_Interval
    <3>3. Cardinality({j \in 1..n : tags[j] = v}) \in Nat
      BY <3>2, FS_Subset, FS_CardinalityType
    <3>. QED BY <1>1, <3>3 DEF TagCount, PlainTypes
  <2>. QED BY <1>4, <2>1
<1>9. promptsLeft' \in Nat /\ samplesOnTheFly' \in Int
  <2>1. n * NGen \in Int
    BY <1>2, Constants
  <2>2. promptsLeft' = promptsLeft - n /\ samplesOnTheFly' = samplesOnTheFly + n * NGen
    BY <1>4
  <2>. QED BY <1>1, <1>2, <2>1, <2>2 DEF PlainTypes
<1>10. promptQueue' \in [Rollouts -> Seq(Versions)]
  BY <1>1, <1>4, <1>5 DEF PlainTypes
<1>11. stage' \in [Rollouts -> Stages]
  BY NextRoundInv DEF FetchPrompts
<1>12. PlainTypes'
  BY <1>1, <1>3, <1>8, <1>9, <1>10, <1>11, Zenon DEF PlainTypes, valVars
<1>. QED BY <1>6, <1>7, <1>12, PartsNext

\* A held batch moves to the reward queue under the present weight version.
LEMMA GenerateHeldInv ==
  ASSUME IInv, NEW r \in Rollouts, GenerateHeld(r)
  PROVE  IInv'
<1>1. PlainTypes
  BY Parts
<1>2. Len(promptQueue[r]) \in Nat
  BY <1>1 DEF PlainTypes
<1>3. CoreInv(status', rolloutBuffer', remainSamples', policyCmds', validation', currentStep')
  BY Frames DEF GenerateHeld
<1>4. RolloutInv(rewardQueue', weightVersion', rolloutCmds', currentStep')
  BY <1>2, GenerateInv DEF GenerateHeld, trainVars
<1>5. promptQueue' \in [Rollouts -> Seq(Versions)]
  BY <1>1 DEF GenerateHeld, PlainTypes
<1>6. stage' \in [Rollouts -> Stages]
  BY NextRoundInv DEF GenerateHeld
<1>7. PlainTypes'
  BY <1>1, <1>5, <1>6, Zenon DEF GenerateHeld, PlainTypes, dataVars, valVars
<1>. QED BY <1>3, <1>4, <1>7, PartsNext

\* Leaving the main loop changes only where the replica stands.
LEMMA LeaveInv ==
  ASSUME IInv, NEW r \in Rollouts, Leave(r)
  PROVE  IInv'
<1>1. PlainTypes /\ currentStep \in Nat
  BY Parts DEF CoreInv
<1>2. CoreInv(status', rolloutBuffer', remainSamples', policyCmds', validation', currentStep')
  BY Frames DEF Leave
<1>3. RolloutInv(rewardQueue', weightVersion', rolloutCmds', currentStep')
  BY <1>1, Frames DEF Leave, trainVars
<1>4. stage' \in [Rollouts -> Stages]
  BY NextRoundInv DEF Leave
<1>5. PlainTypes'
  BY <1>1, <1>4, Zenon DEF Leave, PlainTypes, dataVars, valVars
<1>. QED BY <1>2, <1>3, <1>5, PartsNext

\* Seeing the end of the data changes only where the replica stands.
LEMMA FetchEndInv ==
  ASSUME IInv, NEW r \in Rollouts, FetchEnd(r)
  PROVE  IInv'
<1>1. PlainTypes /\ currentStep \in Nat
  BY Parts DEF CoreInv
<1>2. CoreInv(status', rolloutBuffer', remainSamples', policyCmds', validation', currentStep')
  BY Frames DEF FetchEnd
<1>3. RolloutInv(rewardQueue', weightVersion', rolloutCmds', currentStep')
  BY <1>1, Frames DEF FetchEnd, trainVars
<1>4. stage' \in [Rollouts -> Stages]
  BY <1>1 DEF FetchEnd, PlainTypes, Stages
<1>5. PlainTypes'
  BY <1>1, <1>4, Zenon DEF FetchEnd, PlainTypes, dataVars, valVars
<1>. QED BY <1>2, <1>3, <1>5, PartsNext

\* A report puts at most the fresh prefix of its samples.
LEMMA ReportRolloutsInv ==
  ASSUME IInv, NEW r \in Rollouts, ReportRollouts(r)
  PROVE  IInv'
<1>1. /\ PlainTypes /\ remainSamples \in Int
      /\ RolloutInv(rewardQueue, weightVersion, rolloutCmds, currentStep)
  BY Parts DEF CoreInv
<1> DEFINE batch == Head(rewardQueue[r])
<1>2. rewardQueue[r] \in Seq(Batches) /\ rewardQueue[r] # <<>>
  BY <1>1 DEF RolloutInv, ReportRollouts
<1>3. batch \in Batches /\ batch.version <= currentStep
  <2>1. batch = rewardQueue[r][1] /\ 1 \in 1..Len(rewardQueue[r])
    BY <1>2, EmptySeq, HeadTailProperties
  <2>2. rewardQueue[r][1] \in Batches
    BY <1>2, <2>1, ElementOfSeq
  <2>. QED BY <1>1, <2>1, <2>2 DEF RolloutInv, BatchesUpTo
<1>4. PICK valid \in 0..batch.prompts :
        PutRollouts(batch.version, FreshCount(batch.version, valid * NGen),
                    remainSamples - (batch.prompts - valid) * NGen
                      - (valid * NGen - FreshCount(batch.version, valid * NGen)))
  <2>1. batch.prompts \in Nat
    BY <1>3 DEF Batches
  <2>2. \A valid : valid \in (IF Dapo THEN 0..batch.prompts ELSE {batch.prompts})
                   => valid \in 0..batch.prompts
    BY <2>1
  <2>. QED BY <2>2, Zenon DEF ReportRollouts
<1>5. batch.version \in Nat /\ batch.prompts \in Nat /\ valid \in Nat
  BY <1>3, <1>4 DEF Batches
<1>6. PICK version \in Nat, samples \in Nat, filtered \in Int :
        /\ version = batch.version /\ samples = valid * NGen
        /\ filtered = (batch.prompts - valid) * NGen
  <2>1. batch.prompts - valid \in Int
    BY <1>5
  <2>2. \A a \in Int : a * NGen \in Int
    BY Constants
  <2>3. \A a \in Nat : a * NGen \in Nat
    BY Constants
  <2>. QED BY <1>5, <2>1, <2>2, <2>3, Zenon
<1>. HIDE DEF batch
<1>7. PICK remain \in Int : PutRollouts(version, FreshCount(version, samples), remain)
  <2>1. FreshCount(version, samples) \in Int
    BY FreshPrefix DEF IInv
  <2>2. remainSamples - filtered - (samples - FreshCount(version, samples)) \in Int
    BY <1>1, <2>1
  <2>3. PutRollouts(version, FreshCount(version, samples),
                    remainSamples - filtered - (samples - FreshCount(version, samples)))
    BY <1>4, <1>6, Zenon
  <2>. QED BY <2>2, <2>3
<1>8. /\ CoreInv(status', rolloutBuffer', remainSamples', policyCmds', validation', currentStep')
      /\ currentStep <= currentStep'
      /\ onPolicyDone' \in BOOLEAN
  BY <1>3, <1>6, <1>7, PutRolloutsInv
<1>9. RolloutInv(rewardQueue', weightVersion', rolloutCmds', currentStep')
  <2>1. /\ rewardQueue' = [rewardQueue EXCEPT ![r] = Tail(rewardQueue[r])]
        /\ UNCHANGED <<weightVersion, rolloutCmds>>
    BY DEF ReportRollouts
  <2>2. Tail(rewardQueue[r]) \in Seq(Batches) /\ BatchesUpTo(Tail(rewardQueue[r]), currentStep)
    <3>1. BatchesUpTo(rewardQueue[r], currentStep)
      BY <1>1 DEF RolloutInv
    <3>. QED BY <1>2, <3>1, HeadTailProperties DEF BatchesUpTo
  <2>3. RolloutInv(rewardQueue', weightVersion', rolloutCmds', currentStep)
    BY <1>1, <2>1, <2>2 DEF RolloutInv
  <2>4. currentStep \in Nat /\ currentStep' \in Nat
    BY <1>8, Parts DEF CoreInv
  <2>. QED BY <1>8, <2>3, <2>4, RolloutLater
<1>10. PlainTypes'
  BY <1>1, <1>8, Zenon DEF ReportRollouts, PlainTypes, dataVars, valVars
<1>. QED BY <1>8, <1>9, <1>10, PartsNext

\* The last end signal may clear the buffer and start an empty step.
LEMMA SendEndSignalInv ==
  ASSUME IInv, NEW r \in Rollouts, SendEndSignal(r)
  PROVE  IInv'
<1>1. /\ PlainTypes /\ currentStep \in Nat /\ rolloutBuffer \in Seq(Nat)
      /\ CoreInv(status, rolloutBuffer, remainSamples, policyCmds, validation, currentStep)
  BY Parts DEF CoreInv
<1> DEFINE newTotal == IF TrainingFinished THEN totalSteps
                                           ELSE StepsFor(currentStep, Len(rolloutBuffer))
<1>2. newTotal \in Nat
  BY <1>1, StepsForType DEF PlainTypes
<1>3. /\ NextRound(r)
      /\ ended' = [ended EXCEPT ![r] = TRUE]
      /\ UNCHANGED <<dataVars, samplesOnTheFly, onPolicyDone, rolloutCmds, trained,
                     stopping, promptQueue, rewardQueue, weightVersion, weights, valVars>>
  BY DEF SendEndSignal
<1>4. /\ CoreInv(status', rolloutBuffer', remainSamples', policyCmds', validation', currentStep')
      /\ currentStep <= currentStep'
      /\ totalSteps' \in Nat
  <2>1. CASE UNCHANGED <<trainVars, validation>> /\ totalSteps' \in {totalSteps, newTotal}
    BY <1>1, <1>2, <2>1 DEF PlainTypes, trainVars
  <2>2. CASE /\ totalSteps' = currentStep + 1
             /\ StartStep(0, <<>>, remainSamples, policyCmds, currentStep + 1, validation)
    <3>1. CoreInv(status, <<>>, remainSamples, policyCmds, validation, currentStep)
      BY <1>1 DEF CoreInv, Stale, BufferUpTo
    <3>2. 0 * Cardinality(Policies) = 0
      BY ConstantsAssumption, FS_CardinalityType DEF ConstantsOK
    <3>3. PICK none \in Seq(Nat) : none = <<>>
      <4>1. <<>> \in Seq(Nat)
        OBVIOUS
      <4>. QED BY <4>1, Zenon
    <3>4. DropFirst(<<>>, 0) = none
      BY <3>3 DEF DropFirst
    <3>6. Stale(none, currentStep + 1) /\ BufferUpTo(none, currentStep + 1)
      BY <3>3 DEF Stale, BufferUpTo
    <3>5. currentStep + 1 \in Nat
      BY <1>1
    <3>. QED BY <2>2, <3>1, <3>2, <3>4, <3>5, <3>6, StartStepInv
  <2>3. CASE /\ totalSteps' = currentStep + 1
             /\ rolloutBuffer' = <<>>
             /\ UNCHANGED <<currentStep, remainSamples, status, policyCmds, validation>>
    BY <1>1, <2>3 DEF CoreInv, Stale, BufferUpTo
  <2>. QED BY <2>1, <2>2, <2>3 DEF SendEndSignal
<1>5. RolloutInv(rewardQueue', weightVersion', rolloutCmds', currentStep')
  BY <1>3, <1>4, Frames DEF CoreInv
<1>6. stage' \in [Rollouts -> Stages]
  BY <1>3, NextRoundInv
<1>7. ended' \in [Rollouts -> BOOLEAN]
  BY <1>1, <1>3 DEF PlainTypes
<1>8. PlainTypes'
  BY <1>1, <1>3, <1>4, <1>6, <1>7, Zenon DEF PlainTypes, dataVars, valVars
<1>. QED BY <1>4, <1>5, <1>8, PartsNext

\* Training takes the step from the DataFetch command.
LEMMA TrainStepInv ==
  ASSUME IInv, TrainStep
  PROVE  IInv'
<1>1. /\ PlainTypes /\ currentStep \in Nat
      /\ policyCmds \in [Policies -> Seq(Commands)]
  BY Parts DEF CoreInv
<1>2. CoreInv(status', rolloutBuffer', remainSamples', policyCmds', validation', currentStep')
  BY Frames DEF TrainStep
<1>3. RolloutInv(rewardQueue', weightVersion', rolloutCmds', currentStep')
  BY <1>1, Frames DEF TrainStep, trainVars, rolloutVars
<1>4. trained' \in [Policies -> Nat]
  <2>1. \A p \in Policies : Head(policyCmds[p]) \in Commands
    BY <1>1, HeadTailProperties DEF TrainStep, HeadIs
  <2>. QED BY <2>1 DEF TrainStep, Commands
<1>5. PlainTypes'
  BY <1>1, <1>4, Zenon DEF TrainStep, PlainTypes, dataVars, rolloutVars, valVars
<1>. QED BY <1>2, <1>3, <1>5, PartsNext

\* trigger_weight_sync adds commands for a step the controller has already taken.
LEMMA SyncCommands ==
  ASSUME NEW step \in Nat, NEW total \in Nat, NEW now \in Nat, step <= now,
         NEW queue \in Seq(Commands), CommandsUpTo(queue, now), NEW type \in {"P2R", "R2R"}
  PROVE  /\ Sync(type, step, total) \in Commands
         /\ Append(queue, Sync(type, step, total)) \in Seq(Commands)
         /\ CommandsUpTo(Append(queue, Sync(type, step, total)), now)
<1>1. Sync(type, step, total) \in Commands /\ Sync(type, step, total).step = step
  BY DEF Sync, Commands
<1>. QED BY <1>1, AppendUpTo

\* The policy's share of a weight sync.
LEMMA PolicySyncInv ==
  ASSUME NEW cmds \in [Policies -> Seq(Commands)], NEW now \in Nat,
         NEW step \in Nat, NEW total \in Nat, step <= now,
         \A p \in Policies : CommandsUpTo(cmds[p], now)
  PROVE  /\ PolicySync(cmds, step, total) \in [Policies -> Seq(Commands)]
         /\ \A p \in Policies : CommandsUpTo(PolicySync(cmds, step, total)[p], now)
<1>1. \A p \in Policies :
        /\ Append(cmds[p], Sync("P2R", step, total)) \in Seq(Commands)
        /\ CommandsUpTo(Append(cmds[p], Sync("P2R", step, total)), now)
  BY SyncCommands
<1>. QED BY <1>1 DEF PolicySync

\* The rollout replicas' share of a weight sync.
LEMMA RolloutSyncInv ==
  ASSUME IInv, NEW step \in Nat, NEW total \in Nat, step <= currentStep
  PROVE  RolloutInv(rewardQueue, weightVersion, RolloutSync(step, total), currentStep)
<1>1. RolloutInv(rewardQueue, weightVersion, rolloutCmds, currentStep) /\ currentStep \in Nat
  BY Parts DEF CoreInv
<1>2. ASSUME NEW r \in Rollouts
      PROVE  /\ RolloutSync(step, total)[r] \in Seq(Commands)
             /\ CommandsUpTo(RolloutSync(step, total)[r], currentStep)
  <2> DEFINE p2r    == Sync("P2R", step, total)
             r2r    == Sync("R2R", step, total)
             before == rolloutCmds[r] \o (IF r = LeadRollout THEN <<p2r>> ELSE <<>>)
  <2>1. rolloutCmds[r] \in Seq(Commands) /\ CommandsUpTo(rolloutCmds[r], currentStep)
    BY <1>1 DEF RolloutInv
  <2>2. p2r \in Commands /\ r2r \in Commands
    BY <1>1, <2>1, SyncCommands
  <2>3. /\ Append(rolloutCmds[r], p2r) \in Seq(Commands)
        /\ CommandsUpTo(Append(rolloutCmds[r], p2r), currentStep)
    BY <1>1, <2>1, SyncCommands
  <2>4. \A queue \in Seq(Commands), cmd \in Commands : queue \o <<cmd>> = Append(queue, cmd)
    OBVIOUS
  <2>5. rolloutCmds[r] \o <<>> = rolloutCmds[r]
    BY <2>1, ConcatEmptySeq
  <2>. HIDE DEF p2r, r2r
  <2>6. before \in {Append(rolloutCmds[r], p2r), rolloutCmds[r]}
    BY <2>1, <2>2, <2>4, <2>5
  <2>7. before \in Seq(Commands) /\ CommandsUpTo(before, currentStep)
    BY <2>1, <2>3, <2>6
  <2>. HIDE DEF before
  <2>8. /\ Append(before, r2r) \in Seq(Commands)
        /\ CommandsUpTo(Append(before, r2r), currentStep)
    BY <1>1, <2>7, SyncCommands DEF r2r
  <2>9. RolloutSync(step, total)[r] = before \o <<r2r>>
    BY DEF RolloutSync, before, p2r, r2r
  <2>. QED BY <2>2, <2>4, <2>7, <2>8, <2>9
<1>3. RolloutSync(step, total) \in [Rollouts -> Seq(Commands)]
  <2>1. RolloutSync(step, total) = [r \in Rollouts |-> RolloutSync(step, total)[r]]
    BY DEF RolloutSync
  <2>. QED BY <1>2, <2>1
<1>. QED BY <1>1, <1>2, <1>3 DEF RolloutInv

\* An acknowledgement, which may complete the barrier, sync the weights and start a step.
LEMMA TrainAckInv ==
  ASSUME IInv, NEW p \in Policies, TrainAck(p)
  PROVE  IInv'
<1>1. /\ PlainTypes /\ currentStep \in Nat
      /\ CoreInv(status, rolloutBuffer, remainSamples, policyCmds, validation, currentStep)
      /\ RolloutInv(rewardQueue, weightVersion, rolloutCmds, currentStep)
  BY Parts DEF CoreInv
<1> DEFINE cmd    == Head(policyCmds[p])
           cmds   == [policyCmds EXCEPT ![p] = Tail(policyCmds[p])]
           acked  == [status EXCEPT ![p] = "REDUCED"]
           ready  == [q \in Policies |-> "READY"]
           synced == NeedsSync(cmd.step, cmd.total)
           sent   == IF synced THEN PolicySync(cmds, cmd.step, cmd.total) ELSE cmds
<1>2. /\ policyCmds[p] \in Seq(Commands) /\ policyCmds[p] # <<>>
      /\ CommandsUpTo(policyCmds[p], currentStep)
  BY <1>1 DEF CoreInv, TrainAck, HeadIs
<1>3. cmd.step \in Nat /\ cmd.total \in Nat /\ cmd.step <= currentStep
  <2>1. cmd = policyCmds[p][1] /\ 1 \in 1..Len(policyCmds[p])
    BY <1>2, EmptySeq, HeadTailProperties
  <2>2. policyCmds[p][1] \in Commands
    BY <1>2, <2>1, ElementOfSeq
  <2>. QED BY <1>2, <2>1, <2>2 DEF CommandsUpTo, Commands
<1>4. /\ cmds \in [Policies -> Seq(Commands)]
      /\ \A q \in Policies : CommandsUpTo(cmds[q], currentStep)
  <2>1. Tail(policyCmds[p]) \in Seq(Commands) /\ CommandsUpTo(Tail(policyCmds[p]), currentStep)
    BY <1>2, HeadTailProperties DEF CommandsUpTo
  <2>. QED BY <1>1, <2>1 DEF CoreInv
<1>5. acked \in [Policies -> Statuses] /\ ready \in [Policies -> Statuses]
  BY <1>1 DEF CoreInv, Statuses
<1>6. UNCHANGED <<dataVars, totalSteps, ended, trained, rolloutVars>>
  BY DEF TrainAck
<1>. HIDE DEF cmd, cmds, acked, ready, synced
<1>7. \/ /\ status' = acked
         /\ policyCmds' = cmds
         /\ UNCHANGED <<currentStep, remainSamples, rolloutBuffer, samplesOnTheFly,
                        onPolicyDone, validation, rolloutCmds>>
      \/ /\ samplesOnTheFly' = samplesOnTheFly - GlobalBatch
         /\ rolloutCmds' = IF synced THEN RolloutSync(cmd.step, cmd.total) ELSE rolloutCmds
         /\ TryTrigger(ready, rolloutBuffer, remainSamples, sent, validation)
         /\ onPolicyDone' = (onPolicyDone /\ ~OnPolicy)
  BY Zenon DEF TrainAck, cmd, cmds, acked, ready, synced
<1>8. /\ sent \in [Policies -> Seq(Commands)]
      /\ \A q \in Policies : CommandsUpTo(sent[q], currentStep)
  BY <1>1, <1>3, <1>4, PolicySyncInv
<1>. HIDE DEF sent
<1>9. /\ CoreInv(status', rolloutBuffer', remainSamples', policyCmds', validation', currentStep')
      /\ currentStep <= currentStep'
  <2>1. CASE /\ status' = acked /\ policyCmds' = cmds
             /\ UNCHANGED <<currentStep, remainSamples, rolloutBuffer, validation>>
    BY <1>1, <1>4, <1>5, <2>1 DEF CoreInv
  <2>2. CASE TryTrigger(ready, rolloutBuffer, remainSamples, sent, validation)
    <3>1. CoreInv(ready, rolloutBuffer, remainSamples, sent, validation, currentStep)
      BY <1>1, <1>5, <1>8 DEF CoreInv
    <3>. QED BY <1>1, <2>2, <3>1, TryTriggerInv DEF PlainTypes
  <2>. QED BY <1>7, <2>1, <2>2
<1>10. RolloutInv(rewardQueue', weightVersion', rolloutCmds', currentStep')
  <2>1. UNCHANGED <<rewardQueue, weightVersion>>
    BY <1>6 DEF rolloutVars
  <2>2. rolloutCmds' \in {rolloutCmds, RolloutSync(cmd.step, cmd.total)}
    BY <1>7
  <2>3. RolloutInv(rewardQueue', weightVersion', rolloutCmds', currentStep)
    BY <1>1, <1>3, <2>1, <2>2, RolloutSyncInv
  <2>4. currentStep' \in Nat
    BY <1>9 DEF CoreInv
  <2>. QED BY <1>1, <1>9, <2>3, <2>4, RolloutLater
<1>11. samplesOnTheFly' \in Int
  BY <1>1, <1>7, GlobalBatchType DEF PlainTypes
<1>12. onPolicyDone' \in BOOLEAN
  BY <1>1, <1>7, Zenon DEF PlainTypes
<1>13. PlainTypes'
  BY <1>1, <1>6, <1>11, <1>12, Zenon DEF PlainTypes, dataVars, rolloutVars, valVars
<1>. QED BY <1>9, <1>10, <1>13, PartsNext

\* A command taken off a stream.
LEMMA HeadAndTail ==
  ASSUME NEW queue \in Seq(Commands), queue # <<>>, NEW step, CommandsUpTo(queue, step)
  PROVE  /\ Head(queue) \in Commands /\ Head(queue).step <= step
         /\ Tail(queue) \in Seq(Commands) /\ CommandsUpTo(Tail(queue), step)
<1>1. Head(queue) = queue[1] /\ 1 \in 1..Len(queue)
  BY EmptySeq, HeadTailProperties
<1>2. queue[1] \in Commands
  BY <1>1, ElementOfSeq
<1>3. Tail(queue) \in Seq(Commands) /\ CommandsUpTo(Tail(queue), step)
  BY HeadTailProperties DEF CommandsUpTo
<1>. QED BY <1>1, <1>2, <1>3 DEF CommandsUpTo

\* The unicast hands over the weights of the last step trained.
LEMMA PolicyToRolloutInv ==
  ASSUME IInv, PolicyToRollout
  PROVE  IInv'
<1>1. /\ PlainTypes /\ currentStep \in Nat
      /\ CoreInv(status, rolloutBuffer, remainSamples, policyCmds, validation, currentStep)
      /\ RolloutInv(rewardQueue, weightVersion, rolloutCmds, currentStep)
  BY Parts DEF CoreInv
<1> DEFINE ptail == Tail(policyCmds[LeadPolicy])
           rtail == Tail(rolloutCmds[LeadRollout])
<1>2. ptail \in Seq(Commands) /\ CommandsUpTo(ptail, currentStep)
  BY <1>1, Constants, HeadAndTail DEF CoreInv, PolicyToRollout, HeadIs
<1>3. rtail \in Seq(Commands) /\ CommandsUpTo(rtail, currentStep)
  BY <1>1, Constants, HeadAndTail DEF RolloutInv, PolicyToRollout, HeadIs
<1>4. /\ policyCmds' = [policyCmds EXCEPT ![LeadPolicy] = ptail]
      /\ rolloutCmds' = [rolloutCmds EXCEPT ![LeadRollout] = rtail]
      /\ weights' = [weights EXCEPT ![LeadRollout] = trained[LeadPolicy]]
      /\ stage' = [stage EXCEPT ![LeadRollout] = "await"]
      /\ UNCHANGED <<dataVars, currentStep, remainSamples, status, rolloutBuffer, totalSteps,
                     samplesOnTheFly, onPolicyDone, validation, ended, trained, stopping,
                     promptQueue, rewardQueue, weightVersion, valVars>>
  BY DEF PolicyToRollout
<1>. HIDE DEF ptail, rtail
<1>5. CoreInv(status', rolloutBuffer', remainSamples', policyCmds', validation', currentStep')
  BY <1>1, <1>2, <1>4 DEF CoreInv
<1>6. RolloutInv(rewardQueue', weightVersion', rolloutCmds', currentStep')
  BY <1>1, <1>3, <1>4 DEF RolloutInv
<1>7. weights' \in [Rollouts -> Nat] /\ stage' \in [Rollouts -> Stages]
  BY <1>1, <1>4, Constants DEF PlainTypes, Stages
<1>8. PlainTypes'
  BY <1>1, <1>4, <1>7, Zenon DEF PlainTypes, dataVars, valVars
<1>. QED BY <1>5, <1>6, <1>8, PartsNext

\* The broadcast raises the weight versions to a step the controller has taken.
LEMMA RolloutBroadcastInv ==
  ASSUME IInv, RolloutBroadcast
  PROVE  IInv'
<1>1. /\ PlainTypes /\ currentStep \in Nat
      /\ RolloutInv(rewardQueue, weightVersion, rolloutCmds, currentStep)
  BY Parts DEF CoreInv
<1> DEFINE cmd      == Head(rolloutCmds[LeadRollout])
           validate == NeedsValidation(cmd.step, cmd.total)
           flag     == [r \in Rollouts |-> validate \/ valFlag[r]]
           stop     == cmd.step >= cmd.total
<1>2. \A r \in Rollouts : /\ Head(rolloutCmds[r]) \in Commands
                         /\ Head(rolloutCmds[r]).step <= currentStep
                         /\ Tail(rolloutCmds[r]) \in Seq(Commands)
                         /\ CommandsUpTo(Tail(rolloutCmds[r]), currentStep)
  BY <1>1, HeadAndTail DEF RolloutInv, RolloutBroadcast, HeadIs
<1>3. cmd.step \in Nat /\ cmd.step <= currentStep
  BY <1>2, Constants DEF Commands
<1>4. /\ weightVersion' = [r \in Rollouts |-> cmd.step]
      /\ weights' = [r \in Rollouts |-> weights[LeadRollout]]
      /\ valStep' = IF validate THEN [r \in Rollouts |-> cmd.step] ELSE valStep
      /\ stopping' = [r \in Rollouts |-> stop]
      /\ stage' = [r \in Rollouts |-> IF stop /\ flag[r] THEN "val" ELSE "loop"]
      /\ valFlag' = [r \in Rollouts |-> flag[r] /\ ~stop]
      /\ rolloutCmds' = [r \in Rollouts |-> Tail(rolloutCmds[r])]
      /\ UNCHANGED <<dataVars, trainVars, totalSteps, samplesOnTheFly, onPolicyDone,
                     validation, ended, trained, promptQueue, rewardQueue, valGot>>
  BY Zenon DEF RolloutBroadcast
<1>. HIDE DEF cmd, validate, flag
<1>5. CoreInv(status', rolloutBuffer', remainSamples', policyCmds', validation', currentStep')
  BY <1>4, Frames
<1>6. RolloutInv(rewardQueue', weightVersion', rolloutCmds', currentStep')
  <2>1. currentStep' = currentStep /\ rewardQueue' = rewardQueue
    BY <1>4 DEF trainVars
  <2>2. weightVersion' \in [Rollouts -> Nat] /\ \A r \in Rollouts : weightVersion'[r] <= currentStep
    BY <1>3, <1>4
  <2>3. /\ rolloutCmds' \in [Rollouts -> Seq(Commands)]
        /\ \A r \in Rollouts : CommandsUpTo(rolloutCmds'[r], currentStep)
    BY <1>2, <1>4
  <2>. QED BY <1>1, <2>1, <2>2, <2>3 DEF RolloutInv
<1>7. weights' \in [Rollouts -> Nat] /\ valStep' \in [Rollouts -> Nat]
  BY <1>1, <1>3, <1>4, Constants DEF PlainTypes
<1>8. stage' \in [Rollouts -> Stages]
  BY <1>4 DEF Stages
<1>9. stopping' \in [Rollouts -> BOOLEAN] /\ valFlag' \in [Rollouts -> BOOLEAN]
  <2>1. stop \in BOOLEAN
    OBVIOUS
  <2>2. \A r \in Rollouts : (flag[r] /\ ~stop) \in BOOLEAN
    OBVIOUS
  <2>. HIDE DEF stop
  <2>. QED BY <1>4, <2>1, <2>2, Zenon
<1>10. PlainTypes'
  BY <1>1, <1>4, <1>7, <1>8, <1>9, Zenon DEF PlainTypes, dataVars
<1>. QED BY <1>5, <1>6, <1>10, PartsNext

\* A record of the validation's shape with a field replaced.
LEMMA FieldUpdates ==
  ASSUME NEW Flags, NEW flag \in Flags, NEW n \in Nat,
         NEW val \in [active : Flags, step : Nat, left : Nat, reported : Nat]
  PROVE  /\ [val EXCEPT !.left = n] \in [active : Flags, step : Nat, left : Nat, reported : Nat]
         /\ [val EXCEPT !.reported = n]
              \in [active : Flags, step : Nat, left : Nat, reported : Nat]
         /\ [val EXCEPT !.active = flag]
              \in [active : Flags, step : Nat, left : Nat, reported : Nat]
OBVIOUS

\* Handing out, counting and closing keep the validation well typed.
LEMMA ValidationUpdates ==
  ASSUME NEW val \in Validations, NEW n \in Nat
  PROVE  /\ [val EXCEPT !.left = n] \in Validations
         /\ [val EXCEPT !.reported = n] \in Validations
         /\ [val EXCEPT !.active = FALSE] \in Validations
<1>1. FALSE \in BOOLEAN
  OBVIOUS
<1>. QED BY <1>1, FieldUpdates, Zenon DEF Validations

\* Taking a validation prompt.
LEMMA FetchValidationInv ==
  ASSUME IInv, NEW r \in Rollouts, FetchValidation(r)
  PROVE  IInv'
<1>1. /\ PlainTypes /\ currentStep \in Nat
      /\ CoreInv(status, rolloutBuffer, remainSamples, policyCmds, validation, currentStep)
  BY Parts DEF CoreInv
<1>2. UNCHANGED <<dataVars, trainVars, totalSteps, samplesOnTheFly, onPolicyDone, ended,
                  rolloutCmds, trained, stopping, promptQueue, rewardQueue, weightVersion,
                  weights, valStep>>
  BY DEF FetchValidation
<1>3. validation' \in Validations
  <2>1. CASE /\ ValidationLeft(valStep[r]) > 0
             /\ validation' = [validation EXCEPT !.left = validation.left - 1]
    <3>1. validation \in Validations
      BY <1>1 DEF CoreInv
    <3>2. validation.left \in Nat /\ validation.left > 0
      BY <2>1, <3>1 DEF ValidationLeft, Validations
    <3>3. validation.left - 1 \in Nat
      BY <3>2
    <3>. QED BY <2>1, <3>1, <3>3, ValidationUpdates
  <2>2. CASE UNCHANGED validation
    BY <1>1, <2>2 DEF CoreInv
  <2>. QED BY <2>1, <2>2 DEF FetchValidation
<1>4. valGot' \in [Rollouts -> Nat] /\ stage' \in [Rollouts -> Stages]
  <2>1. \/ /\ valGot' = [valGot EXCEPT ![r] = valGot[r] + 1]
           /\ stage' = [stage EXCEPT ![r] = "val"]
        \/ /\ valGot' = valGot
           /\ stage' = [stage EXCEPT ![r] = "valreport"]
    BY DEF FetchValidation
  <2>2. valGot \in [Rollouts -> Nat] /\ stage \in [Rollouts -> Stages]
    BY <1>1 DEF PlainTypes
  <2>. QED BY <2>1, <2>2 DEF Stages
<1>8. valFlag' \in [Rollouts -> BOOLEAN]
  BY <1>1 DEF FetchValidation, PlainTypes
<1>5. CoreInv(status', rolloutBuffer', remainSamples', policyCmds', validation', currentStep')
  BY <1>1, <1>2, <1>3 DEF CoreInv, trainVars
<1>6. RolloutInv(rewardQueue', weightVersion', rolloutCmds', currentStep')
  BY <1>1, <1>2, Frames DEF trainVars
<1>7. PlainTypes'
  BY <1>1, <1>2, <1>4, <1>8, Zenon DEF PlainTypes, dataVars
<1>. QED BY <1>5, <1>6, <1>7, PartsNext

\* A validation report, which may let the next step start.
LEMMA ReportValidationInv ==
  ASSUME IInv, NEW r \in Rollouts, ReportValidation(r)
  PROVE  IInv'
<1>1. /\ PlainTypes /\ currentStep \in Nat
      /\ CoreInv(status, rolloutBuffer, remainSamples, policyCmds, validation, currentStep)
  BY Parts DEF CoreInv
<1>2. /\ stage' = [stage EXCEPT ![r] = "loop"]
      /\ valGot' = [valGot EXCEPT ![r] = 0]
      /\ UNCHANGED <<dataVars, totalSteps, samplesOnTheFly, onPolicyDone, ended, rolloutCmds,
                     trained, stopping, promptQueue, rewardQueue, weightVersion, weights,
                     valFlag, valStep>>
  BY DEF ReportValidation
<1> DEFINE counted == IF valStep[r] = validation.step
                        THEN [validation EXCEPT !.reported = validation.reported + valGot[r]]
                        ELSE validation
           closed  == [counted EXCEPT !.active = FALSE]
<1>3. counted \in Validations /\ closed \in Validations
  <2>1. validation \in Validations
    BY <1>1 DEF CoreInv
  <2>2. validation.reported + valGot[r] \in Nat
    BY <1>1, <2>1 DEF PlainTypes, Validations
  <2>3. counted \in Validations
    BY <2>1, <2>2, ValidationUpdates
  <2>. QED BY <2>3, ValidationUpdates
<1> DEFINE finished == valGot[r] > 0 /\ counted.reported = NumVal /\ counted.active
<1>4. \/ TryTrigger(status, rolloutBuffer, remainSamples, policyCmds, closed)
      \/ validation' = counted /\ UNCHANGED trainVars
  <2>1. \/ /\ finished
           /\ TryTrigger(status, rolloutBuffer, remainSamples, policyCmds, closed)
        \/ /\ ~finished
           /\ validation' = counted
           /\ UNCHANGED trainVars
    BY Zenon DEF ReportValidation
  <2>. QED BY <2>1, Zenon
<1>. HIDE DEF counted, closed
<1>5. /\ CoreInv(status', rolloutBuffer', remainSamples', policyCmds', validation', currentStep')
      /\ currentStep <= currentStep'
  <2>1. CASE TryTrigger(status, rolloutBuffer, remainSamples, policyCmds, closed)
    <3>1. CoreInv(status, rolloutBuffer, remainSamples, policyCmds, closed, currentStep)
      BY <1>1, <1>3 DEF CoreInv
    <3>. QED BY <1>1, <2>1, <3>1, TryTriggerInv DEF PlainTypes
  <2>2. CASE validation' = counted /\ UNCHANGED trainVars
    BY <1>1, <1>3, <2>2 DEF CoreInv, trainVars
  <2>. QED BY <1>4, <2>1, <2>2
<1>6. RolloutInv(rewardQueue', weightVersion', rolloutCmds', currentStep')
  BY <1>2, <1>5, Frames DEF CoreInv
<1>7. valGot' \in [Rollouts -> Nat] /\ stage' \in [Rollouts -> Stages]
  BY <1>1, <1>2 DEF PlainTypes, Stages
<1>8. PlainTypes'
  BY <1>1, <1>2, <1>7, Zenon DEF PlainTypes, dataVars
<1>. QED BY <1>5, <1>6, <1>8, PartsNext

\* A step that changes nothing.
LEMMA StutterInv ==
  ASSUME IInv, UNCHANGED vars
  PROVE  IInv'
<1>1. /\ PlainTypes /\ currentStep \in Nat
  BY Parts DEF CoreInv
<1>2. CoreInv(status', rolloutBuffer', remainSamples', policyCmds', validation', currentStep')
  BY Frames DEF vars
<1>3. RolloutInv(rewardQueue', weightVersion', rolloutCmds', currentStep')
  BY <1>1, Frames DEF vars, trainVars, rolloutVars
<1>4. PlainTypes'
  BY <1>1 DEF PlainTypes, vars, dataVars, rolloutVars, valVars
<1>. QED BY <1>2, <1>3, <1>4, PartsNext

\* Every step of the controller and the workers keeps the invariant.
LEMMA NextInv == IInv /\ [Next]_vars => IInv'
<1>. SUFFICES ASSUME IInv, [Next]_vars PROVE IInv'
  OBVIOUS
<1>1. ASSUME NEW r \in Rollouts, RolloutStep(r) PROVE IInv'
  BY <1>1, FetchPromptsInv, GenerateHeldInv, LeaveInv, FetchEndInv, ReportRolloutsInv, SendEndSignalInv,
     FetchValidationInv, ReportValidationInv DEF RolloutStep
<1>2. CASE TrainStep
  BY <1>2, TrainStepInv
<1>3. ASSUME NEW p \in Policies, TrainAck(p) PROVE IInv'
  BY <1>3, TrainAckInv
<1>4. CASE PolicyToRollout
  BY <1>4, PolicyToRolloutInv
<1>5. CASE RolloutBroadcast
  BY <1>5, RolloutBroadcastInv
<1>6. CASE UNCHANGED vars
  BY <1>6, StutterInv
<1>. QED BY <1>1, <1>2, <1>3, <1>4, <1>5, <1>6 DEF Next, Terminated

\* The invariant holds throughout every behaviour.
LEMMA Invariance == Spec => []IInv
BY InitInv, NextInv, PTL DEF Spec

-----------------------------------------------------------------------------
(* The results *)

\* Every variable of the controller and the workers keeps its type, whatever the
\* number of replicas and the configuration: no step ever yields a negative step number, an
\* unknown status or a command that is not one of the three.
THEOREM TypeCorrect == Spec => []TypeOK
<1>1. IInv => TypeOK
  BY DEF IInv
<1>. QED BY <1>1, Invariance, PTL

\* The assertion of filter_outdated_rollouts, that no rollout is newer than the current
\* step, never fails, and neither a command nor a replica's weight version runs ahead.
THEOREM NoVersionAhead == Spec => []VersionNotAhead
<1>1. IInv => VersionNotAhead
  BY DEF IInv
<1>. QED BY <1>1, Invariance, PTL

\* A sample that passed filter_outdated_rollouts is never trained on more than
\* allowed_outdated_steps after its weights: its place in rollout_buffer fixes the step,
\* whatever arrives, is dropped or is trained on in between.
THEOREM BoundedStaleness == Spec => []StaleBound
<1>1. IInv => StaleBound
  BY DEF IInv
<1>. QED BY <1>1, Invariance, PTL

-----------------------------------------------------------------------------
(* The end of a rollout replica *)

\* Between its last request and its end signal a replica has no prompts left, and
\* it goes there only once.
EndingIsEmpty ==
  \A r \in Rollouts :
    stage[r] = "ending" => ~ended[r] /\ promptsLeft = 0 /\ promptQueue[r] = <<>>

EndInv == EndingIsEmpty /\ EndIsLast

LEMMA InitEnd == Init => EndInv
BY DEF Init, EndInv, EndingIsEmpty, EndIsLast

\* The steps of a replica that are not about its end leave the others alone.
LEMMA GenerateEnd ==
  ASSUME TypeOK, EndInv, NEW r \in Rollouts, FetchPrompts(r) \/ GenerateHeld(r) \/ Leave(r)
  PROVE  EndInv'
<1>1. stage[r] = "loop" /\ ended' = ended
  BY DEF FetchPrompts, GenerateHeld, Leave, FetchGuard, Working
<1>2. ~ended[r] \/ Leave(r)
  BY DEF EndInv, EndIsLast, FetchPrompts, FetchGuard, GenerateHeld, HeldIsAllowed
<1>3. stage' = [stage EXCEPT ![r] = IF stopping[r] THEN "stopped" ELSE "loop"]
  BY DEF FetchPrompts, GenerateHeld, Leave, NextRound
<1>4. promptsLeft = 0 => promptsLeft' = 0
  BY DEF FetchPrompts, GenerateHeld, Leave, dataVars
<1>5. \A s \in Rollouts \ {r} :
        promptQueue'[s] = promptQueue[s] /\ rewardQueue'[s] = rewardQueue[s]
  BY DEF TypeOK, FetchPrompts, GenerateHeld, Leave, Generate
<1>6. Leave(r) => UNCHANGED <<promptQueue, rewardQueue>>
  BY DEF Leave
<1>7. EndingIsEmpty'
  BY <1>1, <1>3, <1>4, <1>5 DEF TypeOK, EndInv, EndingIsEmpty
<1>8. EndIsLast'
  BY <1>1, <1>2, <1>4, <1>5, <1>6 DEF EndInv, EndIsLast
<1>. QED BY <1>7, <1>8 DEF EndInv

LEMMA FetchEndEnd ==
  ASSUME TypeOK, EndInv, NEW r \in Rollouts, FetchEnd(r)
  PROVE  EndInv'
BY DEF TypeOK, EndInv, EndingIsEmpty, EndIsLast, FetchEnd, FetchGuard, dataVars

LEMMA ReportEnd ==
  ASSUME TypeOK, EndInv, NEW r \in Rollouts, ReportRollouts(r)
  PROVE  EndInv'
<1>1. UNCHANGED <<promptsLeft, ended, stage, promptQueue>> /\ rewardQueue[r] # <<>>
      /\ rewardQueue' = [rewardQueue EXCEPT ![r] = Tail(@)]
  BY DEF ReportRollouts, dataVars
<1>2. ~ended[r]
  BY <1>1 DEF EndInv, EndIsLast
<1>. QED BY <1>1, <1>2 DEF TypeOK, EndInv, EndingIsEmpty, EndIsLast

LEMMA SendEndSignalEnd ==
  ASSUME TypeOK, EndInv, NEW r \in Rollouts, SendEndSignal(r)
  PROVE  EndInv'
<1>1. /\ stage[r] = "ending" /\ rewardQueue[r] = <<>>
      /\ stage' = [stage EXCEPT ![r] = IF stopping[r] THEN "stopped" ELSE "loop"]
      /\ ended' = [ended EXCEPT ![r] = TRUE]
      /\ UNCHANGED <<promptsLeft, promptQueue, rewardQueue>>
  BY DEF SendEndSignal, NextRound, dataVars
<1>. QED BY <1>1 DEF TypeOK, EndInv, EndingIsEmpty, EndIsLast

\* What a replica does in a validation, or with a command, is never the end.
LEMMA OtherEnd ==
  ASSUME TypeOK, EndInv, UNCHANGED <<promptsLeft, ended, promptQueue, rewardQueue>>,
         \A r \in Rollouts : stage'[r] = "ending" => stage[r] = "ending"
  PROVE  EndInv'
BY DEF TypeOK, EndInv, EndingIsEmpty, EndIsLast

LEMMA EndStep ==
  ASSUME TypeOK, EndInv, [Next]_vars
  PROVE  EndInv'
<1>1. ASSUME NEW r \in Rollouts, FetchValidation(r) \/ ReportValidation(r) PROVE EndInv'
  <2>1. UNCHANGED <<promptsLeft, ended, promptQueue, rewardQueue>>
    BY <1>1 DEF FetchValidation, ReportValidation, dataVars
  <2>2. \A s \in Rollouts : stage'[s] = "ending" => stage[s] = "ending"
    BY <1>1 DEF TypeOK, FetchValidation, ReportValidation
  <2>. QED BY <2>1, <2>2, OtherEnd
<1>2. ASSUME NEW r \in Rollouts, RolloutStep(r) PROVE EndInv'
  BY <1>1, <1>2, GenerateEnd, FetchEndEnd, ReportEnd, SendEndSignalEnd DEF RolloutStep
<1>3. CASE TrainStep \/ \E p \in Policies : TrainAck(p)
  <2>1. UNCHANGED <<promptsLeft, ended, promptQueue, rewardQueue, stage>>
    BY <1>3 DEF TrainStep, TrainAck, dataVars, rolloutVars
  <2>. QED BY <2>1, OtherEnd
<1>4. CASE PolicyToRollout
  <2>1. UNCHANGED <<promptsLeft, ended, promptQueue, rewardQueue>>
        /\ stage' = [stage EXCEPT ![LeadRollout] = "await"]
    BY <1>4 DEF PolicyToRollout, dataVars
  <2>2. \A r \in Rollouts : stage'[r] = "ending" => stage[r] = "ending"
    BY <2>1 DEF TypeOK
  <2>. QED BY <2>1, <2>2, OtherEnd
<1>5. CASE RolloutBroadcast
  <2>1. UNCHANGED <<promptsLeft, ended, promptQueue, rewardQueue>>
    BY <1>5 DEF RolloutBroadcast, dataVars
  <2>2. \A r \in Rollouts : stage'[r] # "ending"
    BY <1>5 DEF RolloutBroadcast
  <2>. QED BY <2>1, <2>2, OtherEnd
<1>6. CASE UNCHANGED vars
  BY <1>6, OtherEnd DEF vars, dataVars, rolloutVars
<1>. QED BY <1>2, <1>3, <1>4, <1>5, <1>6 DEF Next, Terminated

\* The end signal of a replica (send_end_signal) comes after everything it generated:
\* when the last one arrives, the samples that put_rollout_group clears are the only ones
\* left.  For every number of replicas, batch size and dataset.
THEOREM EndSignalIsLast == Spec => []EndIsLast
<1>1. IInv /\ EndInv /\ [Next]_vars => EndInv'
  BY EndStep DEF IInv
<1>2. EndInv => EndIsLast
  BY DEF EndInv
<1>. QED BY <1>1, <1>2, InitEnd, Invariance, PTL DEF Spec

-----------------------------------------------------------------------------
(* The status of a policy replica *)

Fetches(queue) == {i \in 1..Len(queue) : queue[i].type = "DataFetch"}
Single(S) == \A i, j \in S : i = j

\* A replica that is to answer has something to answer, ...
HasStep(st, cmds) == \A p \in Policies : st[p] = "RUNNING" => Fetches(cmds[p]) # {}

\* ... and a replica with a step to answer is known to have it, and has only that one.
Barrier(st, cmds) ==
  \A p \in Policies :
    Single(Fetches(cmds[p])) /\ (Fetches(cmds[p]) # {} => st[p] = "RUNNING")

StatusInv == HasStep(status, policyCmds) /\ (NoEmptyStep => Barrier(status, policyCmds))

LEMMA StatusInvImplies == TypeOK /\ StatusInv => StatusIsTrue
<1>. SUFFICES ASSUME TypeOK, StatusInv, NEW p \in Policies
              PROVE  /\ status[p] = "RUNNING" => DataFetches(p) # {}
                     /\ NoEmptyStep => /\ Cardinality(DataFetches(p)) <= 1
                                       /\ DataFetches(p) # {} => status[p] = "RUNNING"
  BY DEF StatusIsTrue
<1>1. DataFetches(p) = Fetches(policyCmds[p])
  BY LenProperties DEF TypeOK, DataFetches, Fetches
<1>2. ASSUME NoEmptyStep PROVE Cardinality(DataFetches(p)) <= 1
  <2>1. Single(DataFetches(p))
    BY <1>1, <1>2 DEF StatusInv, Barrier
  <2>2. DataFetches(p) = {} \/ \E i : DataFetches(p) = {i}
    BY <2>1 DEF Single
  <2>3. Cardinality(DataFetches(p)) \in {0, 1}
    <3>1. DataFetches(p) = {} => Cardinality(DataFetches(p)) = 0
      BY FS_EmptySet
    <3>2. ASSUME NEW i, DataFetches(p) = {i} PROVE Cardinality(DataFetches(p)) = 1
      BY <3>2, FS_Singleton, Zenon
    <3>. QED BY <2>2, <3>1, <3>2
  <2>. QED BY <2>3
<1>. QED BY <1>1, <1>2 DEF StatusInv, HasStep, Barrier

LEMMA InitStatus == Init => StatusInv
<1>1. Fetches(<<>>) = {}
  BY DEF Fetches
<1>. QED BY <1>1 DEF Init, StatusInv, HasStep, Barrier, Single

\* A command behind the others adds a step or does not.
LEMMA AppendFetches ==
  ASSUME NEW queue \in Seq(Commands), NEW cmd \in Commands
  PROVE  Fetches(Append(queue, cmd)) =
           Fetches(queue) \cup (IF cmd.type = "DataFetch" THEN {Len(queue) + 1} ELSE {})
<1>1. /\ Len(Append(queue, cmd)) = Len(queue) + 1
      /\ \A i \in 1..Len(queue) : Append(queue, cmd)[i] = queue[i]
      /\ Append(queue, cmd)[Len(queue) + 1] = cmd
  BY AppendProperties
<1>2. Len(queue) \in Nat
  OBVIOUS
<1>. QED BY <1>1, <1>2 DEF Fetches

\* Taking the first command moves the places of the others up by one.
LEMMA TailFetches ==
  ASSUME NEW queue \in Seq(Commands), queue # <<>>
  PROVE  \A i : i \in Fetches(Tail(queue)) <=> i + 1 \in Fetches(queue) /\ i \in 1..Len(queue)
<1>1. /\ Len(queue) \in Nat \ {0} /\ Len(Tail(queue)) = Len(queue) - 1
      /\ \A i \in 1..Len(Tail(queue)) : Tail(queue)[i] = queue[i + 1]
  BY EmptySeq, HeadTailProperties
<1>. QED BY <1>1 DEF Fetches

LEMMA HeadFetches ==
  ASSUME NEW queue \in Seq(Commands), queue # <<>>
  PROVE  1 \in Fetches(queue) <=> Head(queue).type = "DataFetch"
BY EmptySeq, HeadTailProperties DEF Fetches

\* A started step gives every replica its step; the replicas had none before.
LEMMA StartStepStatus ==
  ASSUME NEW cmds \in [Policies -> Seq(Commands)], NEW items \in Nat, NEW total \in Nat,
         NEW buffer, NEW remain, NEW val, currentStep \in Nat,
         StartStep(items, buffer, remain, cmds, total, val)
  PROVE  /\ HasStep(status', policyCmds')
         /\ (\A p \in Policies : Fetches(cmds[p]) = {}) => Barrier(status', policyCmds')
<1> DEFINE cmd == DataFetch(currentStep + 1, total, items)
<1>1. cmd \in Commands /\ cmd.type = "DataFetch"
  BY DEF DataFetch, Commands
<1>2. \A p \in Policies : policyCmds'[p] = Append(cmds[p], cmd) /\ status'[p] = "RUNNING"
  BY DEF StartStep, Publish
<1>3. \A p \in Policies : Fetches(policyCmds'[p]) = Fetches(cmds[p]) \cup {Len(cmds[p]) + 1}
  BY <1>1, <1>2, AppendFetches
<1>. QED BY <1>2, <1>3 DEF HasStep, Barrier, Single

\* A trigger attempt that finds the status true leaves it true: it starts a step only
\* when no replica is RUNNING.
LEMMA TryTriggerStatus ==
  ASSUME NEW st, NEW cmds \in [Policies -> Seq(Commands)], NEW buffer, NEW remain, NEW val,
         TypeOK, HasStep(st, cmds), TryTrigger(st, buffer, remain, cmds, val)
  PROVE  /\ HasStep(status', policyCmds')
         /\ Barrier(st, cmds) => Barrier(status', policyCmds')
<1>1. CASE MayStart(st, buffer, val)
  <2>1. StartStep(TrainBatch, buffer, remain, cmds, totalSteps, val)
    BY <1>1 DEF TryTrigger
  <2>2. Barrier(st, cmds) => \A p \in Policies : Fetches(cmds[p]) = {}
    BY <1>1 DEF MayStart, AllAre, Barrier
  <2>. QED BY <2>1, <2>2, StartStepStatus, Constants DEF TypeOK
<1>2. CASE ~MayStart(st, buffer, val)
  BY <1>2 DEF TryTrigger
<1>. QED BY <1>1, <1>2

\* The extra step is the last: nothing makes NoEmptyStep true again.
LEMMA NoEmptyStepBefore ==
  ASSUME TypeOK, EndInv, totalSteps' = totalSteps, ended' = ended,
         currentStep <= currentStep', currentStep' \in Nat, NoEmptyStep'
  PROVE  NoEmptyStep
BY DEF TypeOK, NoEmptyStep, SomeoneGenerates

LEMMA TryTriggerStep ==
  ASSUME NEW st, NEW cmds, NEW buffer, NEW remain, NEW val,
         TypeOK, TryTrigger(st, buffer, remain, cmds, val)
  PROVE  currentStep' \in Nat /\ currentStep <= currentStep'
BY DEF TypeOK, TryTrigger, StartStep

\* The same for the invariant, whatever the trigger attempt is made on.
LEMMA TriggerStatus ==
  ASSUME NEW st, NEW cmds \in [Policies -> Seq(Commands)], NEW buffer, NEW remain, NEW val,
         TypeOK, EndInv, totalSteps' = totalSteps, ended' = ended,
         HasStep(st, cmds), NoEmptyStep => Barrier(st, cmds),
         TryTrigger(st, buffer, remain, cmds, val)
  PROVE  StatusInv'
<1>1. NoEmptyStep' => NoEmptyStep
  BY TryTriggerStep, NoEmptyStepBefore
<1>2. HasStep(status', policyCmds') /\ (NoEmptyStep => Barrier(status', policyCmds'))
  BY TryTriggerStatus
<1>. QED BY <1>1, <1>2 DEF StatusInv

\* What leaves the step and the replicas' commands alone.
LEMMA OtherStatus ==
  ASSUME StatusInv, UNCHANGED <<currentStep, totalSteps, ended, status, policyCmds>>
  PROVE  StatusInv'
BY DEF StatusInv, HasStep, Barrier, NoEmptyStep, SomeoneGenerates

LEMMA ReportStatus ==
  ASSUME TypeOK, EndInv, StatusInv, NEW r \in Rollouts, ReportRollouts(r)
  PROVE  StatusInv'
<1>1. totalSteps' = totalSteps /\ ended' = ended
  BY DEF ReportRollouts
<1>2. PICK version, n, remain : PutRollouts(version, n, remain)
  BY DEF ReportRollouts
<1>3. CASE UNCHANGED <<currentStep, status, policyCmds>>
  BY <1>1, <1>3, OtherStatus
<1>4. ASSUME NEW buffer, TryTrigger(status, buffer, remain, policyCmds, validation)
      PROVE  StatusInv'
  BY <1>1, <1>4, TriggerStatus DEF TypeOK, StatusInv
<1>. QED BY <1>2, <1>3, <1>4 DEF PutRollouts

LEMMA ValidationStatus ==
  ASSUME TypeOK, EndInv, StatusInv, NEW r \in Rollouts, ReportValidation(r)
  PROVE  StatusInv'
<1>1. totalSteps' = totalSteps /\ ended' = ended
  BY DEF ReportValidation
<1>2. CASE UNCHANGED <<currentStep, status, policyCmds>>
  BY <1>1, <1>2, OtherStatus
<1>3. ASSUME NEW val, TryTrigger(status, rolloutBuffer, remainSamples, policyCmds, val)
      PROVE  StatusInv'
  BY <1>1, <1>3, TriggerStatus DEF TypeOK, StatusInv
<1>. QED BY <1>2, <1>3 DEF ReportValidation, trainVars

\* The end signal: the extra step is for every replica, and is the one exception.
LEMMA SendEndSignalStatus ==
  ASSUME TypeOK, EndInv, StatusInv, NEW r \in Rollouts, SendEndSignal(r)
  PROVE  StatusInv'
<1>1. stage[r] = "ending" /\ ended' = [ended EXCEPT ![r] = TRUE]
  BY DEF SendEndSignal
<1>2. NoEmptyStep
  BY <1>1 DEF EndInv, EndingIsEmpty, NoEmptyStep, SomeoneGenerates
<1>3. \/ UNCHANGED <<status, policyCmds>>
      \/ /\ \A s \in Rollouts \ {r} : ended[s]
         /\ totalSteps' = currentStep + 1
         /\ StartStep(0, <<>>, remainSamples, policyCmds, currentStep + 1, validation)
  BY DEF SendEndSignal, trainVars
<1>4. CASE UNCHANGED <<status, policyCmds>>
  BY <1>2, <1>4 DEF StatusInv
<1>5. CASE /\ \A s \in Rollouts \ {r} : ended[s]
           /\ totalSteps' = currentStep + 1
           /\ StartStep(0, <<>>, remainSamples, policyCmds, currentStep + 1, validation)
  <2>1. ~SomeoneGenerates'
    BY <1>1, <1>5 DEF TypeOK, SomeoneGenerates
  <2>2. currentStep' = currentStep + 1
    BY <1>5 DEF StartStep
  <2>3. ~NoEmptyStep'
    BY <1>5, <2>1, <2>2 DEF TypeOK, NoEmptyStep
  <2>4. HasStep(status', policyCmds')
    <3>1. currentStep \in Nat /\ currentStep + 1 \in Nat /\ policyCmds \in [Policies -> Seq(Commands)]
      BY DEF TypeOK
    <3>. QED BY <1>5, <3>1, StartStepStatus
  <2>. QED BY <2>3, <2>4 DEF StatusInv
<1>. QED BY <1>3, <1>4, <1>5

\* train_ack: the replica has answered its only step; when all have, none has one.
LEMMA TrainAckStatus ==
  ASSUME TypeOK, EndInv, StatusInv, NEW p \in Policies, TrainAck(p)
  PROVE  StatusInv'
<1> DEFINE cmd   == Head(policyCmds[p])
           cmds  == [policyCmds EXCEPT ![p] = Tail(@)]
           acked == [status EXCEPT ![p] = "REDUCED"]
           ready == [q \in Policies |-> "READY"]
           sync  == PolicySync(cmds, cmd.step, cmd.total)
<1>1. policyCmds[p] # <<>> /\ cmd.type = "DataFetch"
  BY DEF TrainAck, HeadIs
<1>2. policyCmds[p] \in Seq(Commands) /\ cmd \in Commands /\ Tail(policyCmds[p]) \in Seq(Commands)
  BY <1>1, EmptySeq, HeadTailProperties, ElementOfSeq DEF TypeOK
<1>3. cmds \in [Policies -> Seq(Commands)]
  BY <1>2 DEF TypeOK
<1>4. HasStep(acked, cmds)
  BY DEF StatusInv, HasStep, TypeOK
<1>5. ASSUME Barrier(status, policyCmds) PROVE Barrier(acked, cmds)
  <2>1. Fetches(Tail(policyCmds[p])) = {}
    <3>1. 1 \in Fetches(policyCmds[p]) /\ \A i \in Fetches(policyCmds[p]) : i = 1
      BY <1>1, <1>2, <1>5, HeadFetches DEF Barrier, Single
    <3>2. \A i \in Fetches(Tail(policyCmds[p])) : i + 1 = 1 /\ i \in 1..Len(policyCmds[p])
      BY <1>1, <1>2, <3>1, TailFetches
    <3>. QED BY <3>2
  <2>. QED BY <1>5, <2>1 DEF Barrier, Single, TypeOK
<1>6. totalSteps' = totalSteps /\ ended' = ended
  BY DEF TrainAck
<1>7. CASE status' = acked /\ policyCmds' = cmds /\ currentStep' = currentStep
  <2>1. NoEmptyStep' => NoEmptyStep
    BY <1>6, <1>7, NoEmptyStepBefore DEF TypeOK
  <2>. QED BY <1>4, <1>5, <1>7, <2>1 DEF StatusInv
<1>8. ASSUME AllAre(acked, {"REDUCED"}), NEW buffer, NEW remain, NEW val,
             NEW sent \in {cmds, sync}, TryTrigger(ready, buffer, remain, sent, val)
      PROVE  StatusInv'
  <2>1. \A q \in Policies : Fetches(sync[q]) = Fetches(cmds[q])
    <3>1. Sync("P2R", cmd.step, cmd.total) \in Commands /\ Sync("P2R", cmd.step, cmd.total).type = "P2R"
      BY <1>2 DEF Sync, Commands
    <3>2. \A q \in Policies :
            Fetches(Append(cmds[q], Sync("P2R", cmd.step, cmd.total))) = Fetches(cmds[q])
      BY <1>3, <3>1, AppendFetches
    <3>3. \A q \in Policies :
            sync[q] = IF q = LeadPolicy THEN Append(cmds[q], Sync("P2R", cmd.step, cmd.total)) ELSE cmds[q]
      BY <1>3 DEF PolicySync
    <3>. QED BY <3>2, <3>3
  <2>2. sync \in [Policies -> Seq(Commands)]
    <3>1. \A q \in Policies : Append(cmds[q], Sync("P2R", cmd.step, cmd.total)) \in Seq(Commands)
      BY <1>2, <1>3, AppendProperties DEF Sync, Commands
    <3>. QED BY <1>3, <3>1 DEF PolicySync
  <2>3. Barrier(status, policyCmds) => \A q \in Policies : Fetches(cmds[q]) = {}
    BY <1>5, <1>8 DEF Barrier, AllAre
  <2>4. NoEmptyStep => Barrier(ready, sent)
    BY <1>8, <2>1, <2>3 DEF StatusInv, Barrier, Single
  <2>5. HasStep(ready, sent)
    BY DEF HasStep
  <2>6. sent \in [Policies -> Seq(Commands)]
    BY <1>3, <1>8, <2>2
  <2>. QED BY <1>6, <1>8, <2>4, <2>5, <2>6, TriggerStatus
<1>. QED BY <1>7, <1>8 DEF TrainAck

\* The unicast takes a command that is no step off one replica's stream.
LEMMA UnicastStatus ==
  ASSUME TypeOK, EndInv, StatusInv, PolicyToRollout
  PROVE  StatusInv'
<1> DEFINE queue == policyCmds[LeadPolicy]
<1>1. /\ queue # <<>> /\ Head(queue).type = "P2R"
      /\ policyCmds' = [policyCmds EXCEPT ![LeadPolicy] = Tail(@)]
      /\ UNCHANGED <<status, currentStep, totalSteps, ended>>
  BY DEF PolicyToRollout, HeadIs
<1>2. queue \in Seq(Commands)
  BY Constants DEF TypeOK
<1>3. 1 \notin Fetches(queue)
  BY <1>1, <1>2, HeadFetches
<1>4. \A i : i \in Fetches(Tail(queue)) <=> i + 1 \in Fetches(queue) /\ i \in 1..Len(queue)
  BY <1>1, <1>2, TailFetches
<1>5. \A i \in Fetches(queue) : i - 1 \in Fetches(Tail(queue))
  <2>1. ASSUME NEW i \in Fetches(queue) PROVE i - 1 \in Fetches(Tail(queue))
    <3>1. Len(queue) \in Nat /\ i \in 1..Len(queue) /\ i # 1
      BY <1>2, <1>3 DEF Fetches
    <3>2. i - 1 \in 1..Len(queue) /\ (i - 1) + 1 = i
      BY <3>1
    <3>. QED BY <1>4, <3>2, <2>1
  <2>. QED BY <2>1
<1>6. Fetches(Tail(queue)) = {} <=> Fetches(queue) = {}
  BY <1>4, <1>5
<1>7. Single(Fetches(queue)) => Single(Fetches(Tail(queue)))
  <2>1. ASSUME Single(Fetches(queue)), NEW i \in Fetches(Tail(queue)), NEW j \in Fetches(Tail(queue))
        PROVE  i = j
    <3>1. i + 1 = j + 1
      BY <1>4, <2>1 DEF Single
    <3>2. i \in Nat /\ j \in Nat
      BY DEF Fetches
    <3>. QED BY <3>1, <3>2
  <2>. QED BY <2>1 DEF Single
<1>8. NoEmptyStep' = NoEmptyStep
  BY <1>1 DEF NoEmptyStep, SomeoneGenerates
<1>9. \A p \in Policies : p # LeadPolicy => policyCmds'[p] = policyCmds[p]
  BY <1>1 DEF TypeOK
<1>10. policyCmds'[LeadPolicy] = Tail(queue)
  BY <1>1, Constants DEF TypeOK
<1>11. HasStep(status', policyCmds')
  BY <1>1, <1>6, <1>9, <1>10 DEF StatusInv, HasStep
<1>12. Barrier(status, policyCmds) => Barrier(status', policyCmds')
  BY <1>1, <1>6, <1>7, <1>9, <1>10 DEF Barrier
<1>. QED BY <1>8, <1>11, <1>12 DEF StatusInv

LEMMA StatusStep ==
  ASSUME TypeOK, EndInv, StatusInv, [Next]_vars
  PROVE  StatusInv'
<1>1. ASSUME NEW r \in Rollouts, RolloutStep(r) PROVE StatusInv'
  <2>1. CASE FetchPrompts(r) \/ GenerateHeld(r) \/ Leave(r) \/ FetchEnd(r)
    BY <2>1, OtherStatus DEF FetchPrompts, GenerateHeld, Leave, FetchEnd, trainVars
  <2>2. CASE FetchValidation(r)
    BY <2>2, OtherStatus DEF FetchValidation, trainVars
  <2>. QED BY <1>1, <2>1, <2>2, ReportStatus, SendEndSignalStatus, ValidationStatus DEF RolloutStep
<1>2. CASE TrainStep
  BY <1>2, OtherStatus DEF TrainStep, trainVars
<1>3. CASE RolloutBroadcast
  BY <1>3, OtherStatus DEF RolloutBroadcast, trainVars
<1>4. CASE UNCHANGED vars
  BY <1>4, OtherStatus DEF vars, trainVars
<1>. QED BY <1>1, <1>2, <1>3, <1>4, TrainAckStatus, UnicastStatus DEF Next, Terminated

\* PolicyStatusManager.status is what the barrier of train_ack and the trigger of the
\* next step go by: it says RUNNING of exactly the replicas with a DataFetch to answer,
\* which have one each, until the extra step that ends a run.  For every number of
\* replicas, in on-policy, asynchronous and DAPO runs, with and without validation.
THEOREM StatusIsTheBarrier == Spec => []StatusIsTrue
<1>1. IInv /\ [Next]_vars /\ EndInv /\ StatusInv => EndInv' /\ StatusInv'
  BY EndStep, StatusStep DEF IInv
<1>2. IInv /\ StatusInv => StatusIsTrue
  BY StatusInvImplies DEF IInv
<1>. QED BY <1>1, <1>2, InitEnd, InitStatus, Invariance, PTL DEF Spec
=============================================================================
