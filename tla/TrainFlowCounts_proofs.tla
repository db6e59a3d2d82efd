----------------------- MODULE TrainFlowCounts_proofs -----------------------
(***************************************************************************)
(* The counts of the training loop: that a validation set is handed out    *)
(* and reported once, that remain_samples_num is what is left to train on, *)
(* that the replicas stop only when no step is left, that                  *)
(* samples_on_the_fly covers everything under way, and that on-policy      *)
(* training throws no sample away.                                         *)
(***************************************************************************)
EXTENDS TrainFlowStreams_proofs, SumTheorems

-----------------------------------------------------------------------------
(* Validation *)

\* Commands of a stream that ask for a validation come after its opening.
Opened(queue, step) ==
  \A i \in 1..Len(queue) :
    NeedsValidation(queue[i].step, queue[i].total) => queue[i].step <= step

\* The controller's validation val, at its step, and what the replicas have of it: got are
\* the prompts they have taken and asked the steps they validate.
Conserved(val, step, got, asked) ==
  /\ val.step <= step
  /\ val.active => step = val.step /\ val.left + val.reported + SumFunction(got) = NumVal
  /\ ~val.active => val.left = 0 /\ \A r \in Rollouts : got[r] = 0
  /\ \A r \in Rollouts : asked[r] <= val.step /\ (got[r] > 0 => asked[r] = val.step)

\* A replica has prompts only while it validates, with weights not older than asked for.
Validating(r) ==
  /\ valGot[r] > 0 => stage[r] \in {"val", "valreport"}
  /\ valStep[r] <= weightVersion[r]

ValInv ==
  /\ Conserved(validation, currentStep, valGot, valStep)
  /\ \A p \in Policies : Opened(policyCmds[p], validation.step)
  /\ \A r \in Rollouts : Opened(rolloutCmds[r], validation.step) /\ Validating(r)

LEMMA ValTypes ==
  ASSUME TypeOK
  PROVE  /\ validation \in Validations
         /\ validation.active \in BOOLEAN /\ validation.step \in Nat
         /\ validation.left \in Nat /\ validation.reported \in Nat
         /\ valGot \in [Rollouts -> Nat] /\ valGot \in [Rollouts -> Int]
         /\ \A r \in Rollouts : valGot[r] \in Nat /\ valStep[r] \in Nat /\ weightVersion[r] \in Nat
         /\ IsFiniteSet(Rollouts) /\ currentStep \in Nat /\ NumVal \in Nat \ {0}
<1>1. /\ validation \in Validations /\ valGot \in [Rollouts -> Nat]
      /\ \A r \in Rollouts : valGot[r] \in Nat /\ valStep[r] \in Nat /\ weightVersion[r] \in Nat
      /\ currentStep \in Nat
  BY DEF TypeOK
<1>2. IsFiniteSet(Rollouts) /\ NumVal \in Nat \ {0}
  BY ConstantsAssumption DEF ConstantsOK
<1>3. valGot \in [Rollouts -> Int]
  BY <1>1
<1>4. /\ validation.active \in BOOLEAN /\ validation.step \in Nat
      /\ validation.left \in Nat /\ validation.reported \in Nat
  BY <1>1 DEF Validations
<1>. QED BY <1>1, <1>2, <1>3, <1>4

LEMMA InitVal == Init => ValInv
<1>. SUFFICES ASSUME Init PROVE ValInv
  OBVIOUS
<1>1. Conserved(validation, currentStep, valGot, valStep)
  BY DEF Init, Conserved
<1>2. Opened(<<>>, validation.step)
  BY DEF Opened
<1>. QED BY <1>1, <1>2 DEF Init, ValInv, Validating

LEMMA ValImplies ==
  ASSUME IInv, ValInv
  PROVE  ValidationIsConserved /\ ValidationIsOpen
<1>1. ValidationIsConserved
  BY DEF ValInv, Conserved, ValidationIsConserved
<1>2. ASSUME NEW r \in Rollouts, valGot[r] > 0
      PROVE  validation.active /\ valStep[r] = validation.step /\ weightVersion[r] = valStep[r]
  <2>1. valGot[r] # 0 /\ valGot[r] \in Nat
    BY <1>2, ValTypes DEF IInv
  <2>2. validation.active
    BY <2>1 DEF ValInv, Conserved
  <2>3. valStep[r] = validation.step /\ currentStep = validation.step /\ valStep[r] <= weightVersion[r]
    BY <1>2, <2>2 DEF ValInv, Conserved, Validating
  <2>4. weightVersion[r] <= currentStep /\ weightVersion[r] \in Nat /\ valStep[r] \in Nat
    BY SyncsUpTo, ValTypes DEF IInv
  <2>. QED BY <2>2, <2>3, <2>4
<1>3. \A r \in Rollouts : valStep[r] <= validation.step
  BY DEF ValInv, Conserved
<1>4. ValidationIsOpen
  BY <1>2, <1>3 DEF ValidationIsOpen
<1>. QED BY <1>1, <1>4

LEMMA RestOpened ==
  ASSUME NEW queue, NEW rest, IsRest(rest, queue), NEW step, Opened(queue, step)
  PROVE  /\ Opened(rest, step)
         /\ NeedsValidation(Head(queue).step, Head(queue).total) => Head(queue).step <= step
<1>1. PICK n \in Nat : n = Len(rest) /\ Len(queue) = n + 1
  BY DEF IsRest
<1>2. \A i \in 1..n : rest[i] = queue[i + 1] /\ i + 1 \in 1..Len(queue)
  BY <1>1 DEF IsRest
<1>3. Opened(rest, step)
  BY <1>1, <1>2 DEF Opened
<1>4. Head(queue) = queue[1] /\ 1 \in 1..Len(queue)
  BY <1>1 DEF IsRest
<1>. QED BY <1>3, <1>4 DEF Opened

LEMMA LongerOpened ==
  ASSUME NEW queue, NEW cmd, NEW longer, IsLonger(longer, queue, cmd), NEW step,
         Opened(queue, step), NeedsValidation(cmd.step, cmd.total) => cmd.step <= step
  PROVE  Opened(longer, step)
<1>1. PICK n \in Nat : n = Len(queue) /\ Len(longer) = n + 1
  BY DEF IsLonger
<1>2. \A i \in 1..n : longer[i] = queue[i]
  BY <1>1 DEF IsLonger
<1>3. longer[n + 1] = cmd
  BY <1>1 DEF IsLonger
<1>4. \A i \in 1..(n + 1) : i \in 1..n \/ i = n + 1
  OBVIOUS
<1>. QED BY <1>1, <1>2, <1>3, <1>4 DEF Opened

LEMMA OpenedLater ==
  ASSUME NEW queue \in Seq(Commands), NEW step \in Nat, NEW later \in Nat, step <= later,
         Opened(queue, step)
  PROVE  Opened(queue, later)
<1>1. \A i \in 1..Len(queue) : queue[i].step \in Nat
  <2>1. \A i \in 1..Len(queue) : queue[i] \in Commands
    BY ElementOfSeq
  <2>. QED BY <2>1 DEF Commands
<1>2. \A x \in Nat : x <= step => x <= later
  OBVIOUS
<1>. QED BY <1>1, <1>2 DEF Opened

\* A step is started while no validation is active: it opens the one it asks for.
LEMMA StartVal ==
  ASSUME IInv, NEW items \in Nat, NEW buffer, NEW remain, NEW total \in Nat,
         NEW val \in Validations, NEW cmds \in [Policies -> Seq(Commands)],
         NEW rcmds \in [Rollouts -> Seq(Commands)],
         NEW got \in [Rollouts -> Nat], NEW asked \in [Rollouts -> Nat],
         ~val.active, Conserved(val, currentStep, got, asked),
         \A p \in Policies : Opened(cmds[p], val.step),
         \A r \in Rollouts : Opened(rcmds[r], val.step),
         StartStep(items, buffer, remain, cmds, total, val)
  PROVE  /\ Conserved(validation', currentStep', got, asked)
         /\ \A p \in Policies : Opened(policyCmds'[p], validation'.step)
         /\ \A r \in Rollouts : Opened(rcmds[r], validation'.step)
<1>1. currentStep \in Nat /\ IsFiniteSet(Rollouts) /\ NumVal \in Nat
  BY ValTypes DEF IInv
<1>2. val.step \in Nat /\ val.step <= currentStep
  BY DEF Validations, Conserved
<1>3. PICK cmd \in Commands :
        /\ cmd.step = currentStep + 1 /\ cmd.total = total /\ currentStep' = currentStep + 1
        /\ \A p \in Policies : IsLonger(policyCmds'[p], cmds[p], cmd)
  <2>1. \E cmd \in Commands :
            /\ cmd.type = "DataFetch" /\ cmd.step = currentStep + 1 /\ cmd.items = items
            /\ cmd.total = total /\ currentStep' = currentStep + 1
            /\ \A p \in Policies : IsLonger(policyCmds'[p], cmds[p], cmd) /\ status'[p] = "RUNNING"
    BY <1>1, StartedCommand
  <2>. QED BY <2>1
<1>4. CASE NeedsValidation(currentStep + 1, total)
  <2>1. validation' = [active |-> TRUE, step |-> currentStep + 1, left |-> NumVal, reported |-> 0]
    BY <1>4 DEF StartStep
  <2>2. /\ validation'.active /\ validation'.step = currentStep + 1
        /\ validation'.left = NumVal /\ validation'.reported = 0
    BY <2>1
  <2>3. \A r \in Rollouts : got[r] = 0
    BY DEF Conserved
  <2>4. got \in [Rollouts -> Int]
    OBVIOUS
  <2>5. SumFunction(got) = 0
    BY <1>1, <2>3, <2>4, SumZero
  <2>6. \A r \in Rollouts : asked[r] <= currentStep + 1 /\ ~(got[r] > 0)
    BY <1>1, <1>2, <2>3 DEF Conserved
  <2>7. NumVal + 0 + 0 = NumVal /\ currentStep + 1 <= currentStep + 1
    BY <1>1
  <2>8. Conserved(validation', currentStep', got, asked)
    BY <1>3, <2>2, <2>5, <2>6, <2>7 DEF Conserved
  <2>9. /\ \A p \in Policies : Opened(cmds[p], currentStep + 1)
        /\ \A r \in Rollouts : Opened(rcmds[r], currentStep + 1)
    <3>1. currentStep + 1 \in Nat /\ val.step <= currentStep + 1
      BY <1>1, <1>2
    <3>. QED BY <1>2, <3>1, OpenedLater
  <2>10. cmd.step <= currentStep + 1
    BY <1>1, <1>3
  <2>11. \A p \in Policies : Opened(policyCmds'[p], currentStep + 1)
    BY <1>3, <2>9, <2>10, LongerOpened
  <2>. QED BY <2>2, <2>8, <2>9, <2>11
<1>5. CASE ~NeedsValidation(currentStep + 1, total)
  <2>1. validation' = val
    BY <1>5 DEF StartStep
  <2>2. Conserved(val, currentStep + 1, got, asked)
    <3>1. val.step <= currentStep + 1
      BY <1>1, <1>2
    <3>. QED BY <3>1 DEF Conserved
  <2>3. \A p \in Policies : Opened(policyCmds'[p], val.step)
    BY <1>3, <1>5, LongerOpened
  <2>. QED BY <1>3, <2>1, <2>2, <2>3
<1>. QED BY <1>4, <1>5

LEMMA TriggerVal ==
  ASSUME IInv, NEW st, NEW buffer, NEW remain,
         NEW val \in Validations, NEW cmds \in [Policies -> Seq(Commands)],
         NEW rcmds \in [Rollouts -> Seq(Commands)],
         NEW got \in [Rollouts -> Nat], NEW asked \in [Rollouts -> Nat],
         Conserved(val, currentStep, got, asked),
         \A p \in Policies : Opened(cmds[p], val.step),
         \A r \in Rollouts : Opened(rcmds[r], val.step),
         TryTrigger(st, buffer, remain, cmds, val)
  PROVE  /\ Conserved(validation', currentStep', got, asked)
         /\ \A p \in Policies : Opened(policyCmds'[p], validation'.step)
         /\ \A r \in Rollouts : Opened(rcmds[r], validation'.step)
<1>1. CASE MayStart(st, buffer, val)
  <2>1. StartStep(TrainBatch, buffer, remain, cmds, totalSteps, val) /\ ~val.active
    BY <1>1 DEF TryTrigger, MayStart
  <2>2. TrainBatch \in Nat /\ totalSteps \in Nat
    BY Constants DEF IInv, TypeOK
  <2>. QED BY <2>1, <2>2, StartVal
<1>2. CASE ~MayStart(st, buffer, val)
  BY <1>2 DEF TryTrigger
<1>. QED BY <1>1, <1>2

\* What leaves the validation alone: a replica that has prompts of it stays where it is.
LEMMA OtherVal ==
  ASSUME ValInv,
         UNCHANGED <<currentStep, validation, policyCmds, rolloutCmds, weightVersion, valStep, valGot>>,
         \A r \in Rollouts : stage[r] \in {"val", "valreport"} => stage'[r] = stage[r]
  PROVE  ValInv'
<1>1. \A r \in Rollouts : Validating(r)'
  BY DEF ValInv, Validating
<1>. QED BY <1>1 DEF ValInv

LEMMA ReportVal ==
  ASSUME IInv, ValInv, NEW r \in Rollouts, ReportRollouts(r)
  PROVE  ValInv'
<1>1. UNCHANGED <<rolloutCmds, stage, weightVersion, valStep, valGot>>
  BY DEF ReportRollouts, valVars
<1>2. PICK version, n, remain : PutRollouts(version, n, remain)
  BY DEF ReportRollouts
<1>3. CASE UNCHANGED <<currentStep, policyCmds, validation>>
  BY <1>1, <1>3, OtherVal
<1>4. ASSUME NEW buffer, TryTrigger(status, buffer, remain, policyCmds, validation)
      PROVE  ValInv'
  <2>1. /\ validation \in Validations /\ policyCmds \in [Policies -> Seq(Commands)]
        /\ rolloutCmds \in [Rollouts -> Seq(Commands)]
        /\ valGot \in [Rollouts -> Nat] /\ valStep \in [Rollouts -> Nat]
    BY DEF IInv, TypeOK
  <2>2. /\ Conserved(validation', currentStep', valGot, valStep)
        /\ \A p \in Policies : Opened(policyCmds'[p], validation'.step)
        /\ \A s \in Rollouts : Opened(rolloutCmds[s], validation'.step)
    BY <1>4, <2>1, TriggerVal DEF ValInv
  <2>3. \A s \in Rollouts : Validating(s)'
    BY <1>1 DEF ValInv, Validating
  <2>. QED BY <1>1, <2>2, <2>3 DEF ValInv
<1>. QED BY <1>2, <1>3, <1>4 DEF PutRollouts

LEMMA SendEndSignalVal ==
  ASSUME IInv, ValInv, NEW r \in Rollouts, SendEndSignal(r)
  PROVE  ValInv'
<1>1. /\ UNCHANGED <<rolloutCmds, weightVersion, valStep, valGot>>
      /\ stage[r] = "ending" /\ NextRound(r)
  BY DEF SendEndSignal, valVars
<1>2. \A s \in Rollouts : stage[s] \in {"val", "valreport"} => stage'[s] = stage[s]
  BY <1>1 DEF NextRound, IInv, TypeOK
<1>3. CASE UNCHANGED <<currentStep, policyCmds, validation>>
  BY <1>1, <1>2, <1>3, OtherVal
<1>4. CASE /\ ~validation.active
           /\ StartStep(0, <<>>, remainSamples, policyCmds, currentStep + 1, validation)
  <2>1. /\ validation \in Validations /\ policyCmds \in [Policies -> Seq(Commands)]
        /\ rolloutCmds \in [Rollouts -> Seq(Commands)]
        /\ valGot \in [Rollouts -> Nat] /\ valStep \in [Rollouts -> Nat]
    BY DEF IInv, TypeOK
  <2>2. 0 \in Nat /\ currentStep + 1 \in Nat
    BY DEF IInv, TypeOK
  <2>3. /\ Conserved(validation', currentStep', valGot, valStep)
        /\ \A p \in Policies : Opened(policyCmds'[p], validation'.step)
        /\ \A s \in Rollouts : Opened(rolloutCmds[s], validation'.step)
    BY <1>4, <2>1, <2>2, StartVal DEF ValInv
  <2>4. \A s \in Rollouts : Validating(s)'
    BY <1>1, <1>2 DEF ValInv, Validating
  <2>. QED BY <1>1, <2>3, <2>4 DEF ValInv
<1>. QED BY <1>3, <1>4 DEF SendEndSignal, trainVars

\* The commands of a synchronisation ask for no validation that the acknowledged one, which
\* is behind its opening, did not ask for.
LEMMA SyncOpened ==
  ASSUME IInv, ValInv, NEW p \in Policies, TrainAck(p)
  PROVE  /\ \A q \in Policies : Opened(AckCmds(p)[q], validation.step)
         /\ \A q \in Policies : Opened(SyncCmds(p)[q], validation.step)
         /\ \A r \in Rollouts : Opened(SyncRolloutCmds(p)[r], validation.step)
<1>1. /\ AckCmds(p) \in [Policies -> Seq(Commands)]
      /\ IsRest(AckCmds(p)[p], policyCmds[p])
      /\ \A q \in Policies \ {p} : AckCmds(p)[q] = policyCmds[q]
      /\ AckCmd(p).step \in Nat /\ AckCmd(p).total \in Nat
  BY AckFacts
<1>2. /\ \A q \in Policies : Opened(policyCmds[q], validation.step)
      /\ \A r \in Rollouts : Opened(rolloutCmds[r], validation.step)
  BY DEF ValInv
<1>3. /\ Opened(AckCmds(p)[p], validation.step)
      /\ NeedsValidation(AckCmd(p).step, AckCmd(p).total) => AckCmd(p).step <= validation.step
  BY <1>1, <1>2, RestOpened DEF AckCmd
<1>4. \A q \in Policies : Opened(AckCmds(p)[q], validation.step)
  <2>1. \A q \in Policies : q = p \/ q \in Policies \ {p}
    OBVIOUS
  <2>. QED BY <1>1, <1>2, <1>3, <2>1
<1>5. \A type \in {"P2R", "R2R"} :
        LET cmd == Sync(type, AckCmd(p).step, AckCmd(p).total)
        IN  NeedsValidation(cmd.step, cmd.total) => cmd.step <= validation.step
  BY <1>3 DEF Sync
<1>6. CASE ~Synced(p)
  BY <1>2, <1>4, <1>6 DEF SyncCmds, SyncRolloutCmds
<1>7. CASE Synced(p)
  <2> DEFINE p2r == Sync("P2R", AckCmd(p).step, AckCmd(p).total)
             r2r == Sync("R2R", AckCmd(p).step, AckCmd(p).total)
  <2>1. /\ NeedsValidation(p2r.step, p2r.total) => p2r.step <= validation.step
        /\ NeedsValidation(r2r.step, r2r.total) => r2r.step <= validation.step
    BY <1>5
  <2>2. /\ IsLonger(SyncCmds(p)[LeadPolicy], AckCmds(p)[LeadPolicy], p2r)
        /\ \A q \in Policies \ {LeadPolicy} : SyncCmds(p)[q] = AckCmds(p)[q]
    <3>1. SyncCmds(p) = PolicySync(AckCmds(p), AckCmd(p).step, AckCmd(p).total)
      BY <1>7 DEF SyncCmds
    <3>2. \A cmds \in [Policies -> Seq(Commands)], step \in Nat, total \in Nat :
            /\ IsLonger(PolicySync(cmds, step, total)[LeadPolicy], cmds[LeadPolicy],
                        Sync("P2R", step, total))
            /\ \A q \in Policies \ {LeadPolicy} : PolicySync(cmds, step, total)[q] = cmds[q]
      BY PolicySyncFacts
    <3>. QED BY <1>1, <3>1, <3>2
  <2>3. \A r \in Rollouts : \E before \in Seq(Commands) :
          /\ IF r = LeadRollout THEN IsLonger(before, rolloutCmds[r], p2r)
                                ELSE before = rolloutCmds[r]
          /\ IsLonger(SyncRolloutCmds(p)[r], before, r2r)
    <3>1. SyncRolloutCmds(p) = RolloutSync(AckCmd(p).step, AckCmd(p).total)
      BY <1>7 DEF SyncRolloutCmds
    <3>. QED BY <1>1, <3>1, RolloutSyncFacts
  <2>. HIDE DEF p2r, r2r
  <2>4. Opened(SyncCmds(p)[LeadPolicy], validation.step)
    BY <1>4, <2>1, <2>2, LongerOpened, Constants
  <2>5. \A q \in Policies : Opened(SyncCmds(p)[q], validation.step)
    BY <1>4, <2>2, <2>4
  <2>6. ASSUME NEW r \in Rollouts PROVE Opened(SyncRolloutCmds(p)[r], validation.step)
    <3>1. PICK before \in Seq(Commands) :
            /\ IF r = LeadRollout THEN IsLonger(before, rolloutCmds[r], p2r)
                                  ELSE before = rolloutCmds[r]
            /\ IsLonger(SyncRolloutCmds(p)[r], before, r2r)
      BY <2>3
    <3>2. Opened(before, validation.step)
      BY <1>2, <2>1, <3>1, LongerOpened
    <3>. QED BY <2>1, <3>1, <3>2, LongerOpened
  <2>. QED BY <1>4, <2>5, <2>6
<1>. QED BY <1>6, <1>7

LEMMA TrainAckVal ==
  ASSUME IInv, ValInv, NEW p \in Policies, TrainAck(p)
  PROVE  ValInv'
<1>1. UNCHANGED <<stage, weightVersion, valStep, valGot>>
  BY DEF TrainAck, rolloutVars, valVars
<1>2. \A r \in Rollouts : Validating(r)'
  BY <1>1 DEF ValInv, Validating
<1>3. CASE policyCmds' = AckCmds(p) /\ UNCHANGED <<currentStep, validation, rolloutCmds>>
  BY <1>1, <1>2, <1>3, SyncOpened DEF ValInv
<1>4. CASE /\ AllAre(Acked(p), {"REDUCED"})
           /\ rolloutCmds' = SyncRolloutCmds(p)
           /\ TryTrigger(AllReady, rolloutBuffer, remainSamples, SyncCmds(p), validation)
  <2>1. /\ validation \in Validations /\ rolloutCmds' \in [Rollouts -> Seq(Commands)]
        /\ valGot \in [Rollouts -> Nat] /\ valStep \in [Rollouts -> Nat]
    BY TrainAckInv DEF IInv, TypeOK
  <2>2. SyncCmds(p) \in [Policies -> Seq(Commands)]
    <3>1. /\ AckCmds(p) \in [Policies -> Seq(Commands)]
          /\ AckCmd(p).step \in Nat /\ AckCmd(p).total \in Nat
      BY AckFacts
    <3>. QED BY <3>1, PolicySyncFacts DEF SyncCmds
  <2>3. /\ Conserved(validation', currentStep', valGot, valStep)
        /\ \A q \in Policies : Opened(policyCmds'[q], validation'.step)
        /\ \A r \in Rollouts : Opened(rolloutCmds'[r], validation'.step)
    <3>1. /\ Conserved(validation, currentStep, valGot, valStep)
          /\ \A q \in Policies : Opened(SyncCmds(p)[q], validation.step)
          /\ \A r \in Rollouts : Opened(rolloutCmds'[r], validation.step)
      BY <1>4, SyncOpened DEF ValInv
    <3>. QED BY <1>4, <2>1, <2>2, <3>1, TriggerVal
  <2>. QED BY <1>1, <1>2, <2>3 DEF ValInv
<1>. QED BY <1>3, <1>4, AckFacts

LEMMA UnicastVal ==
  ASSUME IInv, ValInv, PolicyToRollout
  PROVE  ValInv'
<1>1. /\ policyCmds[LeadPolicy] \in Seq(Commands) /\ policyCmds[LeadPolicy] # <<>>
      /\ rolloutCmds[LeadRollout] \in Seq(Commands) /\ rolloutCmds[LeadRollout] # <<>>
      /\ stage[LeadRollout] = "loop"
      /\ UNCHANGED <<currentStep, validation, weightVersion, valStep, valGot>>
  BY Constants DEF PolicyToRollout, HeadIs, IInv, TypeOK, valVars
<1>2. /\ IsRest(policyCmds'[LeadPolicy], policyCmds[LeadPolicy])
      /\ \A p \in Policies \ {LeadPolicy} : policyCmds'[p] = policyCmds[p]
      /\ IsRest(rolloutCmds'[LeadRollout], rolloutCmds[LeadRollout])
      /\ \A r \in Rollouts \ {LeadRollout} : rolloutCmds'[r] = rolloutCmds[r] /\ stage'[r] = stage[r]
  <2>1. /\ policyCmds'[LeadPolicy] = Tail(policyCmds[LeadPolicy])
        /\ \A p \in Policies \ {LeadPolicy} : policyCmds'[p] = policyCmds[p]
        /\ rolloutCmds'[LeadRollout] = Tail(rolloutCmds[LeadRollout])
        /\ \A r \in Rollouts \ {LeadRollout} : rolloutCmds'[r] = rolloutCmds[r] /\ stage'[r] = stage[r]
    BY Constants DEF PolicyToRollout, IInv, TypeOK
  <2>. QED BY <1>1, <2>1, TailIsRest
<1>3. \A p \in Policies : Opened(policyCmds'[p], validation.step)
  <2>1. Opened(policyCmds'[LeadPolicy], validation.step)
    BY <1>2, RestOpened, Constants DEF ValInv
  <2>. QED BY <1>2, <2>1 DEF ValInv
<1>4. \A r \in Rollouts : Opened(rolloutCmds'[r], validation.step)
  <2>1. Opened(rolloutCmds'[LeadRollout], validation.step)
    BY <1>2, RestOpened, Constants DEF ValInv
  <2>. QED BY <1>2, <2>1 DEF ValInv
<1>5. \A r \in Rollouts : Validating(r)'
  <2>1. ~(valGot[LeadRollout] > 0)
    BY <1>1, Constants DEF ValInv, Validating
  <2>. QED BY <1>1, <1>2, <2>1 DEF ValInv, Validating
<1>. QED BY <1>1, <1>3, <1>4, <1>5 DEF ValInv

\* The broadcast finds the replicas without validation prompts; a validation that it asks
\* for has been opened before the command was sent.
LEMMA BroadcastVal ==
  ASSUME IInv, OrderInv, ValInv, RolloutBroadcast
  PROVE  ValInv'
<1> DEFINE cmd == Head(rolloutCmds[LeadRollout])
<1>1. /\ UNCHANGED <<currentStep, policyCmds, validation, valGot>>
      /\ \A r \in Rollouts : stage[r] \in {"await", "loop"}
      /\ weightVersion' = [r \in Rollouts |-> cmd.step]
      /\ valStep' = IF NeedsValidation(cmd.step, cmd.total) THEN [r \in Rollouts |-> cmd.step]
                                                            ELSE valStep
  BY DEF RolloutBroadcast, trainVars
<1>2. \A r \in Rollouts :
        /\ IsRest(rolloutCmds'[r], rolloutCmds[r])
        /\ Head(rolloutCmds[r]).step = cmd.step
        /\ Head(rolloutCmds[r]).step \in Steps(rolloutCmds[r], "R2R")
  BY BroadcastSteps
<1>3. cmd.step \in Nat /\ \A r \in Rollouts : weightVersion[r] < cmd.step
  <2>1. \A r \in Rollouts : \A x \in Steps(rolloutCmds[r], "R2R") : weightVersion[r] < x
    BY DEF OrderInv, StreamsMatch
  <2>2. \A x \in Steps(rolloutCmds[LeadRollout], "R2R") : x \in Nat
    BY SyncsUpTo, Constants
  <2>. QED BY <1>2, <2>1, <2>2, Constants
<1>4. /\ \A r \in Rollouts : Opened(rolloutCmds'[r], validation.step)
      /\ NeedsValidation(cmd.step, cmd.total) => cmd.step <= validation.step
  BY <1>2, RestOpened, Constants DEF ValInv
<1>. HIDE DEF cmd
<1>5. \A r \in Rollouts : ~(valGot[r] > 0)
  BY <1>1 DEF ValInv, Validating
<1>6. \A r \in Rollouts : valStep'[r] <= cmd.step /\ valStep'[r] <= validation.step
  <2>1. CASE NeedsValidation(cmd.step, cmd.total)
    BY <1>1, <1>3, <1>4, <2>1
  <2>2. CASE ~NeedsValidation(cmd.step, cmd.total)
    <3>1. \A r \in Rollouts : /\ valStep[r] <= weightVersion[r] /\ valStep[r] <= validation.step
                              /\ valStep[r] \in Nat /\ weightVersion[r] \in Nat
      BY ValTypes DEF ValInv, Conserved, Validating, IInv
    <3>2. \A r \in Rollouts : valStep[r] <= cmd.step
      BY <1>3, <3>1
    <3>. QED BY <1>1, <2>2, <3>1, <3>2
  <2>. QED BY <2>1, <2>2
<1>7. Conserved(validation, currentStep, valGot, valStep')
  BY <1>5, <1>6 DEF ValInv, Conserved
<1>8. \A r \in Rollouts : Validating(r)'
  BY <1>1, <1>5, <1>6 DEF Validating
<1>. QED BY <1>1, <1>4, <1>7, <1>8 DEF ValInv

LEMMA FetchVal ==
  ASSUME IInv, ValInv, NEW r \in Rollouts, FetchValidation(r)
  PROVE  ValInv'
<1>1. /\ UNCHANGED <<currentStep, policyCmds, rolloutCmds, weightVersion, valStep>>
      /\ validation.step \in Nat /\ validation.left \in Nat /\ validation.reported \in Nat
      /\ validation \in Validations /\ valGot \in [Rollouts -> Nat] /\ valGot \in [Rollouts -> Int]
      /\ valGot[r] \in Nat /\ IsFiniteSet(Rollouts) /\ NumVal \in Nat
      /\ stage \in [Rollouts -> Stages]
  BY ValTypes DEF FetchValidation, trainVars, IInv, TypeOK
<1>2. CASE /\ ValidationLeft(valStep[r]) > 0
           /\ validation' = [validation EXCEPT !.left = @ - 1]
           /\ valGot' = [valGot EXCEPT ![r] = @ + 1]
           /\ stage' = [stage EXCEPT ![r] = "val"]
  <2>1. valStep[r] = validation.step /\ validation.left > 0
    BY <1>2, <1>1 DEF ValidationLeft
  <2>2. /\ validation'.active = validation.active /\ validation'.step = validation.step
        /\ validation'.left = validation.left - 1 /\ validation'.reported = validation.reported
    BY <1>1, <1>2 DEF Validations
  <2>3. /\ validation.active /\ currentStep = validation.step
        /\ validation.left + validation.reported + SumFunction(valGot) = NumVal
    BY <2>1 DEF ValInv, Conserved
  <2>4. valGot'[r] = valGot[r] + 1 /\ \A s \in Rollouts \ {r} : valGot'[s] = valGot[s]
    BY <1>1, <1>2
  <2>5. /\ SumFunction(valGot) \in Int
        /\ SumFunction(valGot') = SumFunction(valGot) - valGot[r] + (valGot[r] + 1)
    <3>1. valGot[r] + 1 \in Int
      BY <1>1
    <3>. QED BY <1>1, <1>2, <3>1, SumType, SumUpdate
  <2>6. validation'.left + validation'.reported + SumFunction(valGot') = NumVal
    BY <1>1, <2>2, <2>3, <2>5
  <2>7. \A s \in Rollouts : valStep[s] <= validation.step /\ (valGot'[s] > 0 => valStep[s] = validation.step)
    BY <2>1, <2>4 DEF ValInv, Conserved
  <2>8. validation.step <= currentStep
    BY DEF ValInv, Conserved
  <2>9. Conserved(validation', currentStep, valGot', valStep)
    BY <2>2, <2>3, <2>6, <2>7, <2>8 DEF Conserved
  <2>10. \A s \in Rollouts : Validating(s)'
    BY <1>1, <1>2, <2>4 DEF ValInv, Validating
  <2>. QED BY <1>1, <2>2, <2>9, <2>10 DEF ValInv
<1>3. CASE stage' = [stage EXCEPT ![r] = "valreport"] /\ UNCHANGED <<validation, valGot>>
  <2>1. \A s \in Rollouts : Validating(s)'
    BY <1>1, <1>3 DEF ValInv, Validating
  <2>. QED BY <1>1, <1>3, <2>1 DEF ValInv
<1>. QED BY <1>2, <1>3 DEF FetchValidation

\* The results of a replica, which has them of the validation that is active or has none.
LEMMA CountedVal ==
  ASSUME IInv, ValInv, NEW r \in Rollouts,
         NEW got, got = [valGot EXCEPT ![r] = 0],
         NEW counted, counted = IF valStep[r] = validation.step
                                  THEN [validation EXCEPT !.reported = @ + valGot[r]] ELSE validation
  PROVE  /\ counted \in Validations /\ counted.step = validation.step
         /\ got \in [Rollouts -> Nat]
         /\ Conserved(counted, currentStep, got, valStep)
<1>1. /\ validation.step \in Nat /\ validation.left \in Nat /\ validation.reported \in Nat
      /\ validation \in Validations /\ valGot \in [Rollouts -> Nat] /\ valGot \in [Rollouts -> Int]
      /\ valGot[r] \in Nat /\ IsFiniteSet(Rollouts)
  BY ValTypes DEF IInv
<1>2. /\ got \in [Rollouts -> Nat] /\ got[r] = 0
      /\ \A s \in Rollouts \ {r} : got[s] = valGot[s]
  BY <1>1
<1>3. SumFunction(valGot) \in Int /\ SumFunction(got) = SumFunction(valGot) - valGot[r] + 0
  <2>1. \A v \in Int : SumFunction([valGot EXCEPT ![r] = v]) = SumFunction(valGot) - valGot[r] + v
    BY <1>1, SumUpdate
  <2>2. 0 \in Int
    OBVIOUS
  <2>. QED BY <1>1, <2>1, <2>2, SumType
<1>4. Conserved(validation, currentStep, valGot, valStep)
  BY DEF ValInv
<1>5. \A s \in Rollouts : ~(got[r] > 0) /\ (got[s] > 0 => valGot[s] > 0)
  BY <1>2
<1>6. CASE valStep[r] = validation.step
  <2>1. counted = [validation EXCEPT !.reported = validation.reported + valGot[r]]
    BY <1>6
  <2>2. counted \in Validations
    <3>1. validation.reported + valGot[r] \in Nat
      BY <1>1
    <3>. QED BY <1>1, <2>1, <3>1, ValidationUpdates
  <2>3. /\ counted.active = validation.active /\ counted.step = validation.step
        /\ counted.left = validation.left /\ counted.reported = validation.reported + valGot[r]
    BY <1>1, <2>1 DEF Validations
  <2>4. counted.active => counted.left + counted.reported + SumFunction(got) = NumVal
    <3>1. validation.active => validation.left + validation.reported + SumFunction(valGot) = NumVal
      BY <1>4 DEF Conserved
    <3>. QED BY <1>1, <1>3, <2>3, <3>1
  <2>5. ~counted.active => \A s \in Rollouts : got[s] = 0
    BY <1>2, <1>4, <2>3 DEF Conserved
  <2>6. Conserved(counted, currentStep, got, valStep)
    BY <1>4, <1>5, <2>3, <2>4, <2>5 DEF Conserved
  <2>. QED BY <1>2, <2>2, <2>3, <2>6
<1>7. CASE valStep[r] # validation.step
  <2>1. counted = validation
    BY <1>7
  <2>2. valGot[r] = 0
    BY <1>1, <1>4, <1>7 DEF Conserved
  <2>3. got = valGot
    BY <1>1, <2>2
  <2>. QED BY <1>1, <1>4, <2>1, <2>3
<1>. QED BY <1>6, <1>7

\* The report that completes the validation set finds nothing left at any replica.
LEMMA FinishedVal ==
  ASSUME NEW val \in Validations, NEW step, NEW got \in [Rollouts -> Nat], NEW asked,
         val.active, val.reported = NumVal, Conserved(val, step, got, asked)
  PROVE  /\ [val EXCEPT !.active = FALSE] \in Validations
         /\ [val EXCEPT !.active = FALSE].step = val.step
         /\ ~[val EXCEPT !.active = FALSE].active
         /\ Conserved([val EXCEPT !.active = FALSE], step, got, asked)
<1> DEFINE closed == [val EXCEPT !.active = FALSE]
<1>1. closed \in Validations
  BY ValidationUpdates
<1>2. ~closed.active /\ closed.step = val.step /\ closed.left = val.left
  BY DEF Validations
<1>3. IsFiniteSet(Rollouts) /\ NumVal \in Nat
  BY ConstantsAssumption DEF ConstantsOK
<1>4. SumFunction(got) \in Nat /\ \A r \in Rollouts : got[r] <= SumFunction(got)
  BY <1>3, SumNat
<1>5. val.left \in Nat /\ val.left + val.reported + SumFunction(got) = NumVal
  BY DEF Validations, Conserved
<1>6. val.left = 0 /\ SumFunction(got) = 0
  BY <1>3, <1>4, <1>5
<1>7. \A r \in Rollouts : got[r] = 0
  <2>1. \A r \in Rollouts : got[r] \in Nat /\ got[r] <= 0
    BY <1>4, <1>6
  <2>. QED BY <2>1
<1>8. Conserved(closed, step, got, asked)
  <2>. HIDE DEF closed
  <2>. QED BY <1>2, <1>6, <1>7 DEF Conserved
<1>. QED BY <1>1, <1>2, <1>8

LEMMA ReportValidationVal ==
  ASSUME IInv, ValInv, NEW r \in Rollouts, ReportValidation(r)
  PROVE  ValInv'
<1> DEFINE counted == IF valStep[r] = validation.step
                        THEN [validation EXCEPT !.reported = @ + valGot[r]] ELSE validation
<1>1. /\ UNCHANGED <<rolloutCmds, weightVersion, valStep>>
      /\ stage' = [stage EXCEPT ![r] = "loop"] /\ valGot' = [valGot EXCEPT ![r] = 0]
  BY DEF ReportValidation
<1>2. /\ counted \in Validations /\ counted.step = validation.step
      /\ valGot' \in [Rollouts -> Nat]
      /\ Conserved(counted, currentStep, valGot', valStep)
  BY <1>1, CountedVal
<1>3. \A s \in Rollouts : Validating(s)'
  <2>1. valGot'[r] = 0 /\ \A s \in Rollouts \ {r} : stage'[s] = stage[s] /\ valGot'[s] = valGot[s]
    BY <1>1 DEF IInv, TypeOK
  <2>. QED BY <1>1, <2>1 DEF ValInv, Validating
<1>4. /\ \A p \in Policies : Opened(policyCmds[p], counted.step)
      /\ \A s \in Rollouts : Opened(rolloutCmds[s], counted.step)
  BY <1>2 DEF ValInv
<1>5. CASE /\ counted.reported = NumVal /\ counted.active
           /\ TryTrigger(status, rolloutBuffer, remainSamples, policyCmds,
                         [counted EXCEPT !.active = FALSE])
  <2> DEFINE closed == [counted EXCEPT !.active = FALSE]
  <2>. HIDE DEF counted
  <2>1. /\ closed \in Validations /\ closed.step = counted.step
        /\ Conserved(closed, currentStep, valGot', valStep)
    BY <1>2, <1>5, FinishedVal
  <2>2. /\ \A p \in Policies : Opened(policyCmds[p], closed.step)
        /\ \A s \in Rollouts : Opened(rolloutCmds[s], closed.step)
    BY <1>4, <2>1
  <2>3. TryTrigger(status, rolloutBuffer, remainSamples, policyCmds, closed)
    BY <1>5
  <2>4. /\ policyCmds \in [Policies -> Seq(Commands)]
        /\ rolloutCmds \in [Rollouts -> Seq(Commands)] /\ valStep \in [Rollouts -> Nat]
    BY DEF IInv, TypeOK
  <2>. HIDE DEF closed
  <2>5. /\ Conserved(validation', currentStep', valGot', valStep)
        /\ \A p \in Policies : Opened(policyCmds'[p], validation'.step)
        /\ \A s \in Rollouts : Opened(rolloutCmds[s], validation'.step)
    BY <1>2, <2>1, <2>2, <2>3, <2>4, TriggerVal
  <2>. QED BY <1>1, <1>3, <2>5 DEF ValInv
<1>6. CASE validation' = counted /\ UNCHANGED <<currentStep, policyCmds>>
  BY <1>1, <1>2, <1>3, <1>4, <1>6 DEF ValInv
<1>. QED BY <1>5, <1>6 DEF ReportValidation, trainVars

LEMMA ValStep ==
  ASSUME IInv, OrderInv, ValInv, [Next]_vars
  PROVE  ValInv'
<1>1. ASSUME NEW r \in Rollouts, FetchPrompts(r) \/ GenerateHeld(r) \/ Leave(r) \/ FetchEnd(r)
      PROVE  ValInv'
  <2>1. UNCHANGED <<currentStep, validation, policyCmds, rolloutCmds, weightVersion, valStep, valGot>>
    BY <1>1 DEF FetchPrompts, GenerateHeld, Leave, FetchEnd, trainVars, valVars
  <2>2. /\ stage[r] = "loop"
        /\ NextRound(r) \/ stage' = [stage EXCEPT ![r] = "ending"]
    BY <1>1 DEF FetchPrompts, GenerateHeld, Leave, FetchEnd, FetchGuard, Working
  <2>3. \A s \in Rollouts : stage[s] \in {"val", "valreport"} => stage'[s] = stage[s]
    BY <2>2 DEF NextRound, IInv, TypeOK
  <2>. QED BY <2>1, <2>3, OtherVal
<1>2. ASSUME NEW r \in Rollouts, RolloutStep(r) PROVE ValInv'
  BY <1>1, <1>2, ReportVal, SendEndSignalVal, FetchVal, ReportValidationVal DEF RolloutStep
<1>3. CASE TrainStep
  BY <1>3, OtherVal DEF TrainStep, trainVars, rolloutVars, valVars
<1>4. CASE UNCHANGED vars
  BY <1>4, OtherVal DEF vars, trainVars, rolloutVars, valVars
<1>. QED BY <1>2, <1>3, <1>4, TrainAckVal, UnicastVal, BroadcastVal DEF Next, Terminated

LEMMA ValIsInvariant == Spec => []ValInv
<1>1. IInv /\ OrderInv /\ ValInv /\ [Next]_vars => ValInv'
  BY ValStep
<1>. QED BY <1>1, InitVal, OrderIsInvariant, PTL DEF Spec

\* While a validation is active no step is dispatched after the one it belongs to, and every
\* prompt of the validation set is still to be handed out, at exactly one replica, or
\* reported, however the replicas share the set: nothing is validated twice or lost.
THEOREM ValidationConserves == Spec => []ValidationIsConserved
<1>1. IInv /\ ValInv => ValidationIsConserved
  BY ValImplies
<1>. QED BY <1>1, ValIsInvariant, Invariance, PTL

\* A replica asks for a validation only after the controller has opened it, and has prompts
\* only of the active one and while it holds that step's weights.
THEOREM ValidationIsOpened == Spec => []ValidationIsOpen
<1>1. IInv /\ ValInv => ValidationIsOpen
  BY ValImplies
<1>. QED BY <1>1, ValIsInvariant, Invariance, PTL

-----------------------------------------------------------------------------
(* What the rollout replicas hold, and how the actions move it *)

PromptsOf(queue) == SumFunction([i \in DOMAIN queue |-> queue[i].prompts])

\* Prompts that wait or whose samples are on their way, at each rollout replica.
HeldAt(waiting, queues) == [r \in Rollouts |-> Len(waiting[r]) + PromptsOf(queues[r])]
AtRollouts == SumFunction(HeldAt(promptQueue, rewardQueue))

LEMMA PromptsOfQueue ==
  ASSUME NEW queue \in Seq(Batches)
  PROVE  /\ Len(queue) \in Nat
         /\ [i \in DOMAIN queue |-> queue[i].prompts] \in [1..Len(queue) -> Nat]
         /\ PromptsOf(queue) \in Nat
<1> DEFINE f == [i \in DOMAIN queue |-> queue[i].prompts]
<1>1. Len(queue) \in Nat /\ DOMAIN queue = 1..Len(queue)
  BY LenProperties
<1>2. \A i \in 1..Len(queue) : queue[i] \in Batches
  BY ElementOfSeq
<1>3. f \in [1..Len(queue) -> Nat]
  BY <1>1, <1>2 DEF Batches
<1>4. IsFiniteSet(1..Len(queue))
  BY <1>1, FS_Interval
<1>. HIDE DEF f
<1>5. SumFunction(f) \in Nat
  BY <1>3, <1>4, SumNat
<1>. QED BY <1>1, <1>3, <1>5 DEF f, PromptsOf

LEMMA PromptsOfNone == PromptsOf(<<>>) = 0
<1>1. IsFiniteSet({}) /\ DOMAIN <<>> = {}
  BY FS_EmptySet
<1>2. [i \in DOMAIN <<>> |-> <<>>[i].prompts] \in [{} -> Int]
  BY <1>1
<1>. QED BY <1>1, <1>2, SumZero DEF PromptsOf

LEMMA PromptsOfLonger ==
  ASSUME NEW queue \in Seq(Batches), NEW batch \in Batches
  PROVE  PromptsOf(Append(queue, batch)) = PromptsOf(queue) + batch.prompts
<1> DEFINE longer == Append(queue, batch)
           e == [i \in DOMAIN queue |-> queue[i].prompts]
           f == [i \in DOMAIN longer |-> longer[i].prompts]
<1>1. PICK n \in Nat : n = Len(queue)
  BY LenProperties
<1>2. longer \in Seq(Batches) /\ Len(longer) = n + 1
      /\ longer[n + 1] = batch /\ \A i \in 1..n : longer[i] = queue[i]
  BY <1>1, AppendProperties
<1>3. DOMAIN queue = 1..n /\ DOMAIN longer = 1..(n + 1)
  BY <1>1, <1>2, LenProperties
<1>. HIDE DEF longer
<1>4. e \in [1..n -> Nat] /\ f \in [1..(n + 1) -> Nat]
  BY <1>1, <1>2, PromptsOfQueue
<1>5. f[n + 1] = batch.prompts /\ \A i \in 1..n : e[i] = f[i]
  BY <1>2, <1>3
<1>6. e \in [1..n -> Int] /\ f \in [1..(n + 1) -> Int]
  BY <1>4
<1>. HIDE DEF e, f
<1>7. SumFunction(f) = SumFunction(e) + f[n + 1]
  BY <1>5, <1>6, SumAppend
<1>. QED BY <1>5, <1>7 DEF e, f, longer, PromptsOf

LEMMA PromptsOfTail ==
  ASSUME NEW queue \in Seq(Batches), queue # <<>>
  PROVE  /\ Head(queue) \in Batches /\ Tail(queue) \in Seq(Batches)
         /\ PromptsOf(queue) = Head(queue).prompts + PromptsOf(Tail(queue))
<1> DEFINE rest == Tail(queue)
           e == [i \in DOMAIN rest |-> rest[i].prompts]
           f == [i \in DOMAIN queue |-> queue[i].prompts]
<1>1. PICK n \in Nat : Len(queue) = n + 1
  BY EmptySeq
<1>2. rest \in Seq(Batches) /\ Len(rest) = n /\ \A i \in 1..n : rest[i] = queue[i + 1]
  BY <1>1
<1>3. DOMAIN rest = 1..n /\ DOMAIN queue = 1..(n + 1)
  BY <1>1, <1>2, LenProperties
<1>4. Head(queue) = queue[1] /\ queue[1] \in Batches
  BY <1>1, ElementOfSeq
<1>. HIDE DEF rest
<1>5. e \in [1..n -> Nat] /\ f \in [1..(n + 1) -> Nat]
  BY <1>1, <1>2, PromptsOfQueue
<1>6. f[1] = Head(queue).prompts /\ \A i \in 1..n : e[i] = f[i + 1]
  BY <1>2, <1>3, <1>4
<1>7. e \in [1..n -> Int] /\ f \in [1..(n + 1) -> Int]
  BY <1>5
<1>. HIDE DEF e, f
<1>8. SumFunction(f) = f[1] + SumFunction(e)
  BY <1>6, <1>7, SumTail
<1>. QED BY <1>2, <1>4, <1>6, <1>8 DEF e, f, rest, PromptsOf

LEMMA HeldType ==
  ASSUME NEW waiting \in [Rollouts -> Seq(Versions)], NEW queues \in [Rollouts -> Seq(Batches)]
  PROVE  /\ HeldAt(waiting, queues) \in [Rollouts -> Nat]
         /\ SumFunction(HeldAt(waiting, queues)) \in Nat
         /\ \A r \in Rollouts : HeldAt(waiting, queues)[r] = Len(waiting[r]) + PromptsOf(queues[r])
<1>1. \A r \in Rollouts : Len(waiting[r]) \in Nat /\ PromptsOf(queues[r]) \in Nat
  BY PromptsOfQueue, LenProperties
<1>2. HeldAt(waiting, queues) \in [Rollouts -> Nat]
  BY <1>1 DEF HeldAt
<1>3. IsFiniteSet(Rollouts)
  BY ConstantsAssumption DEF ConstantsOK
<1>4. SumFunction(HeldAt(waiting, queues)) \in Nat
  BY <1>2, <1>3, SumNat
<1>. QED BY <1>2, <1>4 DEF HeldAt

\* One replica's share changes.
LEMMA ShareDiffers ==
  ASSUME NEW f \in [Rollouts -> Int], NEW e \in [Rollouts -> Int], NEW r \in Rollouts,
         \A s \in Rollouts \ {r} : f[s] = e[s]
  PROVE  SumFunction(e) = SumFunction(f) - f[r] + e[r]
<1>1. IsFiniteSet(Rollouts)
  BY ConstantsAssumption DEF ConstantsOK
<1>. QED BY <1>1, SumDiffers

LEMMA HeldDiffers ==
  ASSUME NEW waiting \in [Rollouts -> Seq(Versions)], NEW queues \in [Rollouts -> Seq(Batches)],
         NEW waits \in [Rollouts -> Seq(Versions)], NEW queued \in [Rollouts -> Seq(Batches)],
         NEW r \in Rollouts,
         \A s \in Rollouts \ {r} : waits[s] = waiting[s] /\ queued[s] = queues[s]
  PROVE  SumFunction(HeldAt(waits, queued))
           = SumFunction(HeldAt(waiting, queues)) - (Len(waiting[r]) + PromptsOf(queues[r]))
               + (Len(waits[r]) + PromptsOf(queued[r]))
<1> DEFINE f == HeldAt(waiting, queues)
           e == HeldAt(waits, queued)
<1>1. f \in [Rollouts -> Nat] /\ e \in [Rollouts -> Nat]
  BY HeldType
<1>2. /\ f[r] = Len(waiting[r]) + PromptsOf(queues[r])
      /\ e[r] = Len(waits[r]) + PromptsOf(queued[r])
  BY DEF HeldAt
<1>6. \A s \in Rollouts \ {r} : f[s] = e[s]
  BY DEF HeldAt
<1>. HIDE DEF f, e
<1>4. f \in [Rollouts -> Int] /\ e \in [Rollouts -> Int]
  BY <1>1
<1>5. SumFunction(e) = SumFunction(f) - f[r] + e[r]
  BY <1>4, <1>6, ShareDiffers
<1>. QED BY <1>2, <1>5 DEF f, e

LEMMA CountTypes ==
  ASSUME IInv
  PROVE  /\ AtRollouts \in Nat /\ InFlight = Len(rolloutBuffer) + NGen * AtRollouts
         /\ Len(rolloutBuffer) \in Nat /\ NGen * AtRollouts \in Nat
         /\ promptsLeft \in Nat /\ remainSamples \in Int /\ samplesOnTheFly \in Int
         /\ currentStep \in Nat /\ totalSteps \in Nat /\ rolloutBuffer \in Seq(Nat)
         /\ promptQueue \in [Rollouts -> Seq(Versions)]
         /\ rewardQueue \in [Rollouts -> Seq(Batches)]
<1>1. /\ promptQueue \in [Rollouts -> Seq(Versions)]
      /\ rewardQueue \in [Rollouts -> Seq(Batches)]
      /\ rolloutBuffer \in Seq(Nat)
      /\ promptsLeft \in Nat /\ remainSamples \in Int /\ samplesOnTheFly \in Int
      /\ currentStep \in Nat /\ totalSteps \in Nat
  BY DEF IInv, TypeOK
<1>2. AtRollouts \in Nat
  BY <1>1, HeldType DEF AtRollouts
<1>3. InFlight = Len(rolloutBuffer) + NGen * AtRollouts
  BY DEF InFlight, AtRollouts, HeldAt, Queued, PromptsOf
<1>4. NGen * AtRollouts \in Nat
  BY <1>2, Constants
<1>5. Len(rolloutBuffer) \in Nat
  BY <1>1, LenProperties
<1>. QED BY <1>1, <1>2, <1>3, <1>4, <1>5

LEMMA GenerateCounts ==
  ASSUME IInv, NEW r \in Rollouts, NEW n \in Nat, Generate(r, n)
  PROVE  /\ rewardQueue' \in [Rollouts -> Seq(Batches)]
         /\ PromptsOf(rewardQueue'[r]) = PromptsOf(rewardQueue[r]) + n
         /\ \A s \in Rollouts \ {r} : rewardQueue'[s] = rewardQueue[s]
<1> DEFINE batch == [version |-> weightVersion[r], prompts |-> n]
<1>1. batch \in Batches /\ batch.prompts = n
  BY DEF IInv, TypeOK, Batches
<1>2. rewardQueue \in [Rollouts -> Seq(Batches)] /\ rewardQueue[r] \in Seq(Batches)
  BY DEF IInv, TypeOK
<1>3. rewardQueue' = [rewardQueue EXCEPT ![r] = Append(rewardQueue[r], batch)]
  BY DEF Generate
<1>. HIDE DEF batch
<1>4. Append(rewardQueue[r], batch) \in Seq(Batches)
  BY <1>1, <1>2, AppendProperties
<1>5. PromptsOf(Append(rewardQueue[r], batch)) = PromptsOf(rewardQueue[r]) + n
  BY <1>1, <1>2, PromptsOfLonger
<1>. QED BY <1>2, <1>3, <1>4, <1>5

\* Prompts move from the dataloader to a replica.
LEMMA FetchCounts ==
  ASSUME IInv, NEW r \in Rollouts, FetchPrompts(r)
  PROVE  \E n \in Nat : /\ n <= promptsLeft /\ promptsLeft' = promptsLeft - n
                        /\ AtRollouts' = AtRollouts + n
                        /\ samplesOnTheFly' = samplesOnTheFly + n * NGen
<1> DEFINE n == Smaller(FetchBatch, promptsLeft)
<1>1. n \in Nat /\ n <= promptsLeft
  BY CountTypes, Constants DEF Smaller
<1>2. PICK tags \in TagsFor(n) :
        /\ promptsLeft' = promptsLeft - n
        /\ samplesOnTheFly' = samplesOnTheFly + n * NGen
        /\ \/ Generate(r, n) /\ UNCHANGED promptQueue
           \/ promptQueue' = [promptQueue EXCEPT ![r] = tags] /\ UNCHANGED rewardQueue
  BY DEF FetchPrompts
<1>. HIDE DEF n
<1>3. tags \in Seq(Versions) /\ Len(tags) = n
  <2>1. tags \in [1..n -> Versions]
    BY DEF TagsFor
  <2>. QED BY <1>1, <2>1
<1>4. /\ promptQueue \in [Rollouts -> Seq(Versions)] /\ rewardQueue \in [Rollouts -> Seq(Batches)]
      /\ AtRollouts \in Nat /\ promptQueue[r] = <<>> /\ Len(promptQueue[r]) = 0
      /\ PromptsOf(rewardQueue[r]) \in Nat
  BY CountTypes, PromptsOfQueue DEF FetchPrompts, FetchGuard
<1>5. CASE Generate(r, n) /\ UNCHANGED promptQueue
  <2>1. /\ rewardQueue' \in [Rollouts -> Seq(Batches)]
        /\ PromptsOf(rewardQueue'[r]) = PromptsOf(rewardQueue[r]) + n
        /\ \A s \in Rollouts \ {r} : rewardQueue'[s] = rewardQueue[s]
    BY <1>1, <1>5, GenerateCounts
  <2>2. AtRollouts' = AtRollouts - (Len(promptQueue[r]) + PromptsOf(rewardQueue[r]))
                        + (Len(promptQueue[r]) + PromptsOf(rewardQueue'[r]))
    BY <1>4, <1>5, <2>1, HeldDiffers DEF AtRollouts
  <2>3. AtRollouts' = AtRollouts + n
    BY <1>1, <1>4, <2>1, <2>2
  <2>. QED BY <1>1, <1>2, <2>3
<1>6. CASE promptQueue' = [promptQueue EXCEPT ![r] = tags] /\ UNCHANGED rewardQueue
  <2>1. /\ promptQueue' \in [Rollouts -> Seq(Versions)] /\ Len(promptQueue'[r]) = n
        /\ \A s \in Rollouts \ {r} : promptQueue'[s] = promptQueue[s]
    BY <1>3, <1>4, <1>6
  <2>2. SumFunction(HeldAt(promptQueue', rewardQueue))
          = SumFunction(HeldAt(promptQueue, rewardQueue))
              - (Len(promptQueue[r]) + PromptsOf(rewardQueue[r]))
              + (Len(promptQueue'[r]) + PromptsOf(rewardQueue[r]))
    BY <1>4, <2>1, HeldDiffers
  <2>3. /\ AtRollouts' = SumFunction(HeldAt(promptQueue', rewardQueue))
        /\ AtRollouts = SumFunction(HeldAt(promptQueue, rewardQueue))
    BY <1>6 DEF AtRollouts
  <2>4. AtRollouts' = AtRollouts + n
    BY <1>1, <1>4, <2>1, <2>2, <2>3
  <2>. QED BY <1>1, <1>2, <2>4
<1>. QED BY <1>2, <1>5, <1>6

\* What waited is generated.
LEMMA HeldCounts ==
  ASSUME IInv, NEW r \in Rollouts, GenerateHeld(r)
  PROVE  AtRollouts' = AtRollouts
<1> DEFINE n == Len(promptQueue[r])
<1>1. /\ promptQueue \in [Rollouts -> Seq(Versions)] /\ rewardQueue \in [Rollouts -> Seq(Batches)]
      /\ AtRollouts \in Nat /\ n \in Nat /\ PromptsOf(rewardQueue[r]) \in Nat
  BY CountTypes, PromptsOfQueue, LenProperties
<1>2. /\ Generate(r, n) /\ promptQueue' = [promptQueue EXCEPT ![r] = <<>>]
  BY DEF GenerateHeld
<1>3. /\ promptQueue' \in [Rollouts -> Seq(Versions)] /\ Len(promptQueue'[r]) = 0
      /\ \A s \in Rollouts \ {r} : promptQueue'[s] = promptQueue[s]
  BY <1>1, <1>2
<1>4. /\ rewardQueue' \in [Rollouts -> Seq(Batches)]
      /\ PromptsOf(rewardQueue'[r]) = PromptsOf(rewardQueue[r]) + n
      /\ \A s \in Rollouts \ {r} : rewardQueue'[s] = rewardQueue[s]
  BY <1>1, <1>2, GenerateCounts
<1>5. AtRollouts' = AtRollouts - (n + PromptsOf(rewardQueue[r]))
                      + (Len(promptQueue'[r]) + PromptsOf(rewardQueue'[r]))
  BY <1>1, <1>3, <1>4, HeldDiffers DEF AtRollouts
<1>. HIDE DEF n
<1>. QED BY <1>1, <1>3, <1>4, <1>5

\* A step takes a global batch off the buffer and off the remaining samples.
LEMMA TriggerCounts ==
  ASSUME IInv, NEW st, NEW buffer \in Seq(Nat), NEW remain \in Int,
         NEW cmds \in [Policies -> Seq(Commands)], NEW val,
         TryTrigger(st, buffer, remain, cmds, val)
  PROVE  \/ /\ ~MayStart(st, buffer, val)
            /\ rolloutBuffer' = buffer /\ remainSamples' = remain /\ currentStep' = currentStep
            /\ status' = st /\ policyCmds' = cmds
         \/ /\ MayStart(st, buffer, val)
            /\ StartStep(TrainBatch, buffer, remain, cmds, totalSteps, val)
            /\ Len(buffer) >= GlobalBatch /\ Len(rolloutBuffer') = Len(buffer) - GlobalBatch
            /\ remainSamples' = remain - GlobalBatch /\ currentStep' = currentStep + 1
            /\ \A p \in Policies : status'[p] = "RUNNING"
<1>1. CASE MayStart(st, buffer, val)
  <2>1. StartStep(TrainBatch, buffer, remain, cmds, totalSteps, val) /\ Len(buffer) >= GlobalBatch
    BY <1>1 DEF TryTrigger, MayStart
  <2>2. /\ rolloutBuffer' = DropFirst(buffer, GlobalBatch)
        /\ remainSamples' = remain - GlobalBatch /\ currentStep' = currentStep + 1
        /\ \A p \in Policies : status'[p] = "RUNNING"
    BY <2>1 DEF StartStep, GlobalBatch
  <2>3. GlobalBatch \in Nat
    BY GlobalBatchType
  <2>4. Len(DropFirst(buffer, GlobalBatch)) = Len(buffer) - GlobalBatch
    BY <2>1, <2>3, DropFirstProperties
  <2>. QED BY <1>1, <2>1, <2>2, <2>4
<1>2. CASE ~MayStart(st, buffer, val)
  BY <1>2 DEF TryTrigger
<1>. QED BY <1>1, <1>2

\* put_rollouts: put of the n samples reach the buffer, all but those that an on-policy
\* step cuts off.
PutAndTry(put, buffer, remain) ==
  /\ Len(buffer) = Len(rolloutBuffer) + put
  /\ TryTrigger(status, buffer, remain, policyCmds, validation)

LEMMA PutCounts ==
  ASSUME IInv, NEW version \in Nat, NEW n \in Nat, NEW remain \in Int,
         PutRollouts(version, n, remain)
  PROVE  \/ /\ remainSamples' = remain - n
            /\ UNCHANGED <<currentStep, status, rolloutBuffer, policyCmds, validation>>
         \/ \E put \in 0..n, buffer \in Seq(Nat) :
              PutAndTry(put, buffer, remain) /\ (~OnPolicy => put = n)
<1> DEFINE missing == GlobalBatch - Len(rolloutBuffer)
           breaks  == /\ OnPolicy
                      /\ 0 < missing /\ missing <= n
                      /\ ~validation.active /\ ~TrainingFinished
                      /\ AllAre(status, {"READY", "REDUCED"})
           put     == IF breaks THEN missing ELSE n
           tail    == [i \in 1..put |-> version]
           longer  == rolloutBuffer \o tail
<1>1. rolloutBuffer \in Seq(Nat) /\ Len(rolloutBuffer) \in Nat /\ GlobalBatch \in Nat
  BY CountTypes, GlobalBatchType
<1>2. CASE n = 0 \/ (OnPolicy /\ onPolicyDone)
  BY <1>2 DEF PutRollouts
<1>3. CASE ~(n = 0 \/ (OnPolicy /\ onPolicyDone))
  <2>1. TryTrigger(status, longer, remain, policyCmds, validation)
    BY <1>3 DEF PutRollouts
  <2>2. put \in 0..n /\ (~OnPolicy => put = n)
    BY <1>1
  <2>. HIDE DEF put
  <2>3. tail \in Seq(Nat) /\ Len(tail) = put
    BY <2>2
  <2>. HIDE DEF tail
  <2>4. longer \in Seq(Nat) /\ Len(longer) = Len(rolloutBuffer) + Len(tail)
    BY <1>1, <2>3, ConcatProperties
  <2>. HIDE DEF longer
  <2>5. PutAndTry(put, longer, remain)
    BY <2>1, <2>3, <2>4 DEF PutAndTry
  <2>. QED BY <2>2, <2>4, <2>5
<1>. QED BY <1>2, <1>3

LEMMA QueuesDiffer ==
  ASSUME NEW waiting \in [Rollouts -> Seq(Versions)], NEW queues \in [Rollouts -> Seq(Batches)],
         NEW r \in Rollouts, NEW queue \in Seq(Batches)
  PROVE  SumFunction(HeldAt(waiting, [queues EXCEPT ![r] = queue]))
           = SumFunction(HeldAt(waiting, queues)) - (Len(waiting[r]) + PromptsOf(queues[r]))
               + (Len(waiting[r]) + PromptsOf(queue))
<1> DEFINE queued == [queues EXCEPT ![r] = queue]
<1>1. /\ queued \in [Rollouts -> Seq(Batches)] /\ queued[r] = queue
      /\ \A s \in Rollouts \ {r} : queued[s] = queues[s]
  OBVIOUS
<1>. HIDE DEF queued
<1>2. SumFunction(HeldAt(waiting, queued))
        = SumFunction(HeldAt(waiting, queues)) - (Len(waiting[r]) + PromptsOf(queues[r]))
            + (Len(waiting[r]) + PromptsOf(queued[r]))
  BY <1>1, HeldDiffers
<1>. QED BY <1>1, <1>2 DEF queued

\* report_rollouts: of the samples of a batch, put reach the buffer and are still counted;
\* extra are counted although they were cut off.
Reported(batch, put, extra, buffer, remain) ==
  /\ AtRollouts' = AtRollouts - batch
  /\ put <= NGen * batch
  /\ remain = remainSamples - NGen * batch + put + extra
  /\ ~OnPolicy => extra = 0
  /\ \/ /\ put = 0 /\ remainSamples' = remain
        /\ UNCHANGED <<currentStep, status, rolloutBuffer, policyCmds, validation>>
     \/ PutAndTry(put, buffer, remain)

LEMMA ReportCounts ==
  ASSUME IInv, NEW r \in Rollouts, ReportRollouts(r)
  PROVE  \E batch \in Nat, put \in Nat, extra \in Nat, buffer \in Seq(Nat), remain \in Int :
           Reported(batch, put, extra, buffer, remain)
<1> DEFINE head == Head(rewardQueue[r])
<1>1. /\ rewardQueue \in [Rollouts -> Seq(Batches)] /\ rewardQueue[r] \in Seq(Batches)
      /\ rewardQueue[r] # <<>> /\ rewardQueue' = [rewardQueue EXCEPT ![r] = Tail(rewardQueue[r])]
      /\ promptQueue' = promptQueue /\ promptQueue \in [Rollouts -> Seq(Versions)]
      /\ AtRollouts \in Nat /\ remainSamples \in Int
  BY CountTypes DEF ReportRollouts
<1>2. /\ head \in Batches /\ Tail(rewardQueue[r]) \in Seq(Batches)
      /\ PromptsOf(rewardQueue[r]) = head.prompts + PromptsOf(Tail(rewardQueue[r]))
  BY <1>1, PromptsOfTail
<1>3. head.version \in Nat /\ head.prompts \in Nat
  BY <1>2 DEF Batches
<1>4. PICK valid \in 0..head.prompts :
        PutRollouts(head.version, FreshCount(head.version, valid * NGen),
                    remainSamples - (head.prompts - valid) * NGen
                      - (valid * NGen - FreshCount(head.version, valid * NGen)))
  <2>1. \A valid : valid \in (IF Dapo THEN 0..head.prompts ELSE {head.prompts})
                   => valid \in 0..head.prompts
    BY <1>3
  <2>. QED BY <2>1, Zenon DEF ReportRollouts
<1>. HIDE DEF head
<1>5. PICK batch \in Nat, version \in Nat : batch = head.prompts /\ version = head.version
  BY <1>3
<1>6. AtRollouts' = AtRollouts - batch
  <2>2. SumFunction(HeldAt(promptQueue, [rewardQueue EXCEPT ![r] = Tail(rewardQueue[r])]))
          = SumFunction(HeldAt(promptQueue, rewardQueue))
              - (Len(promptQueue[r]) + PromptsOf(rewardQueue[r]))
              + (Len(promptQueue[r]) + PromptsOf(Tail(rewardQueue[r])))
    BY <1>1, <1>2, QueuesDiffer
  <2>3. /\ AtRollouts' = SumFunction(HeldAt(promptQueue, [rewardQueue EXCEPT ![r] = Tail(rewardQueue[r])]))
        /\ AtRollouts = SumFunction(HeldAt(promptQueue, rewardQueue))
    BY <1>1 DEF AtRollouts
  <2>4. Len(promptQueue[r]) \in Nat /\ PromptsOf(Tail(rewardQueue[r])) \in Nat
    BY <1>1, <1>2, PromptsOfQueue, LenProperties
  <2>. QED BY <1>1, <1>2, <1>5, <2>2, <2>3, <2>4
<1>7. PICK samples \in Nat, filtered \in Nat, all \in Nat :
        /\ samples = valid * NGen /\ filtered = (batch - valid) * NGen
        /\ all = NGen * batch /\ all = samples + filtered
  <2>1. valid \in Nat /\ batch - valid \in Nat /\ NGen \in Nat
    BY <1>4, <1>5, Constants
  <2>2. \A a \in Nat, b \in Nat, c \in Nat :
          a * c \in Nat /\ b * c \in Nat /\ c * (a + b) = a * c + b * c
    OBVIOUS
  <2>3. valid + (batch - valid) = batch
    BY <2>1, <1>5
  <2>. QED BY <2>1, <2>2, <2>3
<1>8. PICK fresh \in Nat : fresh = FreshCount(version, samples) /\ fresh <= samples
  BY FreshPrefix DEF IInv
<1>9. PICK remain \in Int : remain = remainSamples - all + fresh /\ PutRollouts(version, fresh, remain)
  <2>1. PutRollouts(version, fresh, remainSamples - filtered - (samples - fresh))
    BY <1>4, <1>5, <1>7, <1>8, Zenon
  <2>2. PICK remain \in Int : remain = remainSamples - all + fresh
    BY <1>1
  <2>3. remainSamples - filtered - (samples - fresh) = remain
    BY <1>1, <1>7, <2>2
  <2>4. PutRollouts(version, fresh, remain)
    BY <2>1, <2>3, Zenon
  <2>. QED BY <2>2, <2>4
<1>10. CASE /\ remainSamples' = remain - fresh
            /\ UNCHANGED <<currentStep, status, rolloutBuffer, policyCmds, validation>>
  <2>1. remain - fresh \in Int /\ remain - fresh = remainSamples - all + 0 + 0
    BY <1>1, <1>9
  <2>2. Reported(batch, 0, 0, <<>>, remain - fresh)
    BY <1>6, <1>7, <1>10, <2>1 DEF Reported
  <2>3. <<>> \in Seq(Nat) /\ 0 \in Nat
    OBVIOUS
  <2>. QED BY <2>1, <2>2, <2>3
<1>11. ASSUME NEW put \in 0..fresh, NEW buffer \in Seq(Nat),
              PutAndTry(put, buffer, remain), ~OnPolicy => put = fresh
       PROVE  \E extra \in Nat : Reported(batch, put, extra, buffer, remain)
  <2>1. put \in Nat /\ fresh - put \in Nat /\ put <= all
    BY <1>7, <1>8
  <2>2. /\ remain = remainSamples - all + put + (fresh - put)
        /\ ~OnPolicy => fresh - put = 0
    BY <1>1, <1>9, <1>11, <2>1
  <2>3. Reported(batch, put, fresh - put, buffer, remain)
    BY <1>6, <1>7, <1>11, <2>1, <2>2 DEF Reported
  <2>. QED BY <2>1, <2>3
<1>12. \A put \in 0..fresh : put \in Nat
  OBVIOUS
<1>13. \/ /\ remainSamples' = remain - fresh
          /\ UNCHANGED <<currentStep, status, rolloutBuffer, policyCmds, validation>>
       \/ \E put \in 0..fresh, buffer \in Seq(Nat) :
            PutAndTry(put, buffer, remain) /\ (~OnPolicy => put = fresh)
  BY <1>8, <1>9, PutCounts
<1>14. CASE \E put \in 0..fresh, buffer \in Seq(Nat) :
              PutAndTry(put, buffer, remain) /\ (~OnPolicy => put = fresh)
  <2>1. PICK put \in 0..fresh, buffer \in Seq(Nat) :
          PutAndTry(put, buffer, remain) /\ (~OnPolicy => put = fresh)
    BY <1>14
  <2>2. PICK extra \in Nat : Reported(batch, put, extra, buffer, remain)
    BY <1>11, <2>1
  <2>. QED BY <1>12, <2>2
<1>. QED BY <1>10, <1>13, <1>14

-----------------------------------------------------------------------------
(* Samples are dropped, trained on, or still to come *)

\* Samples that may still be trained on.
Left == NGen * promptsLeft + InFlight

LEMMA LeftIs ==
  /\ Left = NGen * promptsLeft + (Len(rolloutBuffer) + NGen * AtRollouts)
  /\ Left' = NGen * promptsLeft' + (Len(rolloutBuffer') + NGen * AtRollouts')
  /\ InFlight = Len(rolloutBuffer) + NGen * AtRollouts
  /\ InFlight' = Len(rolloutBuffer') + NGen * AtRollouts'
<1>1. InFlight = Len(rolloutBuffer) + NGen * AtRollouts
  BY DEF InFlight, AtRollouts, HeldAt, Queued, PromptsOf
<1>2. InFlight' = Len(rolloutBuffer') + NGen * AtRollouts'
  BY DEF InFlight, AtRollouts, HeldAt, Queued, PromptsOf
<1>. QED BY <1>1, <1>2 DEF Left

LEMMA LeftType == IInv => Left \in Int
<1>1. ASSUME IInv PROVE Left \in Int
  <2>1. /\ Len(rolloutBuffer) \in Int /\ NGen * AtRollouts \in Int /\ promptsLeft \in Nat
    BY <1>1, CountTypes
  <2>2. NGen * promptsLeft \in Int
    BY <2>1, Constants
  <2>. QED BY <2>1, <2>2, LeftIs
<1>. QED BY <1>1

LEMMA LeftNat == IInv' => Left' \in Nat
<1>1. ASSUME IInv' PROVE Left' \in Nat
  <2>1. /\ promptQueue' \in [Rollouts -> Seq(Versions)] /\ rewardQueue' \in [Rollouts -> Seq(Batches)]
        /\ rolloutBuffer' \in Seq(Nat) /\ promptsLeft' \in Nat
    BY <1>1 DEF IInv, TypeOK
  <2>2. AtRollouts' \in Nat
    BY <2>1, HeldType DEF AtRollouts
  <2>3. \A a \in Nat, b \in Nat : a * b \in Nat
    OBVIOUS
  <2>4. NGen * promptsLeft' \in Nat /\ NGen * AtRollouts' \in Nat /\ Len(rolloutBuffer') \in Nat
    BY <2>1, <2>2, <2>3, Constants, LenProperties
  <2>. QED BY <2>4, LeftIs
<1>. QED BY <1>1

\* Only try_trigger_data_fetch_and_training starts a step with samples.
MovesOn == currentStep' # currentStep => currentStep' = currentStep + 1 /\ ~TrainingFinished

\* lost samples are dropped or filtered, taken ones go into a step; extra ones are lost but
\* remain counted.
Flow(lost, extra, taken) ==
  /\ MovesOn
  /\ Left' = Left - lost - taken
  /\ remainSamples' = remainSamples - lost + extra - taken
  /\ currentStep' * GlobalBatch = currentStep * GlobalBatch + taken
  /\ ~OnPolicy => extra = 0

LEMMA TriggerFlow ==
  ASSUME IInv, NEW st, NEW buffer \in Seq(Nat), NEW remain \in Int,
         NEW cmds \in [Policies -> Seq(Commands)], NEW val,
         TryTrigger(st, buffer, remain, cmds, val)
  PROVE  \E taken \in Nat : /\ Len(rolloutBuffer') = Len(buffer) - taken
                            /\ remainSamples' = remain - taken
                            /\ currentStep' * GlobalBatch = currentStep * GlobalBatch + taken
                            /\ MovesOn
<1>1. currentStep \in Nat /\ GlobalBatch \in Nat /\ Len(buffer) \in Nat
  BY CountTypes, GlobalBatchType
<1>2. CASE rolloutBuffer' = buffer /\ remainSamples' = remain /\ currentStep' = currentStep
  <2>1. /\ Len(rolloutBuffer') = Len(buffer) - 0 /\ remainSamples' = remain - 0
        /\ currentStep' * GlobalBatch = currentStep * GlobalBatch + 0
    BY <1>1, <1>2
  <2>. QED BY <1>2, <2>1 DEF MovesOn
<1>3. CASE /\ MayStart(st, buffer, val)
           /\ Len(rolloutBuffer') = Len(buffer) - GlobalBatch
           /\ remainSamples' = remain - GlobalBatch /\ currentStep' = currentStep + 1
  <2>1. (currentStep + 1) * GlobalBatch = currentStep * GlobalBatch + GlobalBatch
    BY <1>1
  <2>. QED BY <1>1, <1>3, <2>1 DEF MovesOn, MayStart
<1>. QED BY <1>2, <1>3, TriggerCounts

\* Nothing is reported, and the step that starts, if any, is taken off the buffer.
LEMMA TriggerLeft ==
  ASSUME IInv, NEW st, NEW cmds \in [Policies -> Seq(Commands)], NEW val,
         UNCHANGED <<promptsLeft, promptQueue, rewardQueue>>,
         TryTrigger(st, rolloutBuffer, remainSamples, cmds, val)
  PROVE  \E taken \in Nat : Flow(0, 0, taken)
<1>1. /\ rolloutBuffer \in Seq(Nat) /\ remainSamples \in Int
      /\ Len(rolloutBuffer) \in Nat /\ NGen * AtRollouts \in Nat /\ promptsLeft \in Nat
  BY CountTypes
<1>2. PICK taken \in Nat : /\ Len(rolloutBuffer') = Len(rolloutBuffer) - taken
                           /\ remainSamples' = remainSamples - taken
                           /\ currentStep' * GlobalBatch = currentStep * GlobalBatch + taken
                           /\ MovesOn
  BY <1>1, TriggerFlow
<1>3. AtRollouts' = AtRollouts /\ promptsLeft' = promptsLeft
  BY DEF AtRollouts
<1>4. NGen * promptsLeft \in Int
  BY <1>1, Constants
<1>5. Left' = Left - 0 - taken
  BY <1>1, <1>2, <1>3, <1>4, LeftIs
<1>6. Flow(0, 0, taken)
  BY <1>1, <1>2, <1>5 DEF Flow
<1>. QED BY <1>6

LEMMA OtherLeft ==
  ASSUME IInv, UNCHANGED <<currentStep, remainSamples, Left>>
  PROVE  \E taken \in Nat : Flow(0, 0, taken)
<1>1. currentStep \in Nat /\ remainSamples \in Int /\ GlobalBatch \in Nat /\ Left \in Int
  BY CountTypes, GlobalBatchType, LeftType
<1>2. Left' = Left - 0 - 0 /\ remainSamples' = remainSamples - 0 + 0 - 0
      /\ currentStep' * GlobalBatch = currentStep * GlobalBatch + 0
  BY <1>1
<1>. QED BY <1>2 DEF Flow, MovesOn

LEMMA FetchLeft ==
  ASSUME IInv, NEW r \in Rollouts, FetchPrompts(r)
  PROVE  UNCHANGED <<currentStep, remainSamples, Left>>
<1>1. PICK n \in Nat : promptsLeft' = promptsLeft - n /\ AtRollouts' = AtRollouts + n
  BY FetchCounts
<1>2. UNCHANGED <<currentStep, remainSamples, rolloutBuffer>>
  BY DEF FetchPrompts, trainVars
<1>3. /\ promptsLeft \in Nat /\ AtRollouts \in Nat /\ NGen \in Nat /\ Len(rolloutBuffer) \in Nat
  BY CountTypes, Constants
<1>4. \A a \in Nat, b \in Nat, c \in Nat, d \in Nat :
        d * (a - c) + d * (b + c) = d * a + d * b
        /\ d * a \in Int /\ d * b \in Int /\ d * (a - c) \in Int /\ d * (b + c) \in Int
  OBVIOUS
<1>5. NGen * promptsLeft' + NGen * AtRollouts' = NGen * promptsLeft + NGen * AtRollouts
      /\ NGen * promptsLeft' \in Int /\ NGen * AtRollouts' \in Int
      /\ NGen * promptsLeft \in Int /\ NGen * AtRollouts \in Int
  BY <1>1, <1>3, <1>4
<1>6. Left' = Left
  BY <1>2, <1>3, <1>5, LeftIs
<1>. QED BY <1>2, <1>6

LEMMA ReportLeft ==
  ASSUME IInv, NEW r \in Rollouts, ReportRollouts(r)
  PROVE  \E lost \in Nat, extra \in Nat, taken \in Nat : Flow(lost, extra, taken)
<1>1. PICK batch \in Nat, put \in Nat, extra \in Nat, buffer \in Seq(Nat), remain \in Int :
        Reported(batch, put, extra, buffer, remain)
  BY ReportCounts
<1>2. /\ promptsLeft \in Nat /\ AtRollouts \in Nat /\ NGen \in Nat /\ Len(rolloutBuffer) \in Nat
      /\ remainSamples \in Int /\ policyCmds \in [Policies -> Seq(Commands)]
      /\ currentStep \in Nat /\ GlobalBatch \in Nat
  BY CountTypes, Constants, GlobalBatchType DEF IInv, TypeOK
<1>3. promptsLeft' = promptsLeft
  BY DEF ReportRollouts, dataVars
<1>4. PICK all \in Nat : all = NGen * batch /\ NGen * AtRollouts' = NGen * AtRollouts - all
  <2>1. \A a \in Nat, b \in Nat, c \in Nat : c * (a - b) = c * a - c * b /\ c * b \in Nat
    OBVIOUS
  <2>. QED BY <1>1, <1>2, <2>1 DEF Reported
<1>5. NGen * AtRollouts \in Int /\ NGen * promptsLeft \in Int
  BY <1>2
<1>6. all - put \in Nat /\ remain = remainSamples - (all - put) + extra /\ (~OnPolicy => extra = 0)
  BY <1>1, <1>2, <1>4 DEF Reported
<1>7. CASE /\ put = 0 /\ remainSamples' = remain
           /\ UNCHANGED <<currentStep, status, rolloutBuffer, policyCmds, validation>>
  <2>1. Left' = Left - (all - put) - 0
    BY <1>2, <1>3, <1>4, <1>5, <1>7, LeftIs
  <2>2. /\ remainSamples' = remainSamples - (all - put) + extra - 0
        /\ currentStep' * GlobalBatch = currentStep * GlobalBatch + 0
    BY <1>2, <1>6, <1>7
  <2>3. Flow(all - put, extra, 0)
    BY <1>6, <1>7, <2>1, <2>2 DEF Flow, MovesOn
  <2>. QED BY <1>6, <2>3
<1>8. CASE PutAndTry(put, buffer, remain)
  <2>1. PICK taken \in Nat : /\ Len(rolloutBuffer') = Len(buffer) - taken
                             /\ remainSamples' = remain - taken
                             /\ currentStep' * GlobalBatch = currentStep * GlobalBatch + taken
                           /\ MovesOn
    BY <1>2, <1>8, TriggerFlow DEF PutAndTry
  <2>2. Len(buffer) = Len(rolloutBuffer) + put
    BY <1>8 DEF PutAndTry
  <2>3. Left' = Left - (all - put) - taken
    <3>1. /\ Left = NGen * promptsLeft + (Len(rolloutBuffer) + NGen * AtRollouts)
          /\ Left' = NGen * promptsLeft + (Len(rolloutBuffer') + NGen * AtRollouts')
      BY <1>3, LeftIs
    <3>2. Len(rolloutBuffer') = Len(rolloutBuffer) + put - taken
      BY <1>2, <2>1, <2>2
    <3>3. Left = NGen * promptsLeft + (Len(rolloutBuffer) + NGen * AtRollouts)
          /\ Left' = NGen * promptsLeft
                      + (Len(rolloutBuffer) + put - taken + (NGen * AtRollouts - all))
      BY <1>4, <3>1, <3>2
    <3>4. PICK a \in Int, b \in Int, c \in Int :
            a = NGen * promptsLeft /\ b = Len(rolloutBuffer) /\ c = NGen * AtRollouts
      BY <1>2, <1>5
    <3>5. Left = a + (b + c) /\ Left' = a + (b + put - taken + (c - all))
      BY <3>3, <3>4
    <3>. QED BY <3>5
  <2>4. remainSamples' = remainSamples - (all - put) + extra - taken
    BY <1>2, <1>4, <1>6, <2>1
  <2>5. Flow(all - put, extra, taken)
    BY <1>6, <2>1, <2>3, <2>4 DEF Flow
  <2>. QED BY <1>6, <2>5
<1>. QED BY <1>1, <1>7, <1>8 DEF Reported

\* The extra step takes no samples, and starts on a buffer that has been cleared.
LEMMA EmptiedBuffer ==
  ASSUME IInv, NEW total, StartStep(0, <<>>, remainSamples, policyCmds, total, validation)
  PROVE  Len(rolloutBuffer') = 0 /\ remainSamples' = remainSamples
<1>1. Cardinality(Policies) \in Nat /\ remainSamples \in Int
  BY ConstantsAssumption, FS_CardinalityType DEF ConstantsOK, IInv, TypeOK
<1>2. 0 * Cardinality(Policies) = 0
  BY <1>1
<1>3. rolloutBuffer' = DropFirst(<<>>, 0) /\ remainSamples' = remainSamples - 0
  BY <1>2 DEF StartStep
<1>4. Len(DropFirst(<<>>, 0)) = 0
  <2>1. PICK none \in Seq(Nat) : none = <<>> /\ Len(none) = 0
    <3>1. <<>> \in Seq(Nat) /\ Len(<<>>) = 0
      OBVIOUS
    <3>. QED BY <3>1
  <2>2. 0 \in Nat /\ 0 <= Len(none)
    BY <2>1
  <2>3. Len(DropFirst(none, 0)) = Len(none) - 0
    BY <2>2, DropFirstProperties
  <2>. QED BY <2>1, <2>3
<1>. QED BY <1>1, <1>3, <1>4

\* The end signal changes no count until the last, which may clear the buffer.
LEMMA EndSignalLeft ==
  ASSUME IInv, NEW r \in Rollouts, SendEndSignal(r)
  PROVE  /\ remainSamples' = remainSamples /\ Left' <= Left
         /\ SomeoneGenerates' => UNCHANGED <<currentStep, totalSteps, status, policyCmds, Left>>
<1>1. /\ UNCHANGED <<promptsLeft, promptQueue, rewardQueue>>
      /\ ended' = [ended EXCEPT ![r] = TRUE]
  BY DEF SendEndSignal, dataVars
<1>2. AtRollouts' = AtRollouts /\ promptsLeft' = promptsLeft
  BY <1>1 DEF AtRollouts
<1>3. /\ Len(rolloutBuffer) \in Nat /\ NGen * AtRollouts \in Nat /\ NGen * promptsLeft \in Int
      /\ remainSamples \in Int
  BY CountTypes, Constants
<1>4. CASE ~(\A s \in Rollouts \ {r} : ended[s]) /\ UNCHANGED <<trainVars, totalSteps>>
  BY <1>2, <1>3, <1>4, LeftIs DEF trainVars
<1>5. ASSUME \A s \in Rollouts \ {r} : ended[s] PROVE ~SomeoneGenerates'
  BY <1>1, <1>5 DEF SomeoneGenerates, IInv, TypeOK
<1>6. CASE (\A s \in Rollouts \ {r} : ended[s]) /\ UNCHANGED trainVars
  BY <1>2, <1>3, <1>5, <1>6, LeftIs DEF trainVars
<1>7. CASE (\A s \in Rollouts \ {r} : ended[s]) /\ rolloutBuffer' = <<>> /\ remainSamples' = remainSamples
  <2>1. Len(rolloutBuffer') = 0
    BY <1>7
  <2>. QED BY <1>2, <1>3, <1>5, <1>7, <2>1, LeftIs
<1>8. CASE /\ \A s \in Rollouts \ {r} : ended[s]
           /\ StartStep(0, <<>>, remainSamples, policyCmds, currentStep + 1, validation)
  <2>1. Len(rolloutBuffer') = 0 /\ remainSamples' = remainSamples
    BY <1>8, EmptiedBuffer
  <2>. QED BY <1>2, <1>3, <1>5, <1>8, <2>1, LeftIs
<1>. QED BY <1>4, <1>6, <1>7, <1>8 DEF SendEndSignal

\* Every step is a flow, but for the end signals.
LEMMA StepFlows ==
  ASSUME IInv, [Next]_vars
  PROVE  \/ /\ ended' = ended /\ totalSteps' = totalSteps
            /\ \E lost \in Nat, extra \in Nat, taken \in Nat : Flow(lost, extra, taken)
         \/ \E r \in Rollouts : SendEndSignal(r)
<1>0. policyCmds \in [Policies -> Seq(Commands)]
  BY DEF IInv, TypeOK
<1>1. ASSUME NEW taken \in Nat, Flow(0, 0, taken)
      PROVE  \E lost \in Nat, extra \in Nat, some \in Nat : Flow(lost, extra, some)
  BY <1>1
<1>2. ASSUME UNCHANGED <<promptsLeft, promptQueue, rewardQueue, rolloutBuffer>> PROVE UNCHANGED Left
  BY <1>2, LeftIs DEF AtRollouts
<1>3. ASSUME NEW r \in Rollouts, FetchPrompts(r)
      PROVE  /\ ended' = ended /\ totalSteps' = totalSteps
             /\ \E taken \in Nat : Flow(0, 0, taken)
  <2>1. ended' = ended /\ totalSteps' = totalSteps
    BY <1>3 DEF FetchPrompts
  <2>. QED BY <1>3, <2>1, FetchLeft, OtherLeft
<1>4. ASSUME NEW r \in Rollouts, GenerateHeld(r)
      PROVE  /\ ended' = ended /\ totalSteps' = totalSteps
             /\ \E taken \in Nat : Flow(0, 0, taken)
  <2>1. UNCHANGED <<currentStep, remainSamples, rolloutBuffer, promptsLeft, ended, totalSteps>>
    BY <1>4 DEF GenerateHeld, dataVars, trainVars
  <2>2. UNCHANGED Left
    BY <1>4, <2>1, HeldCounts, LeftIs
  <2>. QED BY <2>1, <2>2, OtherLeft
<1>5. ASSUME NEW r \in Rollouts, Leave(r) \/ FetchEnd(r) \/ FetchValidation(r)
      PROVE  /\ ended' = ended /\ totalSteps' = totalSteps
             /\ \E taken \in Nat : Flow(0, 0, taken)
  <2>1. UNCHANGED <<currentStep, remainSamples, rolloutBuffer, promptsLeft, promptQueue,
                    rewardQueue, ended, totalSteps>>
    BY <1>5 DEF Leave, FetchEnd, FetchValidation, dataVars, trainVars
  <2>. QED BY <1>2, <2>1, OtherLeft
<1>6. ASSUME NEW r \in Rollouts, ReportValidation(r)
      PROVE  /\ ended' = ended /\ totalSteps' = totalSteps
             /\ \E taken \in Nat : Flow(0, 0, taken)
  <2>1. UNCHANGED <<promptsLeft, promptQueue, rewardQueue, ended, totalSteps>>
    BY <1>6 DEF ReportValidation, dataVars
  <2>2. CASE UNCHANGED trainVars
    BY <1>2, <2>1, <2>2, OtherLeft DEF trainVars
  <2>3. ASSUME NEW val, TryTrigger(status, rolloutBuffer, remainSamples, policyCmds, val)
        PROVE  \E taken \in Nat : Flow(0, 0, taken)
    BY <1>0, <2>1, <2>3, TriggerLeft
  <2>. QED BY <1>6, <2>1, <2>2, <2>3 DEF ReportValidation
<1>7. ASSUME NEW p \in Policies, TrainAck(p)
      PROVE  /\ ended' = ended /\ totalSteps' = totalSteps
             /\ \E taken \in Nat : Flow(0, 0, taken)
  <2>1. UNCHANGED <<promptsLeft, promptQueue, rewardQueue, ended, totalSteps>>
    BY <1>7 DEF TrainAck, dataVars, rolloutVars
  <2>2. CASE UNCHANGED <<currentStep, remainSamples, rolloutBuffer>>
    BY <1>2, <2>1, <2>2, OtherLeft
  <2>3. CASE TryTrigger(AllReady, rolloutBuffer, remainSamples, SyncCmds(p), validation)
    <3>1. AckCmds(p) \in [Policies -> Seq(Commands)] /\ AckCmd(p).step \in Nat /\ AckCmd(p).total \in Nat
      BY <1>7, AckFacts
    <3>2. SyncCmds(p) \in [Policies -> Seq(Commands)]
      BY <3>1, PolicySyncFacts DEF SyncCmds
    <3>. QED BY <2>1, <2>3, <3>2, TriggerLeft
  <2>. QED BY <1>7, <2>1, <2>2, <2>3, AckFacts
<1>8. ASSUME TrainStep \/ PolicyToRollout \/ RolloutBroadcast \/ UNCHANGED vars
      PROVE  /\ ended' = ended /\ totalSteps' = totalSteps
             /\ \E taken \in Nat : Flow(0, 0, taken)
  <2>1. UNCHANGED <<currentStep, remainSamples, rolloutBuffer, promptsLeft, promptQueue,
                    rewardQueue, ended, totalSteps>>
    BY <1>8 DEF TrainStep, PolicyToRollout, RolloutBroadcast, vars, dataVars, trainVars, rolloutVars
  <2>. QED BY <1>2, <2>1, OtherLeft
<1>9. ASSUME NEW r \in Rollouts, RolloutStep(r), ~SendEndSignal(r)
      PROVE  /\ ended' = ended /\ totalSteps' = totalSteps
             /\ \E lost \in Nat, extra \in Nat, taken \in Nat : Flow(lost, extra, taken)
  <2>1. CASE ReportRollouts(r)
    BY <2>1, ReportLeft DEF ReportRollouts
  <2>. QED BY <1>1, <1>3, <1>4, <1>5, <1>6, <1>9, <2>1 DEF RolloutStep
<1>. QED BY <1>1, <1>7, <1>8, <1>9 DEF Next, Terminated

LEMMA NoneHeld ==
  ASSUME promptQueue \in [Rollouts -> Seq(Versions)], rewardQueue \in [Rollouts -> Seq(Batches)],
         \A r \in Rollouts : promptQueue[r] = <<>> /\ rewardQueue[r] = <<>>
  PROVE  AtRollouts = 0
<1> DEFINE f == HeldAt(promptQueue, rewardQueue)
<1>1. f \in [Rollouts -> Nat] /\ \A r \in Rollouts : f[r] = Len(promptQueue[r]) + PromptsOf(rewardQueue[r])
  BY HeldType
<1>2. \A r \in Rollouts : f[r] = 0
  <2>1. Len(<<>>) = 0
    OBVIOUS
  <2>. QED BY <1>1, <2>1, PromptsOfNone
<1>. HIDE DEF f
<1>3. f \in [Rollouts -> Int] /\ IsFiniteSet(Rollouts)
  BY <1>1, ConstantsAssumption DEF ConstantsOK
<1>4. SumFunction(f) = 0
  BY <1>2, <1>3, SumZero
<1>. QED BY <1>4 DEF AtRollouts, f

LEMMA InitLeft == Init => Left = NumPrompts * NGen /\ remainSamples = NumPrompts * NGen
<1>1. ASSUME Init PROVE Left = NumPrompts * NGen
  <2>1. /\ promptQueue \in [Rollouts -> Seq(Versions)] /\ rewardQueue \in [Rollouts -> Seq(Batches)]
        /\ \A r \in Rollouts : promptQueue[r] = <<>> /\ rewardQueue[r] = <<>>
        /\ promptsLeft = NumPrompts /\ Len(rolloutBuffer) = 0
    BY <1>1 DEF Init
  <2>2. AtRollouts = 0
    BY <2>1, NoneHeld
  <2>3. NGen * NumPrompts = NumPrompts * NGen /\ NGen * NumPrompts \in Nat /\ NGen * 0 = 0
    BY Constants
  <2>. QED BY <2>1, <2>2, <2>3, LeftIs
<1>. QED BY <1>1 DEF Init

LEMMA RemainStep ==
  ASSUME IInv, RemainIsExact, [Next]_vars
  PROVE  RemainIsExact'
<1>1. Left \in Int /\ remainSamples \in Int
  BY LeftType, CountTypes
<1>2. remainSamples >= Left /\ (SomeoneGenerates /\ ~OnPolicy => remainSamples = Left)
  BY DEF RemainIsExact, Left
<1>3. ASSUME NEW lost \in Nat, NEW extra \in Nat, NEW taken \in Nat, Flow(lost, extra, taken),
             ended' = ended
      PROVE  remainSamples' >= Left' /\ (SomeoneGenerates' /\ ~OnPolicy => remainSamples' = Left')
  <2>1. SomeoneGenerates' => SomeoneGenerates
    BY <1>3 DEF SomeoneGenerates
  <2>. QED BY <1>1, <1>2, <1>3, <2>1 DEF Flow
<1>4. ASSUME NEW r \in Rollouts, SendEndSignal(r)
      PROVE  remainSamples' >= Left' /\ (SomeoneGenerates' /\ ~OnPolicy => remainSamples' = Left')
  <2>1. SomeoneGenerates' => SomeoneGenerates
    BY <1>4 DEF SendEndSignal, SomeoneGenerates, IInv, TypeOK
  <2>2. /\ remainSamples' = remainSamples /\ Left' <= Left
        /\ SomeoneGenerates' => Left' = Left
    BY <1>4, EndSignalLeft
  <2>3. SomeoneGenerates' /\ ~OnPolicy => remainSamples' = Left'
    BY <1>2, <2>1, <2>2
  <2>4. \A a \in Int, b \in Int, c \in Int : c <= b /\ a >= b => a >= c
    OBVIOUS
  <2>5. Left' \in Int
    <3>1. IInv'
      BY NextInv
    <3>. QED BY <3>1, LeftNat
  <2>. QED BY <1>1, <1>2, <2>2, <2>3, <2>4, <2>5
<1>. QED BY <1>3, <1>4, StepFlows DEF RemainIsExact, Left

\* remain_samples_num, from which total_steps and the resume point are computed, is never
\* less than the samples that may still be trained on, and exactly that number until the
\* rollout replicas have ended (on-policy training may count samples it has cut off).
THEOREM RemainCounts == Spec => []RemainIsExact
<1>1. Init => RemainIsExact
  <2>1. NumPrompts * NGen \in Nat
    BY Constants
  <2>. QED BY <2>1, InitLeft DEF RemainIsExact, Left
<1>2. IInv /\ RemainIsExact /\ [Next]_vars => RemainIsExact'
  BY RemainStep
<1>. QED BY <1>1, <1>2, Invariance, PTL DEF Spec

-----------------------------------------------------------------------------
(* The end of training *)

\* While samples are generated the number of steps is that of the whole dataset, and what
\* is left and what has been trained on do not exceed it.
BudgetInv ==
  SomeoneGenerates =>
    /\ totalSteps = StepsFor(0, NumPrompts * NGen)
    /\ Left + currentStep * GlobalBatch <= NumPrompts * NGen
    /\ currentStep <= totalSteps

\* A command of the last step, of which the replicas stop.
Ends(cmd) == cmd.step >= cmd.total
EndsIn(queue) == \E i \in 1..Len(queue) : Ends(queue[i])

\* All steps are made or dispatched: no other can start.
Finished == currentStep = totalSteps /\ totalSteps > 0
OnlyExtra(cmds) == \A p \in Policies : \A d \in Pending(cmds[p], "DataFetch") : d.items = 0

Stops(cmds, rcmds, stops, finished) ==
  /\ \A p \in Policies : EndsIn(cmds[p]) => finished
  /\ \A r \in Rollouts : stops[r] \/ EndsIn(rcmds[r]) => finished /\ OnlyExtra(cmds)
StopInv == Stops(policyCmds, rolloutCmds, stopping, Finished)

LEMMA RestEnds ==
  ASSUME NEW queue, NEW rest, IsRest(rest, queue)
  PROVE  /\ EndsIn(rest) => EndsIn(queue)
         /\ Ends(Head(queue)) => EndsIn(queue)
<1>1. /\ Head(queue) = queue[1] /\ 1 \in 1..Len(queue)
      /\ \A i \in 1..Len(rest) : i + 1 \in 1..Len(queue) /\ rest[i] = queue[i + 1]
  BY DEF IsRest
<1>. QED BY <1>1 DEF EndsIn

LEMMA LongerEnds ==
  ASSUME NEW queue, NEW cmd, NEW longer, IsLonger(longer, queue, cmd), EndsIn(longer)
  PROVE  EndsIn(queue) \/ Ends(cmd)
BY DEF EndsIn, IsLonger

LEMMA FewerOnlyExtra ==
  ASSUME NEW cmds, NEW fewer, OnlyExtra(cmds),
         \A p \in Policies : Pending(fewer[p], "DataFetch") \subseteq Pending(cmds[p], "DataFetch")
  PROVE  OnlyExtra(fewer)
BY DEF OnlyExtra

\* A step that has been made or dispatched counts towards the total.
LEMMA StepsForBudget ==
  ASSUME NEW left \in Nat, NEW step \in Nat \ {0}, NEW budget \in Nat,
         left + step * GlobalBatch <= budget
  PROVE  StepsFor(0, budget) > 0
<1>1. PICK g \in Nat \ {0} : g = GlobalBatch
  BY GlobalBatchType
<1>2. \A a \in Nat \ {0}, b \in Nat : a * b >= b
  OBVIOUS
<1>3. step * g >= g
  BY <1>2
<1>4. step * g \in Nat
  OBVIOUS
<1>5. budget >= g
  BY <1>1, <1>3, <1>4
<1>6. budget \div g >= g \div g /\ g \div g = 1 /\ budget \div g \in Nat
  <2>1. g <= budget
    BY <1>5
  <2>2. g \div g <= budget \div g
    BY <2>1, DivMono
  <2>3. \A a \in Nat \ {0} : a \div a = 1
    OBVIOUS
  <2>4. budget \div g \in Nat
    BY DivMono
  <2>. QED BY <2>2, <2>3, <2>4
<1>. QED BY <1>1, <1>6, Constants DEF StepsFor, Smaller

\* The number of steps that are made of samples does not exceed the samples.
LEMMA StepsForMost ==
  ASSUME NEW budget \in Nat
  PROVE  StepsFor(0, budget) * GlobalBatch <= budget
<1>1. PICK g \in Nat \ {0} : g = GlobalBatch
  BY GlobalBatchType
<1>2. PICK q \in Nat : q = budget \div g
  BY DivMono
<1>3. q * g <= budget /\ q * g \in Nat
  <2>1. \A a \in Nat, b \in Nat \ {0} : (a \div b) * b <= a
    OBVIOUS
  <2>. QED BY <1>2, <2>1
<1>4. StepsFor(0, budget) \in Nat /\ StepsFor(0, budget) <= q
  BY <1>1, <1>2, Constants DEF StepsFor, Smaller
<1>5. \A a \in Nat, b \in Nat, c \in Nat : a <= b => a * c <= b * c /\ a * c \in Nat
  OBVIOUS
<1>6. StepsFor(0, budget) * g <= q * g /\ StepsFor(0, budget) * g \in Nat
  BY <1>4, <1>5
<1>. QED BY <1>1, <1>3, <1>6

LEMMA InitBudget == Init => BudgetInv
<1>1. ASSUME Init PROVE BudgetInv
  <2>1. NumPrompts * NGen \in Nat
    BY Constants
  <2>2. /\ Left = NumPrompts * NGen /\ currentStep = 0
        /\ totalSteps = StepsFor(0, NumPrompts * NGen)
    BY <1>1, InitLeft DEF Init
  <2>3. GlobalBatch \in Nat /\ 0 * GlobalBatch = 0
    BY GlobalBatchType
  <2>4. totalSteps \in Nat
    BY <2>1, <2>2, StepsForType
  <2>. QED BY <2>1, <2>2, <2>3, <2>4 DEF BudgetInv
<1>. QED BY <1>1

LEMMA BudgetStep ==
  ASSUME IInv, BudgetInv, [Next]_vars
  PROVE  BudgetInv'
<1>1. IInv'
  BY NextInv
<1>2. PICK budget \in Nat : budget = NumPrompts * NGen
  BY Constants
<1>3. ASSUME NEW lost \in Nat, NEW extra \in Nat, NEW taken \in Nat, Flow(lost, extra, taken),
             ended' = ended, totalSteps' = totalSteps, SomeoneGenerates'
      PROVE  /\ totalSteps' = StepsFor(0, budget)
             /\ Left' + currentStep' * GlobalBatch <= budget
             /\ currentStep' <= totalSteps'
  <2>1. SomeoneGenerates
    BY <1>3 DEF SomeoneGenerates
  <2>2. PICK now \in Nat, next \in Nat :
          now = currentStep * GlobalBatch /\ next = currentStep' * GlobalBatch
    <3>1. currentStep \in Nat /\ currentStep' \in Nat /\ GlobalBatch \in Nat
      BY <1>1, GlobalBatchType DEF IInv, TypeOK
    <3>2. \A a \in Nat, b \in Nat : a * b \in Nat
      OBVIOUS
    <3>. QED BY <3>1, <3>2
  <2>3. Left \in Int /\ Left' = Left - lost - taken /\ next = now + taken /\ Left + now <= budget
    BY <1>2, <1>3, <2>1, <2>2, LeftType DEF Flow, BudgetInv
  <2>4. Left' + next <= budget
    BY <2>3
  <2>5. totalSteps' = StepsFor(0, budget)
    BY <1>2, <1>3, <2>1 DEF BudgetInv
  <2>6. currentStep' <= totalSteps'
    <3>1. /\ currentStep \in Nat /\ totalSteps \in Nat /\ currentStep <= totalSteps
          /\ currentStep' \in Nat
      BY <1>1, <2>1 DEF IInv, TypeOK, BudgetInv
    <3>2. CASE currentStep' = currentStep
      BY <1>3, <3>1, <3>2
    <3>3. CASE currentStep' # currentStep
      <4>1. currentStep' = currentStep + 1 /\ ~TrainingFinished
        BY <1>3, <3>3 DEF Flow, MovesOn
      <4>2. PICK left \in Nat : left = Left'
        <5>1. Left' \in Nat
          BY <1>1, LeftNat
        <5>. QED BY <5>1
      <4>3. currentStep + 1 \in Nat \ {0} /\ left + (currentStep + 1) * GlobalBatch <= budget
        BY <2>2, <2>4, <3>1, <4>1, <4>2
      <4>4. totalSteps > 0
        BY <1>3, <2>5, <4>3, StepsForBudget
      <4>. QED BY <1>3, <3>1, <4>1, <4>4 DEF TrainingFinished
    <3>. QED BY <3>2, <3>3
  <2>. QED BY <2>2, <2>4, <2>5, <2>6
<1>4. ASSUME NEW r \in Rollouts, SendEndSignal(r), SomeoneGenerates'
      PROVE  /\ totalSteps' = StepsFor(0, budget)
             /\ Left' + currentStep' * GlobalBatch <= budget
             /\ currentStep' <= totalSteps'
  <2>1. SomeoneGenerates
    BY <1>4 DEF SendEndSignal, SomeoneGenerates, IInv, TypeOK
  <2>2. UNCHANGED <<currentStep, totalSteps, Left>>
    BY <1>4, EndSignalLeft
  <2>. QED BY <1>2, <2>1, <2>2 DEF BudgetInv
<1>5. SomeoneGenerates' =>
        /\ totalSteps' = StepsFor(0, budget)
        /\ Left' + currentStep' * GlobalBatch <= budget
        /\ currentStep' <= totalSteps'
  BY <1>3, <1>4, StepFlows
<1>. QED BY <1>2, <1>5 DEF BudgetInv

LEMMA InitStop == Init => StopInv
<1>1. ASSUME Init, NEW queue, queue = <<>> PROVE ~EndsIn(queue)
  <2>1. Len(queue) = 0 /\ 1..Len(queue) = {}
    BY <1>1
  <2>. QED BY <2>1 DEF EndsIn
<1>. QED BY <1>1 DEF Init, StopInv, Stops

\* A step can only start while no command ends a replica, and then it may be the last.
LEMMA StartStop ==
  ASSUME IInv, NEW items \in Nat, NEW buffer, NEW remain, NEW total \in Nat, NEW val,
         NEW cmds \in [Policies -> Seq(Commands)], NEW rcmds, NEW stops,
         StartStep(items, buffer, remain, cmds, total, val),
         Stops(cmds, rcmds, stops, FALSE), NEW finished,
         currentStep + 1 >= total => finished
  PROVE  Stops(policyCmds', rcmds, stops, finished)
<1>1. currentStep \in Nat
  BY DEF IInv, TypeOK
<1>2. PICK cmd \in Commands :
        /\ cmd.step = currentStep + 1 /\ cmd.total = total
        /\ \A p \in Policies : IsLonger(policyCmds'[p], cmds[p], cmd)
  <2>1. \E cmd \in Commands :
            /\ cmd.type = "DataFetch" /\ cmd.step = currentStep + 1 /\ cmd.items = items
            /\ cmd.total = total /\ currentStep' = currentStep + 1
            /\ \A p \in Policies : IsLonger(policyCmds'[p], cmds[p], cmd) /\ status'[p] = "RUNNING"
    BY <1>1, StartedCommand
  <2>. QED BY <2>1
<1>3. \A p \in Policies : EndsIn(policyCmds'[p]) => finished
  <2>1. SUFFICES ASSUME NEW p \in Policies, EndsIn(policyCmds'[p]) PROVE finished
    OBVIOUS
  <2>2. EndsIn(cmds[p]) \/ Ends(cmd)
    BY <1>2, <2>1, LongerEnds
  <2>. QED BY <1>2, <2>2 DEF Stops, Ends
<1>. QED BY <1>3 DEF Stops

\* While the dataset lasts its budget says that there are steps; later FinalInv does.
LEMMA StartTotal ==
  ASSUME IInv, FinalInv, IInv', BudgetInv', ended' = ended, totalSteps' = totalSteps,
         NEW st, NEW buffer, NEW val, NoEmptyStep \/ buffer = rolloutBuffer,
         MayStart(st, buffer, val), currentStep' = currentStep + 1
  PROVE  totalSteps > 0 /\ currentStep < totalSteps
<1>1. currentStep \in Nat /\ totalSteps \in Nat /\ GlobalBatch \in Nat \ {0} /\ Len(rolloutBuffer) \in Nat
  BY GlobalBatchType, LenProperties DEF IInv, TypeOK
<1>2. totalSteps > 0
  <2>1. CASE SomeoneGenerates
    <3>1. SomeoneGenerates'
      BY <2>1 DEF SomeoneGenerates
    <3>2. PICK budget \in Nat : budget = NumPrompts * NGen
      BY Constants
    <3>3. PICK left \in Nat : left = Left'
      <4>1. Left' \in Nat
        BY LeftNat
      <4>. QED BY <4>1
    <3>4. left + (currentStep + 1) * GlobalBatch <= budget /\ totalSteps = StepsFor(0, budget)
      BY <3>1, <3>2, <3>3 DEF BudgetInv
    <3>5. currentStep + 1 \in Nat \ {0}
      BY <1>1
    <3>. QED BY <3>4, <3>5, StepsForBudget
  <2>2. CASE ~SomeoneGenerates /\ NoEmptyStep
    BY <1>1, <2>2 DEF NoEmptyStep
  <2>3. CASE ~NoEmptyStep
    BY <1>1, <2>3 DEF FinalInv, MayStart
  <2>. QED BY <2>1, <2>2, <2>3
<1>. QED BY <1>1, <1>2 DEF MayStart, TrainingFinished

LEMMA TriggerStop ==
  ASSUME IInv, FinalInv, IInv', BudgetInv', ended' = ended, totalSteps' = totalSteps,
         NEW st, NEW buffer \in Seq(Nat), NEW remain \in Int, NEW val,
         NEW cmds \in [Policies -> Seq(Commands)], NEW rcmds, NEW stops,
         NoEmptyStep \/ buffer = rolloutBuffer,
         TryTrigger(st, buffer, remain, cmds, val), Stops(cmds, rcmds, stops, Finished)
  PROVE  Stops(policyCmds', rcmds, stops, Finished')
<1>1. currentStep \in Nat /\ totalSteps \in Nat /\ TrainBatch \in Nat
  BY Constants DEF IInv, TypeOK
<1>2. CASE currentStep' = currentStep /\ policyCmds' = cmds
  <2>1. Finished' <=> Finished
    BY <1>2 DEF Finished
  <2>. QED BY <1>2, <2>1 DEF Stops
<1>3. CASE /\ MayStart(st, buffer, val) /\ currentStep' = currentStep + 1
           /\ StartStep(TrainBatch, buffer, remain, cmds, totalSteps, val)
  <2>1. totalSteps > 0 /\ currentStep < totalSteps
    BY <1>3, StartTotal
  <2>2. Stops(cmds, rcmds, stops, FALSE)
    BY <1>1, <2>1 DEF Stops, Finished
  <2>3. currentStep + 1 >= totalSteps => Finished'
    BY <1>1, <1>3, <2>1 DEF Finished
  <2>. QED BY <1>1, <1>3, <2>2, <2>3, StartStop
<1>. QED BY <1>2, <1>3, TriggerCounts

LEMMA OtherStop ==
  ASSUME StopInv, UNCHANGED <<currentStep, totalSteps, policyCmds, rolloutCmds, stopping>>
  PROVE  StopInv'
BY DEF StopInv, Finished

LEMMA ReportStop ==
  ASSUME IInv, EndInv, FinalInv, IInv', BudgetInv', StopInv, NEW r \in Rollouts, ReportRollouts(r)
  PROVE  StopInv'
<1>1. UNCHANGED <<totalSteps, ended, rolloutCmds, stopping>>
  BY DEF ReportRollouts
<1>2. NoEmptyStep
  BY DEF ReportRollouts, EndInv, EndIsLast, NoEmptyStep, SomeoneGenerates
<1>3. PICK batch \in Nat, put \in Nat, extra \in Nat, buffer \in Seq(Nat), remain \in Int :
        Reported(batch, put, extra, buffer, remain)
  BY ReportCounts
<1>4. CASE UNCHANGED <<currentStep, status, rolloutBuffer, policyCmds, validation>>
  BY <1>1, <1>4, OtherStop
<1>5. CASE PutAndTry(put, buffer, remain)
  <2>1. policyCmds \in [Policies -> Seq(Commands)]
    BY DEF IInv, TypeOK
  <2>2. Stops(policyCmds, rolloutCmds, stopping, Finished)
    BY DEF StopInv
  <2>3. Stops(policyCmds', rolloutCmds, stopping, Finished')
    BY <1>1, <1>2, <1>5, <2>1, <2>2, TriggerStop DEF PutAndTry
  <2>. QED BY <1>1, <2>3 DEF StopInv
<1>. QED BY <1>3, <1>4, <1>5 DEF Reported

LEMMA ValidationStop ==
  ASSUME IInv, FinalInv, IInv', BudgetInv', StopInv, NEW r \in Rollouts, ReportValidation(r)
  PROVE  StopInv'
<1>1. UNCHANGED <<totalSteps, ended, rolloutCmds, stopping>>
  BY DEF ReportValidation
<1>2. CASE UNCHANGED trainVars
  BY <1>1, <1>2, OtherStop DEF trainVars
<1>3. ASSUME NEW val, TryTrigger(status, rolloutBuffer, remainSamples, policyCmds, val)
      PROVE  StopInv'
  <2>1. /\ policyCmds \in [Policies -> Seq(Commands)] /\ rolloutBuffer \in Seq(Nat)
        /\ remainSamples \in Int
    BY DEF IInv, TypeOK
  <2>2. Stops(policyCmds, rolloutCmds, stopping, Finished)
    BY DEF StopInv
  <2>3. Stops(policyCmds', rolloutCmds, stopping, Finished')
    BY <1>1, <1>3, <2>1, <2>2, TriggerStop
  <2>. QED BY <1>1, <2>3 DEF StopInv
<1>. QED BY <1>2, <1>3 DEF ReportValidation

\* The end signal does not change the total of a run that is finished.
LEMMA SendEndSignalStop ==
  ASSUME IInv, StopInv, NEW r \in Rollouts, SendEndSignal(r)
  PROVE  StopInv'
<1>1. UNCHANGED <<rolloutCmds, stopping>>
  BY DEF SendEndSignal
<1>2. /\ currentStep \in Nat /\ totalSteps \in Nat /\ Len(rolloutBuffer) \in Nat
      /\ policyCmds \in [Policies -> Seq(Commands)]
  BY LenProperties DEF IInv, TypeOK
<1>3. CASE UNCHANGED <<trainVars, totalSteps>>
  BY <1>1, <1>3, OtherStop DEF trainVars
<1> DEFINE newTotal == IF TrainingFinished THEN totalSteps ELSE StepsFor(currentStep, Len(rolloutBuffer))
<1>4. CASE ~LastStepIsEmpty(newTotal) /\ totalSteps' = newTotal /\ UNCHANGED trainVars
  <2>1. Finished => Finished'
    BY <1>2, <1>4 DEF Finished, TrainingFinished, trainVars
  <2>. QED BY <1>1, <1>4, <2>1 DEF StopInv, Stops, trainVars
<1>5. ASSUME LastStepIsEmpty(newTotal) PROVE Stops(policyCmds, rolloutCmds, stopping, FALSE)
  BY <1>5 DEF LastStepIsEmpty, StopInv, Stops, Finished
<1>6. CASE /\ LastStepIsEmpty(newTotal) /\ totalSteps' = currentStep + 1
           /\ StartStep(0, <<>>, remainSamples, policyCmds, currentStep + 1, validation)
  <2>1. currentStep' = currentStep + 1 /\ Finished'
    BY <1>2, <1>6 DEF StartStep, Finished
  <2>2. 0 \in Nat /\ currentStep + 1 \in Nat
    BY <1>2
  <2>3. Stops(policyCmds', rolloutCmds, stopping, Finished')
    BY <1>2, <1>5, <1>6, <2>1, <2>2, StartStop
  <2>. QED BY <1>1, <2>3 DEF StopInv
<1>7. CASE LastStepIsEmpty(newTotal) /\ UNCHANGED <<currentStep, policyCmds>>
  BY <1>1, <1>5, <1>7 DEF StopInv, Stops
<1>. QED BY <1>3, <1>4, <1>6, <1>7 DEF SendEndSignal

\* The syncs that follow the last answer of a round end the rollout replicas if the step did.
LEMMA SyncStops ==
  ASSUME IInv, StatusInv, OrderInv, StopInv, NEW p \in Policies, TrainAck(p)
  PROVE  /\ Stops(AckCmds(p), rolloutCmds, stopping, Finished)
         /\ AllAre(Acked(p), {"REDUCED"}) =>
              Stops(SyncCmds(p), SyncRolloutCmds(p), stopping, Finished)
<1>1. /\ AckCmd(p) \in Commands /\ AckCmd(p).step \in Nat /\ AckCmd(p).total \in Nat
      /\ AckCmds(p) \in [Policies -> Seq(Commands)]
      /\ IsRest(AckCmds(p)[p], policyCmds[p])
      /\ \A q \in Policies \ {p} : AckCmds(p)[q] = policyCmds[q]
  BY AckFacts
<1>2. \A q \in Policies : EndsIn(AckCmds(p)[q]) => Finished
  BY <1>1, RestEnds DEF StopInv, Stops
<1>3. Ends(AckCmd(p)) => Finished
  BY <1>1, RestEnds DEF StopInv, Stops, AckCmd
<1>4. OnlyExtra(policyCmds) => OnlyExtra(AckCmds(p))
  BY AckRound, FewerOnlyExtra
<1>5. Stops(AckCmds(p), rolloutCmds, stopping, Finished)
  BY <1>2, <1>4 DEF StopInv, Stops
<1>6. ASSUME AllAre(Acked(p), {"REDUCED"})
      PROVE  Stops(SyncCmds(p), SyncRolloutCmds(p), stopping, Finished)
  <2>1. OnlyExtra(SyncCmds(p))
    BY <1>6, LastAnswer, SyncPolicy DEF OnlyExtra
  <2>2. \A type \in {"P2R", "R2R"} :
          Ends(Sync(type, AckCmd(p).step, AckCmd(p).total)) => Finished
    BY <1>3 DEF Ends, Sync
  <2>3. \A q \in Policies : EndsIn(SyncCmds(p)[q]) => Finished
    <3>1. SUFFICES ASSUME NEW q \in Policies, EndsIn(SyncCmds(p)[q]) PROVE Finished
      OBVIOUS
    <3>2. CASE Synced(p)
      <4>1. SyncCmds(p) = PolicySync(AckCmds(p), AckCmd(p).step, AckCmd(p).total)
        BY <3>2 DEF SyncCmds
      <4>2. /\ IsLonger(SyncCmds(p)[LeadPolicy], AckCmds(p)[LeadPolicy],
                        Sync("P2R", AckCmd(p).step, AckCmd(p).total))
            /\ q # LeadPolicy => SyncCmds(p)[q] = AckCmds(p)[q]
        <5>1. \A cmds \in [Policies -> Seq(Commands)], step \in Nat, total \in Nat :
                /\ IsLonger(PolicySync(cmds, step, total)[LeadPolicy], cmds[LeadPolicy],
                            Sync("P2R", step, total))
                /\ \A s \in Policies \ {LeadPolicy} : PolicySync(cmds, step, total)[s] = cmds[s]
          BY PolicySyncFacts
        <5>. QED BY <1>1, <4>1, <5>1
      <4>3. CASE q = LeadPolicy
        <5>1. EndsIn(AckCmds(p)[q]) \/ Ends(Sync("P2R", AckCmd(p).step, AckCmd(p).total))
          BY <3>1, <4>2, <4>3, LongerEnds
        <5>. QED BY <1>2, <2>2, <5>1
      <4>. QED BY <1>2, <3>1, <4>2, <4>3
    <3>. QED BY <1>2, <3>1, <3>2 DEF SyncCmds
  <2>4. ASSUME NEW r \in Rollouts, EndsIn(SyncRolloutCmds(p)[r]) PROVE Finished
    <3>1. CASE Synced(p)
      <4>1. PICK before \in Seq(Commands) :
              /\ IF r = LeadRollout
                   THEN IsLonger(before, rolloutCmds[r], Sync("P2R", AckCmd(p).step, AckCmd(p).total))
                   ELSE before = rolloutCmds[r]
              /\ IsLonger(RolloutSync(AckCmd(p).step, AckCmd(p).total)[r], before,
                          Sync("R2R", AckCmd(p).step, AckCmd(p).total))
        BY <1>1, RolloutSyncFacts
      <4>2. EndsIn(before) => Finished
        BY <2>2, <4>1, LongerEnds DEF StopInv, Stops
      <4>. QED BY <2>2, <2>4, <3>1, <4>1, <4>2, LongerEnds DEF SyncRolloutCmds
    <3>. QED BY <2>4, <3>1 DEF SyncRolloutCmds, StopInv, Stops
  <2>. QED BY <2>1, <2>3, <2>4 DEF StopInv, Stops
<1>. QED BY <1>5, <1>6

LEMMA TrainAckStop ==
  ASSUME IInv, StatusInv, OrderInv, IInv', BudgetInv', StopInv, NEW p \in Policies, TrainAck(p)
  PROVE  StopInv'
<1>1. /\ UNCHANGED <<totalSteps, ended>> /\ stopping' = stopping
      /\ AckCmds(p) \in [Policies -> Seq(Commands)]
      /\ AckCmd(p).step \in Nat /\ AckCmd(p).total \in Nat
  BY AckFacts DEF rolloutVars
<1>2. CASE policyCmds' = AckCmds(p) /\ UNCHANGED <<currentStep, rolloutCmds>>
  <2>1. Stops(AckCmds(p), rolloutCmds, stopping, Finished)
    BY SyncStops
  <2>. QED BY <1>1, <1>2, <2>1 DEF StopInv, Stops, Finished
<1>3. CASE /\ AllAre(Acked(p), {"REDUCED"}) /\ rolloutCmds' = SyncRolloutCmds(p)
           /\ TryTrigger(AllReady, rolloutBuffer, remainSamples, SyncCmds(p), validation)
  <2>1. /\ SyncCmds(p) \in [Policies -> Seq(Commands)]
        /\ rolloutBuffer \in Seq(Nat) /\ remainSamples \in Int
    BY <1>1, SyncPolicy DEF IInv, TypeOK
  <2>2. Stops(SyncCmds(p), SyncRolloutCmds(p), stopping, Finished)
    BY <1>3, SyncStops
  <2>3. FinalInv
    BY DEF OrderInv
  <2>4. Stops(policyCmds', SyncRolloutCmds(p), stopping, Finished')
    BY <1>1, <1>3, <2>1, <2>2, <2>3, TriggerStop
  <2>. QED BY <1>1, <1>3, <2>4 DEF StopInv
<1>. QED BY <1>2, <1>3, AckFacts

LEMMA UnicastStop ==
  ASSUME IInv, StopInv, PolicyToRollout
  PROVE  StopInv'
<1>1. /\ UNCHANGED <<currentStep, totalSteps, stopping>>
      /\ policyCmds' = [policyCmds EXCEPT ![LeadPolicy] = Tail(@)]
      /\ rolloutCmds' = [rolloutCmds EXCEPT ![LeadRollout] = Tail(@)]
      /\ HeadIs(policyCmds[LeadPolicy], "P2R") /\ HeadIs(rolloutCmds[LeadRollout], "P2R")
  BY DEF PolicyToRollout
<1>2. /\ policyCmds \in [Policies -> Seq(Commands)] /\ rolloutCmds \in [Rollouts -> Seq(Commands)]
      /\ LeadPolicy \in Policies /\ LeadRollout \in Rollouts
  BY Constants DEF IInv, TypeOK
<1>3. /\ policyCmds[LeadPolicy] # <<>> /\ rolloutCmds[LeadRollout] # <<>>
      /\ Head(policyCmds[LeadPolicy]).type = "P2R"
  BY <1>1 DEF HeadIs
<1>4. /\ IsRest(Tail(policyCmds[LeadPolicy]), policyCmds[LeadPolicy])
      /\ IsRest(Tail(rolloutCmds[LeadRollout]), rolloutCmds[LeadRollout])
  BY <1>2, <1>3, TailIsRest
<1>5. \A p \in Policies : IsRest(policyCmds'[p], policyCmds[p]) \/ policyCmds'[p] = policyCmds[p]
  BY <1>1, <1>2, <1>4
<1>6. \A r \in Rollouts : IsRest(rolloutCmds'[r], rolloutCmds[r]) \/ rolloutCmds'[r] = rolloutCmds[r]
  BY <1>1, <1>2, <1>4
<1>7. \A p \in Policies :
        Pending(policyCmds'[p], "DataFetch") \subseteq Pending(policyCmds[p], "DataFetch")
  BY <1>5, RestPending
<1>8. \A p \in Policies : EndsIn(policyCmds'[p]) => EndsIn(policyCmds[p])
  BY <1>5, RestEnds
<1>9. \A r \in Rollouts : EndsIn(rolloutCmds'[r]) => EndsIn(rolloutCmds[r])
  BY <1>6, RestEnds
<1>10. OnlyExtra(policyCmds) => OnlyExtra(policyCmds')
  BY <1>7, FewerOnlyExtra
<1>11. Finished' <=> Finished
  BY <1>1 DEF Finished
<1>. QED BY <1>1, <1>8, <1>9, <1>10, <1>11 DEF StopInv, Stops

\* Replicas stop on a broadcast of the last step.
LEMMA BroadcastStop ==
  ASSUME IInv, OrderInv, StopInv, RolloutBroadcast
  PROVE  StopInv'
<1>1. UNCHANGED <<currentStep, totalSteps, policyCmds>>
  BY DEF RolloutBroadcast, trainVars
<1>2. \A r \in Rollouts : IsRest(rolloutCmds'[r], rolloutCmds[r])
  BY BroadcastSteps
<1>3. \A r \in Rollouts : EndsIn(rolloutCmds'[r]) => EndsIn(rolloutCmds[r])
  BY <1>2, RestEnds
<1>4. \A r \in Rollouts : stopping'[r] => Ends(Head(rolloutCmds[LeadRollout]))
  BY DEF RolloutBroadcast, Ends
<1>5. LeadRollout \in Rollouts
  BY Constants
<1>6. \A r \in Rollouts : stopping'[r] => EndsIn(rolloutCmds[LeadRollout])
  BY <1>2, <1>4, <1>5, RestEnds
<1>7. Finished' <=> Finished
  BY <1>1 DEF Finished
<1>. QED BY <1>1, <1>3, <1>5, <1>6, <1>7 DEF StopInv, Stops

LEMMA StopStep ==
  ASSUME IInv, EndInv, StatusInv, OrderInv, BudgetInv, StopInv, [Next]_vars
  PROVE  StopInv'
<1>1. IInv' /\ BudgetInv' /\ FinalInv
  BY NextInv, BudgetStep DEF OrderInv
<1>2. ASSUME NEW r \in Rollouts,
             FetchPrompts(r) \/ GenerateHeld(r) \/ Leave(r) \/ FetchEnd(r) \/ FetchValidation(r)
      PROVE  StopInv'
  <2>1. UNCHANGED <<currentStep, totalSteps, policyCmds, rolloutCmds, stopping>>
    BY <1>2 DEF FetchPrompts, GenerateHeld, Leave, FetchEnd, FetchValidation, trainVars
  <2>. QED BY <2>1, OtherStop
<1>3. ASSUME TrainStep \/ UNCHANGED vars PROVE StopInv'
  <2>1. UNCHANGED <<currentStep, totalSteps, policyCmds, rolloutCmds, stopping>>
    BY <1>3 DEF TrainStep, trainVars, rolloutVars, vars
  <2>. QED BY <2>1, OtherStop
<1>. QED BY <1>1, <1>2, <1>3, ReportStop, ValidationStop, SendEndSignalStop, TrainAckStop,
            UnicastStop, BroadcastStop DEF Next, RolloutStep, Terminated

LEMMA StopIsInvariant == Spec => [](BudgetInv /\ StopInv)
<1>1. Init => BudgetInv /\ StopInv
  BY InitBudget, InitStop
<1>2. IInv /\ EndInv /\ StatusInv /\ OrderInv /\ BudgetInv /\ StopInv /\ [Next]_vars
        => BudgetInv' /\ StopInv'
  BY BudgetStep, StopStep
<1>. QED BY <1>1, <1>2, OrderIsInvariant, PTL DEF Spec

\* A rollout replica leaves its main loop (shutdown_signal) only when every step that will
\* ever be made has been made or dispatched: total_steps, which recompute_total_steps may
\* have lowered since the command that stops the replica was sent, is the current step, and
\* what is still to be answered is the extra step without samples.
THEOREM StoppingIsFinal == Spec => []StopMeansFinished
<1>1. StopInv => StopMeansFinished
  BY NonePending DEF StopInv, Stops, StopMeansFinished, Finished, OnlyExtra, Pending, Places,
                     DataFetches
<1>. QED BY <1>1, StopIsInvariant, PTL

-----------------------------------------------------------------------------
(* samples_on_the_fly *)

\* The answers that a policy replica can still give to the barrier: its steps, and that to
\* the present round if it has given it.
NumFetches(queue) == Cardinality(Places(queue, "DataFetch"))
Answers(st, cmds, p) == NumFetches(cmds[p]) + (IF st[p] = "REDUCED" THEN 1 ELSE 0)

\* A round ends, and takes a global batch off samples_on_the_fly, with an answer of every
\* replica: there are k of them to come only if everyone can still give k answers.
Covers(st, cmds, fly, flight) ==
  \A k \in Nat : (\A p \in Policies : k <= Answers(st, cmds, p)) => fly >= flight + GlobalBatch * k

\* While samples are generated the number is exact.
FlyInv ==
  /\ Covers(status, policyCmds, samplesOnTheFly, InFlight)
  /\ SomeoneGenerates =>
       samplesOnTheFly
         = NGen * (NumPrompts - promptsLeft) - currentStep * GlobalBatch + InTraining

LEMMA NumFetchesType ==
  ASSUME NEW queue, Len(queue) \in Nat
  PROVE  IsFiniteSet(Places(queue, "DataFetch")) /\ NumFetches(queue) \in Nat
<1>1. IsFiniteSet(1..Len(queue))
  BY FS_Interval
<1>2. Places(queue, "DataFetch") \in SUBSET (1..Len(queue))
  BY DEF Places
<1>3. IsFiniteSet(Places(queue, "DataFetch"))
  BY <1>1, <1>2, FS_Subset
<1>. QED BY <1>3, FS_CardinalityType DEF NumFetches

LEMMA RestFetches ==
  ASSUME NEW queue, NEW rest, IsRest(rest, queue)
  PROVE  /\ NumFetches(rest) \in Nat /\ NumFetches(queue) \in Nat
         /\ NumFetches(queue) = NumFetches(rest) + (IF Head(queue).type = "DataFetch" THEN 1 ELSE 0)
<1>1. Len(queue) \in Nat /\ Len(rest) \in Nat
  BY DEF IsRest
<1>2. /\ IsFiniteSet(Places(queue, "DataFetch")) /\ IsFiniteSet(Places(rest, "DataFetch"))
      /\ NumFetches(queue) \in Nat /\ NumFetches(rest) \in Nat
  BY <1>1, NumFetchesType
<1> DEFINE S == Places(rest, "DataFetch")
           T == Places(queue, "DataFetch") \ {1}
           f == [i \in S |-> i + 1]
<1>3. /\ \A i \in S : i \in Nat \ {0} /\ i + 1 \in Places(queue, "DataFetch")
      /\ \A i \in Places(queue, "DataFetch") : i # 1 => i \in Nat /\ i - 1 \in S
      /\ 1 \in Places(queue, "DataFetch") <=> Head(queue).type = "DataFetch"
  BY RestPlaces
<1>4. f \in [S -> T]
  BY <1>3
<1>5. \A i, j \in S : f[i] = f[j] => i = j
  BY <1>3
<1>6. \A j \in T : \E i \in S : f[i] = j
  <2>1. SUFFICES ASSUME NEW j \in T PROVE \E i \in S : f[i] = j
    OBVIOUS
  <2>2. j \in Nat /\ j - 1 \in S
    BY <1>3
  <2>3. f[j - 1] = j
    BY <2>2
  <2>. QED BY <2>2, <2>3
<1>7. ExistsBijection(S, T)
  <2> HIDE DEF f, S, T
  <2>1. f \in Injection(S, T) /\ f \in Surjection(S, T)
    BY <1>4, <1>5, <1>6 DEF Injection, Surjection, IsInjective
  <2>2. f \in Bijection(S, T)
    BY <2>1 DEF Bijection
  <2>. QED BY <2>2 DEF ExistsBijection
<1>8. Cardinality(T) = Cardinality(S)
  BY <1>2, <1>7, FS_Bijection
<1>9. Cardinality(T) = IF 1 \in Places(queue, "DataFetch") THEN NumFetches(queue) - 1
                                                           ELSE NumFetches(queue)
  BY <1>2, FS_RemoveElement DEF NumFetches
<1>10. NumFetches(rest) = Cardinality(S)
  BY DEF NumFetches
<1>. QED BY <1>2, <1>3, <1>8, <1>9, <1>10

LEMMA LongerFetches ==
  ASSUME NEW queue, NEW cmd, NEW longer, IsLonger(longer, queue, cmd)
  PROVE  /\ NumFetches(longer) \in Nat /\ NumFetches(queue) \in Nat
         /\ NumFetches(longer) = NumFetches(queue) + (IF cmd.type = "DataFetch" THEN 1 ELSE 0)
<1>1. Len(queue) \in Nat /\ Len(longer) \in Nat
  BY DEF IsLonger
<1>2. /\ IsFiniteSet(Places(queue, "DataFetch"))
      /\ NumFetches(queue) \in Nat /\ NumFetches(longer) \in Nat
  BY <1>1, NumFetchesType
<1> DEFINE more == Places(queue, "DataFetch") \cup {Len(queue) + 1}
<1>3. Places(longer, "DataFetch") = IF cmd.type = "DataFetch" THEN more ELSE Places(queue, "DataFetch")
  BY DEF IsLonger, Places
<1>4. Len(queue) + 1 \notin Places(queue, "DataFetch")
  BY <1>1 DEF Places
<1>5. Cardinality(more) = NumFetches(queue) + 1
  BY <1>2, <1>4, FS_AddElement DEF NumFetches
<1>6. CASE cmd.type = "DataFetch"
  <2>1. NumFetches(longer) = Cardinality(more)
    BY <1>3, <1>6 DEF NumFetches
  <2>. QED BY <1>2, <1>5, <1>6, <2>1
<1>7. CASE cmd.type # "DataFetch"
  <2>1. NumFetches(longer) = NumFetches(queue)
    BY <1>3, <1>7 DEF NumFetches
  <2>. QED BY <1>2, <1>7, <2>1
<1>. QED BY <1>6, <1>7

LEMMA AnswersType ==
  ASSUME NEW st, NEW cmds \in [Policies -> Seq(Commands)], NEW p \in Policies
  PROVE  Answers(st, cmds, p) \in Nat /\ NumFetches(cmds[p]) \in Nat
<1>1. Len(cmds[p]) \in Nat
  BY LenProperties
<1>. QED BY <1>1, NumFetchesType DEF Answers

\* Fewer answers to come, or fewer samples, need no more to be covered.
LEMMA CoversFewer ==
  ASSUME NEW st, NEW cmds, NEW later, NEW fewer, NEW fly \in Int, NEW flight \in Int,
         NEW less \in Int, less <= flight, Covers(st, cmds, fly, flight),
         \A p \in Policies : Answers(later, fewer, p) \in Nat /\ Answers(st, cmds, p) \in Nat
                             /\ Answers(later, fewer, p) <= Answers(st, cmds, p)
  PROVE  Covers(later, fewer, fly, less)
<1>1. SUFFICES ASSUME NEW k \in Nat, \A p \in Policies : k <= Answers(later, fewer, p)
               PROVE  fly >= less + GlobalBatch * k
  BY DEF Covers
<1>2. \A p \in Policies : k <= Answers(st, cmds, p)
  BY <1>1
<1>3. fly >= flight + GlobalBatch * k
  BY <1>2 DEF Covers
<1>4. PICK all \in Nat : all = GlobalBatch * k
  <2>1. \A a \in Nat, b \in Nat : a * b \in Nat
    OBVIOUS
  <2>. QED BY <2>1, GlobalBatchType
<1>. QED BY <1>3, <1>4

\* A started step: one more answer to come, and a global batch that counts already.
LEMMA StartCovers ==
  ASSUME IInv, NEW items \in Nat, NEW buffer, NEW remain, NEW total \in Nat, NEW val,
         NEW st, NEW cmds \in [Policies -> Seq(Commands)], NEW fly \in Int, NEW flight \in Int,
         Covers(st, cmds, fly, flight + GlobalBatch),
         StartStep(items, buffer, remain, cmds, total, val)
  PROVE  Covers(status', policyCmds', fly, flight)
<1>1. PICK cmd \in Commands :
        /\ cmd.type = "DataFetch"
        /\ \A p \in Policies : IsLonger(policyCmds'[p], cmds[p], cmd) /\ status'[p] = "RUNNING"
  <2>1. currentStep \in Nat
    BY DEF IInv, TypeOK
  <2>2. \E cmd \in Commands :
            /\ cmd.type = "DataFetch" /\ cmd.step = currentStep + 1 /\ cmd.items = items
            /\ cmd.total = total /\ currentStep' = currentStep + 1
            /\ \A p \in Policies : IsLonger(policyCmds'[p], cmds[p], cmd) /\ status'[p] = "RUNNING"
    BY <2>1, StartedCommand
  <2>. QED BY <2>2
<1>2. \A p \in Policies : NumFetches(policyCmds'[p]) = NumFetches(cmds[p]) + 1
  BY <1>1, LongerFetches
<1>3. \A p \in Policies : /\ Answers(st, cmds, p) \in Nat
                          /\ Answers(status', policyCmds', p) <= Answers(st, cmds, p) + 1
  <2>1. SUFFICES ASSUME NEW p \in Policies
                 PROVE  /\ Answers(st, cmds, p) \in Nat
                        /\ Answers(status', policyCmds', p) <= Answers(st, cmds, p) + 1
    OBVIOUS
  <2>2. Answers(st, cmds, p) \in Nat /\ NumFetches(cmds[p]) \in Nat
    BY AnswersType
  <2>3. Answers(status', policyCmds', p) = NumFetches(cmds[p]) + 1 + 0
    BY <1>1, <1>2 DEF Answers
  <2>4. Answers(st, cmds, p) >= NumFetches(cmds[p])
    BY <2>2 DEF Answers
  <2>. QED BY <2>2, <2>3, <2>4
<1>4. \A p \in Policies : Answers(status', policyCmds', p) \in Nat
  <2>1. SUFFICES ASSUME NEW p \in Policies PROVE Answers(status', policyCmds', p) \in Nat
    OBVIOUS
  <2>2. NumFetches(cmds[p]) \in Nat
    BY AnswersType
  <2>. QED BY <1>1, <1>2, <2>2 DEF Answers
<1>5. GlobalBatch \in Nat
  BY GlobalBatchType
<1>6. SUFFICES ASSUME NEW k \in Nat, \A p \in Policies : k <= Answers(status', policyCmds', p)
               PROVE  fly >= flight + GlobalBatch * k
  BY DEF Covers
<1>7. CASE k = 0
  <2>1. \A p \in Policies : 0 <= Answers(st, cmds, p)
    BY <1>3
  <2>2. fly >= flight + GlobalBatch + GlobalBatch * 0
    BY <2>1 DEF Covers
  <2>. QED BY <1>5, <1>7, <2>2
<1>8. CASE k # 0
  <2>1. PICK j \in Nat : k = j + 1
    BY <1>8
  <2>2. \A p \in Policies : j <= Answers(st, cmds, p)
    BY <1>3, <1>4, <1>6, <2>1
  <2>3. fly >= flight + GlobalBatch + GlobalBatch * j
    BY <2>2 DEF Covers
  <2>4. \A a \in Nat, b \in Nat : a * (b + 1) = a + a * b /\ a * b \in Nat
    OBVIOUS
  <2>5. PICK all \in Nat : all = GlobalBatch * j /\ GlobalBatch * k = GlobalBatch + all
    BY <1>5, <2>1, <2>4
  <2>. QED BY <1>5, <2>3, <2>5
<1>. QED BY <1>7, <1>8

LEMMA TriggerCovers ==
  ASSUME IInv, NEW st, NEW buffer \in Seq(Nat), NEW remain \in Int,
         NEW cmds \in [Policies -> Seq(Commands)], NEW val, NEW fly \in Int, NEW held \in Int,
         Covers(st, cmds, fly, Len(buffer) + held), TryTrigger(st, buffer, remain, cmds, val)
  PROVE  Covers(status', policyCmds', fly, Len(rolloutBuffer') + held)
<1>1. CASE rolloutBuffer' = buffer /\ status' = st /\ policyCmds' = cmds
  BY <1>1
<1>2. CASE /\ StartStep(TrainBatch, buffer, remain, cmds, totalSteps, val)
           /\ Len(buffer) >= GlobalBatch /\ Len(rolloutBuffer') = Len(buffer) - GlobalBatch
  <2>1. /\ TrainBatch \in Nat /\ totalSteps \in Nat /\ Len(buffer) \in Nat /\ GlobalBatch \in Nat
    BY Constants, LenProperties, GlobalBatchType DEF IInv, TypeOK
  <2>2. PICK flight \in Int : flight = Len(buffer) - GlobalBatch + held
    BY <2>1
  <2>3. Len(buffer) + held = flight + GlobalBatch /\ Len(rolloutBuffer') + held = flight
    BY <1>2, <2>1, <2>2
  <2>4. Covers(st, cmds, fly, flight + GlobalBatch)
    BY <2>3
  <2>5. Covers(status', policyCmds', fly, flight)
    BY <1>2, <2>1, <2>4, StartCovers
  <2>. QED BY <2>3, <2>5
<1>. QED BY <1>1, <1>2, TriggerCounts

\* The last answer: the round is over for every replica.
LEMMA RoundCovers ==
  ASSUME NEW st, NEW cmds \in [Policies -> Seq(Commands)], NEW fly \in Int, NEW flight \in Int,
         AllAre(st, {"REDUCED"}), Covers(st, cmds, fly, flight)
  PROVE  Covers(AllReady, cmds, fly - GlobalBatch, flight)
<1>1. \A p \in Policies : /\ Answers(AllReady, cmds, p) \in Nat
                          /\ Answers(st, cmds, p) = Answers(AllReady, cmds, p) + 1
  <2>1. SUFFICES ASSUME NEW p \in Policies
                 PROVE  /\ Answers(AllReady, cmds, p) \in Nat
                        /\ Answers(st, cmds, p) = Answers(AllReady, cmds, p) + 1
    OBVIOUS
  <2>2. st[p] = "REDUCED" /\ AllReady[p] = "READY"
    BY DEF AllAre, AllReady
  <2>3. NumFetches(cmds[p]) \in Nat
    BY AnswersType
  <2>. QED BY <2>2, <2>3 DEF Answers
<1>2. SUFFICES ASSUME NEW k \in Nat, \A p \in Policies : k <= Answers(AllReady, cmds, p)
               PROVE  fly - GlobalBatch >= flight + GlobalBatch * k
  BY DEF Covers
<1>3. \A p \in Policies : k + 1 <= Answers(st, cmds, p)
  BY <1>1, <1>2
<1>4. fly >= flight + GlobalBatch * (k + 1)
  BY <1>3 DEF Covers
<1>5. \A a \in Nat, b \in Nat : a * (b + 1) = a + a * b /\ a * b \in Nat
  OBVIOUS
<1>6. PICK all \in Nat : all = GlobalBatch * k /\ GlobalBatch * (k + 1) = GlobalBatch + all
  BY <1>5, GlobalBatchType
<1>. QED BY <1>4, <1>6, GlobalBatchType

\* What samples_on_the_fly is while samples are generated, and a round of st is open or not.
Training(st) == IF \E p \in Policies : st[p] = "RUNNING" THEN GlobalBatch ELSE 0
Exact(fly, left, step, st) ==
  fly = NGen * (NumPrompts - left) - step * GlobalBatch + Training(st)

LEMMA FlyParts ==
  /\ FlyInv <=> /\ Covers(status, policyCmds, samplesOnTheFly, InFlight)
                /\ SomeoneGenerates => Exact(samplesOnTheFly, promptsLeft, currentStep, status)
  /\ FlyInv' <=> /\ Covers(status', policyCmds', samplesOnTheFly', InFlight')
                 /\ SomeoneGenerates' => Exact(samplesOnTheFly', promptsLeft', currentStep', status')
<1>1. FlyInv <=> /\ Covers(status, policyCmds, samplesOnTheFly, InFlight)
                 /\ SomeoneGenerates => Exact(samplesOnTheFly, promptsLeft, currentStep, status)
  BY DEF FlyInv, Exact, InTraining, Training
<1>2. FlyInv' <=> /\ Covers(status', policyCmds', samplesOnTheFly', InFlight')
                  /\ SomeoneGenerates' => Exact(samplesOnTheFly', promptsLeft', currentStep', status')
  BY DEF FlyInv, Covers, Answers, Exact, InTraining, Training
<1>. QED BY <1>1, <1>2

LEMMA FlyTypes ==
  ASSUME IInv
  PROVE  /\ samplesOnTheFly \in Int /\ InFlight \in Int /\ promptsLeft \in Nat
         /\ currentStep \in Nat /\ GlobalBatch \in Nat \ {0} /\ NGen \in Nat /\ NumPrompts \in Nat
         /\ policyCmds \in [Policies -> Seq(Commands)] /\ status \in [Policies -> Statuses]
         /\ rolloutBuffer \in Seq(Nat) /\ remainSamples \in Int
         /\ Len(rolloutBuffer) \in Nat /\ NGen * AtRollouts \in Nat /\ AtRollouts \in Nat
         /\ InFlight = Len(rolloutBuffer) + NGen * AtRollouts
         /\ InFlight' = Len(rolloutBuffer') + NGen * AtRollouts'
<1>1. /\ samplesOnTheFly \in Int /\ promptsLeft \in Nat /\ currentStep \in Nat
      /\ Len(rolloutBuffer) \in Nat /\ NGen * AtRollouts \in Nat /\ AtRollouts \in Nat
      /\ rolloutBuffer \in Seq(Nat) /\ remainSamples \in Int
      /\ InFlight = Len(rolloutBuffer) + NGen * AtRollouts
  BY CountTypes
<1>2. policyCmds \in [Policies -> Seq(Commands)] /\ status \in [Policies -> Statuses]
  BY DEF IInv, TypeOK
<1>3. InFlight \in Int
  BY <1>1
<1>. QED BY <1>1, <1>2, <1>3, LeftIs, Constants, GlobalBatchType

LEMMA InitFly == Init => FlyInv
<1>1. ASSUME Init PROVE FlyInv
  <2>1. IInv /\ Left = NumPrompts * NGen /\ promptsLeft = NumPrompts
    BY <1>1, InitInv, InitLeft DEF Init
  <2>2. /\ samplesOnTheFly = 0 /\ currentStep = 0
        /\ status = [p \in Policies |-> "READY"] /\ policyCmds = [p \in Policies |-> <<>>]
    BY <1>1 DEF Init
  <2>3. InFlight = 0
    <3>1. \A a \in Nat, b \in Nat : a * b \in Nat /\ a * b = b * a
      OBVIOUS
    <3>2. PICK all \in Nat : all = NumPrompts * NGen /\ all = NGen * NumPrompts
      BY <3>1, Constants
    <3>3. all = all + InFlight
      BY <2>1, <3>2 DEF Left
    <3>4. InFlight \in Int
      BY <2>1, FlyTypes
    <3>. QED BY <3>3, <3>4
  <2>4. \A p \in Policies : Answers(status, policyCmds, p) = 0
    <3>1. Places(<<>>, "DataFetch") = {}
      BY NonePending
    <3>2. Cardinality({}) = 0
      BY FS_EmptySet
    <3>3. SUFFICES ASSUME NEW p \in Policies PROVE Answers(status, policyCmds, p) = 0
      OBVIOUS
    <3>4. policyCmds[p] = <<>> /\ status[p] # "REDUCED"
      BY <2>2
    <3>5. NumFetches(policyCmds[p]) = 0
      BY <3>1, <3>2, <3>4 DEF NumFetches
    <3>. QED BY <3>4, <3>5 DEF Answers
  <2>5. Covers(status, policyCmds, samplesOnTheFly, InFlight)
    <3>1. SUFFICES ASSUME NEW k \in Nat, \A p \in Policies : k <= Answers(status, policyCmds, p)
                   PROVE  samplesOnTheFly >= InFlight + GlobalBatch * k
      BY DEF Covers
    <3>2. k = 0
      BY <2>4, <3>1, Constants
    <3>3. GlobalBatch * 0 = 0
      BY GlobalBatchType
    <3>. QED BY <2>2, <2>3, <3>2, <3>3
  <2>6. Exact(samplesOnTheFly, promptsLeft, currentStep, status)
    <3>1. NGen * (NumPrompts - promptsLeft) = 0 /\ currentStep * GlobalBatch = 0
      BY <2>1, <2>2, Constants, GlobalBatchType
    <3>2. Training(status) = 0
      BY <2>2 DEF Training
    <3>. QED BY <2>2, <3>1, <3>2 DEF Exact
  <2>. QED BY <2>5, <2>6, FlyParts
<1>. QED BY <1>1

LEMMA TriggerExact ==
  ASSUME IInv, NEW st, NEW buffer \in Seq(Nat), NEW remain \in Int,
         NEW cmds \in [Policies -> Seq(Commands)], NEW val, NEW fly \in Int, NEW left \in Int,
         Exact(fly, left, currentStep, st), TryTrigger(st, buffer, remain, cmds, val)
  PROVE  Exact(fly, left, currentStep', status')
<1>1. CASE currentStep' = currentStep /\ status' = st
  BY <1>1
<1>2. CASE /\ MayStart(st, buffer, val) /\ currentStep' = currentStep + 1
           /\ \A p \in Policies : status'[p] = "RUNNING"
  <2>1. Training(st) = 0
    BY <1>2 DEF MayStart, AllAre, Training
  <2>2. Training(status') = GlobalBatch
    BY <1>2, Constants DEF Training
  <2>3. currentStep \in Nat /\ GlobalBatch \in Nat /\ NGen \in Nat /\ NumPrompts \in Nat
    BY FlyTypes
  <2>4. \A a \in Nat, b \in Nat : (a + 1) * b = a * b + b /\ a * b \in Nat
    OBVIOUS
  <2>5. PICK made \in Nat :
          currentStep * GlobalBatch = made /\ (currentStep + 1) * GlobalBatch = made + GlobalBatch
    BY <2>3, <2>4
  <2>6. PICK fetched \in Int : fetched = NGen * (NumPrompts - left)
    BY <2>3
  <2>. QED BY <1>2, <2>1, <2>2, <2>3, <2>5, <2>6 DEF Exact
<1>. QED BY <1>1, <1>2, TriggerCounts

\* As many samples fly as are in flight.
LEMMA CoversMore ==
  ASSUME NEW st, NEW cmds, NEW fly \in Int, NEW flight \in Int, NEW more \in Int,
         Covers(st, cmds, fly, flight)
  PROVE  Covers(st, cmds, fly + more, flight + more)
<1>1. SUFFICES ASSUME NEW k \in Nat, \A p \in Policies : k <= Answers(st, cmds, p)
               PROVE  fly + more >= flight + more + GlobalBatch * k
  BY DEF Covers
<1>2. fly >= flight + GlobalBatch * k
  BY <1>1 DEF Covers
<1>3. PICK all \in Nat : all = GlobalBatch * k
  <2>1. \A a \in Nat, b \in Nat : a * b \in Nat
    OBVIOUS
  <2>. QED BY <2>1, GlobalBatchType
<1>. QED BY <1>2, <1>3

LEMMA FetchFly ==
  ASSUME IInv, FlyInv, NEW r \in Rollouts, FetchPrompts(r)
  PROVE  FlyInv'
<1>1. PICK n \in Nat : /\ n <= promptsLeft /\ promptsLeft' = promptsLeft - n
                       /\ AtRollouts' = AtRollouts + n
                       /\ samplesOnTheFly' = samplesOnTheFly + n * NGen
  BY FetchCounts
<1>2. UNCHANGED <<currentStep, status, policyCmds, rolloutBuffer, ended>>
  BY DEF FetchPrompts, trainVars
<1>3. PICK more \in Nat : more = n * NGen /\ more = NGen * n
  <2>1. \A a \in Nat, b \in Nat : a * b \in Nat /\ a * b = b * a
    OBVIOUS
  <2>. QED BY <2>1, Constants
<1>4. \A a \in Nat, b \in Int, c \in Nat : a * (b + c) = a * b + a * c /\ a * b \in Int
  OBVIOUS
<1>5. InFlight' = InFlight + more /\ samplesOnTheFly' = samplesOnTheFly + more
  <2>1. NGen * (AtRollouts + n) = NGen * AtRollouts + more
    BY <1>3, <1>4, FlyTypes
  <2>2. /\ InFlight = Len(rolloutBuffer) + NGen * AtRollouts
        /\ InFlight' = Len(rolloutBuffer) + (NGen * AtRollouts + more)
        /\ Len(rolloutBuffer) \in Nat /\ NGen * AtRollouts \in Nat
    BY <1>1, <1>2, <2>1, FlyTypes
  <2>. QED BY <1>1, <1>3, <2>2
<1>6. Covers(status', policyCmds', samplesOnTheFly', InFlight')
  <2>1. Covers(status, policyCmds, samplesOnTheFly, InFlight)
    BY FlyParts
  <2>2. Covers(status, policyCmds, samplesOnTheFly + more, InFlight + more)
    BY <2>1, CoversMore, FlyTypes
  <2>. QED BY <1>2, <1>5, <2>2
<1>7. SomeoneGenerates' => Exact(samplesOnTheFly', promptsLeft', currentStep', status')
  <2>1. SUFFICES ASSUME Exact(samplesOnTheFly, promptsLeft, currentStep, status)
                 PROVE  Exact(samplesOnTheFly', promptsLeft', currentStep', status')
    BY <1>2, FlyParts DEF SomeoneGenerates
  <2>2. NumPrompts - promptsLeft' = (NumPrompts - promptsLeft) + n
    BY <1>1, FlyTypes
  <2>3. PICK fetched \in Int : /\ fetched = NGen * (NumPrompts - promptsLeft)
                               /\ NGen * (NumPrompts - promptsLeft') = fetched + more
    <3>1. NumPrompts - promptsLeft \in Int /\ NGen \in Nat
      BY FlyTypes
    <3>. QED BY <1>3, <1>4, <2>2, <3>1
  <2>4. PICK made \in Int, open \in Int : made = currentStep * GlobalBatch /\ open = Training(status)
    BY FlyTypes DEF Training
  <2>5. samplesOnTheFly = fetched - made + open
    BY <2>1, <2>3, <2>4 DEF Exact
  <2>6. samplesOnTheFly' = fetched + more - made + open
    BY <1>5, <2>5
  <2>. QED BY <1>2, <2>3, <2>4, <2>6 DEF Exact
<1>. QED BY <1>6, <1>7, FlyParts

LEMMA OtherFly ==
  ASSUME IInv, FlyInv,
         UNCHANGED <<currentStep, status, policyCmds, promptsLeft, samplesOnTheFly, ended, InFlight>>
  PROVE  FlyInv'
BY FlyParts DEF SomeoneGenerates

\* A trigger attempt on the streams as they are.
LEMMA TriggerFly ==
  ASSUME IInv, FlyInv, UNCHANGED <<promptsLeft, samplesOnTheFly, ended>>,
         NEW buffer \in Seq(Nat), NEW remain \in Int, NEW val,
         Len(buffer) + NGen * AtRollouts' <= InFlight, NGen * AtRollouts' \in Int,
         TryTrigger(status, buffer, remain, policyCmds, val)
  PROVE  FlyInv'
<1>1. PICK held \in Int : held = NGen * AtRollouts'
  OBVIOUS
<1>2. PICK flight \in Int : flight = Len(buffer) + held /\ flight <= InFlight
  <2>1. Len(buffer) \in Nat
    BY LenProperties
  <2>. QED BY <1>1, <2>1
<1>3. Covers(status, policyCmds, samplesOnTheFly, flight)
  <2>1. Covers(status, policyCmds, samplesOnTheFly, InFlight)
    BY FlyParts
  <2>2. \A p \in Policies : Answers(status, policyCmds, p) \in Nat
    BY AnswersType, FlyTypes
  <2>3. \A p \in Policies : Answers(status, policyCmds, p) \in Nat /\ Answers(status, policyCmds, p) \in Nat
                            /\ Answers(status, policyCmds, p) <= Answers(status, policyCmds, p)
    BY <2>2
  <2>. QED BY <1>2, <2>1, <2>3, CoversFewer, FlyTypes
<1>4. Covers(status', policyCmds', samplesOnTheFly, Len(rolloutBuffer') + held)
  BY <1>2, <1>3, TriggerCovers, FlyTypes
<1>5. Covers(status', policyCmds', samplesOnTheFly', InFlight')
  BY <1>1, <1>4, FlyTypes
<1>6. SomeoneGenerates' => Exact(samplesOnTheFly', promptsLeft', currentStep', status')
  <2>1. SomeoneGenerates' => Exact(samplesOnTheFly, promptsLeft, currentStep, status)
    BY FlyParts DEF SomeoneGenerates
  <2>2. promptsLeft \in Int /\ samplesOnTheFly \in Int /\ policyCmds \in [Policies -> Seq(Commands)]
    BY FlyTypes
  <2>. QED BY <2>1, <2>2, TriggerExact
<1>. QED BY <1>5, <1>6, FlyParts

LEMMA ReportFly ==
  ASSUME IInv, FlyInv, NEW r \in Rollouts, ReportRollouts(r)
  PROVE  FlyInv'
<1>1. UNCHANGED <<promptsLeft, samplesOnTheFly, ended>>
  BY DEF ReportRollouts, dataVars
<1>2. PICK batch \in Nat, put \in Nat, extra \in Nat, buffer \in Seq(Nat), remain \in Int :
        Reported(batch, put, extra, buffer, remain)
  BY ReportCounts
<1>3. PICK all \in Nat, held \in Nat, buffered \in Nat :
        /\ all = NGen * batch /\ held = NGen * AtRollouts /\ buffered = Len(rolloutBuffer)
        /\ NGen * AtRollouts' = held - all
  <2>1. \A a \in Nat, b \in Nat, c \in Nat : c * (a - b) = c * a - c * b /\ c * b \in Nat
    OBVIOUS
  <2>2. /\ AtRollouts \in Nat /\ NGen \in Nat /\ NGen * AtRollouts \in Nat
        /\ Len(rolloutBuffer) \in Nat
    BY FlyTypes
  <2>3. AtRollouts' = AtRollouts - batch
    BY <1>2 DEF Reported
  <2>4. NGen * AtRollouts' = NGen * AtRollouts - NGen * batch /\ NGen * batch \in Nat
    BY <2>1, <2>2, <2>3
  <2>. QED BY <2>2, <2>4
<1>4. InFlight = buffered + held /\ put <= all
  BY <1>2, <1>3, FlyTypes DEF Reported
<1>5. CASE UNCHANGED <<currentStep, status, rolloutBuffer, policyCmds, validation>>
  <2>1. InFlight' = buffered + (held - all)
    BY <1>3, <1>5, FlyTypes
  <2>2. InFlight' <= InFlight /\ InFlight' \in Int
    BY <1>4, <2>1
  <2>3. Covers(status, policyCmds, samplesOnTheFly, InFlight)
    BY FlyParts
  <2>4. \A p \in Policies : Answers(status, policyCmds, p) \in Nat
    BY AnswersType, FlyTypes
  <2>5. \A p \in Policies : Answers(status, policyCmds, p) \in Nat /\ Answers(status, policyCmds, p) \in Nat
                            /\ Answers(status, policyCmds, p) <= Answers(status, policyCmds, p)
    BY <2>4
  <2>6. Covers(status, policyCmds, samplesOnTheFly, InFlight')
    BY <2>2, <2>3, <2>5, CoversFewer, FlyTypes
  <2>. QED BY <1>1, <1>5, <2>6, FlyParts DEF SomeoneGenerates
<1>6. CASE PutAndTry(put, buffer, remain)
  <2>1. Len(buffer) = buffered + put /\ TryTrigger(status, buffer, remain, policyCmds, validation)
    BY <1>3, <1>6 DEF PutAndTry
  <2>2. Len(buffer) + NGen * AtRollouts' <= InFlight /\ NGen * AtRollouts' \in Int
    BY <1>3, <1>4, <2>1
  <2>. QED BY <1>1, <2>1, <2>2, TriggerFly
<1>. QED BY <1>2, <1>5, <1>6 DEF Reported

LEMMA ValidationFly ==
  ASSUME IInv, FlyInv, NEW r \in Rollouts, ReportValidation(r)
  PROVE  FlyInv'
<1>1. UNCHANGED <<promptsLeft, promptQueue, rewardQueue, samplesOnTheFly, ended>>
  BY DEF ReportValidation, dataVars
<1>2. AtRollouts' = AtRollouts
  BY <1>1 DEF AtRollouts
<1>3. CASE UNCHANGED trainVars
  <2>1. UNCHANGED <<currentStep, status, rolloutBuffer, policyCmds>>
    BY <1>3 DEF trainVars
  <2>2. InFlight' = InFlight
    BY <1>2, <2>1, FlyTypes
  <2>. QED BY <1>1, <2>1, <2>2, OtherFly
<1>4. ASSUME NEW val, TryTrigger(status, rolloutBuffer, remainSamples, policyCmds, val)
      PROVE  FlyInv'
  <2>1. /\ Len(rolloutBuffer) + NGen * AtRollouts' <= InFlight /\ NGen * AtRollouts' \in Int
        /\ rolloutBuffer \in Seq(Nat) /\ remainSamples \in Int
    BY <1>2, FlyTypes
  <2>. QED BY <1>1, <1>4, <2>1, TriggerFly
<1>. QED BY <1>3, <1>4 DEF ReportValidation

\* A replica that has not answered a round has at most one step to answer.
LEMMA SingleFetch ==
  ASSUME NEW queue, Len(queue) \in Nat, Single(Fetches(queue))
  PROVE  NumFetches(queue) <= 1 /\ (NumFetches(queue) # 0 => Fetches(queue) # {})
<1>1. Fetches(queue) = Places(queue, "DataFetch")
  BY NonePending
<1>2. CASE Fetches(queue) = {}
  <2>1. NumFetches(queue) = 0
    BY <1>1, <1>2, FS_EmptySet DEF NumFetches
  <2>. QED BY <2>1
<1>3. CASE Fetches(queue) # {}
  <2>1. PICK i \in Fetches(queue) : TRUE
    BY <1>3
  <2>2. Fetches(queue) = {i}
    BY <2>1 DEF Single
  <2>3. NumFetches(queue) = 1
    BY <1>1, <2>2, FS_Singleton DEF NumFetches
  <2>. QED BY <1>3, <2>3
<1>. QED BY <1>2, <1>3

\* The extra step is sent while its global batch of the dataset is missing: the samples that
\* would have made it were dropped, but are still counted as flying.
LEMMA EmptyStepCovered ==
  ASSUME IInv, StatusInv, OrderInv, BudgetInv, FlyInv, SomeoneGenerates, promptsLeft = 0,
         currentStep < totalSteps
  PROVE  Covers(status, policyCmds, samplesOnTheFly, 0 + GlobalBatch)
<1>1. PICK budget \in Nat : budget = NGen * NumPrompts /\ budget = NumPrompts * NGen
  <2>1. \A a \in Nat, b \in Nat : a * b \in Nat /\ a * b = b * a
    OBVIOUS
  <2>. QED BY <2>1, Constants
<1>2. PICK made \in Nat : /\ made = currentStep * GlobalBatch
                          /\ made + GlobalBatch <= budget
  <2>1. totalSteps = StepsFor(0, budget) /\ totalSteps \in Nat /\ currentStep \in Nat
    BY <1>1 DEF BudgetInv, IInv, TypeOK
  <2>2. totalSteps * GlobalBatch <= budget
    BY <2>1, StepsForMost
  <2>3. \A a \in Nat, b \in Nat, g \in Nat :
          a < b => a * g + g <= b * g /\ a * g \in Nat /\ b * g \in Nat
    <3>1. \A a \in Nat, g \in Nat : (a + 1) * g = a * g + g /\ a * g \in Nat
      OBVIOUS
    <3>2. \A a \in Nat, b \in Nat, g \in Nat : a <= b => a * g <= b * g
      OBVIOUS
    <3>. QED BY <3>1, <3>2
  <2>4. /\ currentStep * GlobalBatch + GlobalBatch <= totalSteps * GlobalBatch
        /\ currentStep * GlobalBatch \in Nat /\ totalSteps * GlobalBatch \in Nat
    BY <2>1, <2>3, GlobalBatchType
  <2>. QED BY <2>2, <2>4, GlobalBatchType
<1>3. samplesOnTheFly >= GlobalBatch + Training(status)
  <2>1. Exact(samplesOnTheFly, 0, currentStep, status)
    BY FlyParts
  <2>2. NumPrompts - 0 = NumPrompts
    BY Constants
  <2>3. samplesOnTheFly = budget - made + Training(status)
    BY <1>1, <1>2, <2>1, <2>2 DEF Exact
  <2>4. Training(status) \in Int
    BY GlobalBatchType DEF Training
  <2>. QED BY <1>2, <2>3, <2>4, GlobalBatchType
<1>4. SUFFICES ASSUME NEW k \in Nat, \A p \in Policies : k <= Answers(status, policyCmds, p)
               PROVE  samplesOnTheFly >= 0 + GlobalBatch + GlobalBatch * k
  BY DEF Covers
<1>5. GlobalBatch \in Nat /\ samplesOnTheFly \in Int
  BY FlyTypes
<1>6. CASE k = 0
  <2>1. Training(status) >= 0 /\ Training(status) \in Int
    BY <1>5 DEF Training
  <2>2. GlobalBatch * k = 0
    BY <1>5, <1>6
  <2>. QED BY <1>3, <1>5, <2>1, <2>2
<1>7. CASE k # 0
  <2>1. PICK p \in Policies : status[p] # "REDUCED"
    BY DEF OrderInv, RoundInv, OneRound
  <2>2. Barrier(status, policyCmds)
    BY DEF StatusInv, NoEmptyStep
  <2>3. Len(policyCmds[p]) \in Nat
    BY LenProperties, FlyTypes
  <2>4. NumFetches(policyCmds[p]) \in Nat
    BY <2>3, NumFetchesType
  <2>5. NumFetches(policyCmds[p]) <= 1 /\ (NumFetches(policyCmds[p]) # 0 => Fetches(policyCmds[p]) # {})
    BY <2>2, <2>3, SingleFetch DEF Barrier
  <2>6. k <= NumFetches(policyCmds[p])
    BY <1>4, <2>1, <2>4 DEF Answers
  <2>7. k = 1 /\ status[p] = "RUNNING"
    BY <1>7, <2>2, <2>4, <2>5, <2>6 DEF Barrier
  <2>8. Training(status) = GlobalBatch
    BY <2>7 DEF Training
  <2>9. GlobalBatch * 1 = GlobalBatch
    BY <1>5
  <2>. QED BY <1>3, <1>5, <2>7, <2>8, <2>9
<1>. QED BY <1>6, <1>7

LEMMA SendEndSignalFly ==
  ASSUME IInv, EndInv, StatusInv, OrderInv, BudgetInv, FlyInv, NEW r \in Rollouts, SendEndSignal(r)
  PROVE  FlyInv'
<1>1. /\ UNCHANGED <<promptsLeft, promptQueue, rewardQueue, samplesOnTheFly>>
      /\ ended' = [ended EXCEPT ![r] = TRUE]
      /\ rewardQueue[r] = <<>> /\ promptQueue[r] = <<>> /\ promptsLeft = 0 /\ ~ended[r]
  BY DEF SendEndSignal, dataVars, EndInv, EndingIsEmpty
<1>2. AtRollouts' = AtRollouts /\ SomeoneGenerates
  BY <1>1 DEF AtRollouts, SomeoneGenerates
<1>3. SomeoneGenerates' => SomeoneGenerates
  BY <1>2
<1>4. CASE UNCHANGED trainVars
  <2>1. UNCHANGED <<currentStep, status, rolloutBuffer, policyCmds>>
    BY <1>4 DEF trainVars
  <2>2. InFlight' = InFlight
    BY <1>2, <2>1, FlyTypes
  <2>. QED BY <1>1, <1>3, <2>1, <2>2, FlyParts
<1>5. CASE /\ \A s \in Rollouts \ {r} : ended[s]
           /\ rolloutBuffer' = <<>> /\ UNCHANGED <<currentStep, status, policyCmds>>
  <2>1. InFlight' <= InFlight /\ InFlight' \in Int
    <3>1. Len(rolloutBuffer') = 0
      BY <1>5
    <3>. QED BY <1>2, <3>1, FlyTypes
  <2>2. Covers(status, policyCmds, samplesOnTheFly, InFlight)
    BY FlyParts
  <2>3. \A p \in Policies : Answers(status, policyCmds, p) \in Nat
    BY AnswersType, FlyTypes
  <2>4. \A p \in Policies : Answers(status, policyCmds, p) \in Nat /\ Answers(status, policyCmds, p) \in Nat
                            /\ Answers(status, policyCmds, p) <= Answers(status, policyCmds, p)
    BY <2>3
  <2>5. Covers(status, policyCmds, samplesOnTheFly, InFlight')
    BY <2>1, <2>2, <2>4, CoversFewer, FlyTypes
  <2>. QED BY <1>1, <1>3, <1>5, <2>5, FlyParts
<1> DEFINE newTotal == IF TrainingFinished THEN totalSteps ELSE StepsFor(currentStep, Len(rolloutBuffer))
<1>6. CASE /\ \A s \in Rollouts \ {r} : ended[s]
           /\ LastStepIsEmpty(newTotal)
           /\ StartStep(0, <<>>, remainSamples, policyCmds, currentStep + 1, validation)
  <2>1. ~SomeoneGenerates'
    BY <1>1, <1>6 DEF SomeoneGenerates, IInv, TypeOK
  <2>2. AtRollouts = 0
    <3>1. \A s \in Rollouts : promptQueue[s] = <<>> /\ rewardQueue[s] = <<>>
      BY <1>1, <1>6 DEF EndInv, EndIsLast
    <3>. QED BY <3>1, NoneHeld DEF IInv, TypeOK
  <2>3. currentStep \in Nat /\ totalSteps \in Nat /\ currentStep < totalSteps
    <3>1. currentStep \in Nat /\ totalSteps \in Nat /\ currentStep <= totalSteps
      BY <1>2 DEF IInv, TypeOK, BudgetInv
    <3>. QED BY <1>6, <3>1 DEF LastStepIsEmpty
  <2>4. Covers(status, policyCmds, samplesOnTheFly, 0 + GlobalBatch)
    BY <1>1, <1>2, <2>3, EmptyStepCovered
  <2>5. 0 \in Nat /\ 0 \in Int /\ currentStep + 1 \in Nat
    BY <2>3
  <2>6. Covers(status', policyCmds', samplesOnTheFly, 0)
    BY <1>6, <2>4, <2>5, StartCovers, FlyTypes
  <2>7. Len(rolloutBuffer') = 0 /\ NGen * 0 = 0
    BY <1>6, EmptiedBuffer, FlyTypes
  <2>8. InFlight' = 0
    BY <1>2, <2>2, <2>7, FlyTypes
  <2>. QED BY <1>1, <2>1, <2>6, <2>8, FlyParts
<1>. QED BY <1>4, <1>5, <1>6 DEF SendEndSignal

\* An answer: the replica has one step fewer, and has answered the round.
LEMMA AckAnswers ==
  ASSUME IInv, NEW p \in Policies, TrainAck(p)
  PROVE  \A q \in Policies :
           /\ Answers(Acked(p), AckCmds(p), q) \in Nat /\ Answers(status, policyCmds, q) \in Nat
           /\ Answers(Acked(p), AckCmds(p), q) <= Answers(status, policyCmds, q)
<1>1. SUFFICES ASSUME NEW q \in Policies
               PROVE  /\ Answers(Acked(p), AckCmds(p), q) \in Nat
                      /\ Answers(status, policyCmds, q) \in Nat
                      /\ Answers(Acked(p), AckCmds(p), q) <= Answers(status, policyCmds, q)
  OBVIOUS
<1>2. /\ AckCmd(p).type = "DataFetch" /\ AckCmds(p) \in [Policies -> Seq(Commands)]
      /\ IsRest(AckCmds(p)[p], policyCmds[p])
      /\ \A s \in Policies \ {p} : AckCmds(p)[s] = policyCmds[s]
  BY AckFacts
<1>3. Answers(Acked(p), AckCmds(p), q) \in Nat /\ Answers(status, policyCmds, q) \in Nat
  BY <1>2, AnswersType, FlyTypes
<1>4. CASE q # p
  <2>1. Acked(p)[q] = status[q] /\ AckCmds(p)[q] = policyCmds[q]
    BY <1>2, <1>4, FlyTypes DEF Acked
  <2>2. Answers(Acked(p), AckCmds(p), q) = Answers(status, policyCmds, q)
    BY <2>1 DEF Answers
  <2>. QED BY <1>3, <2>2
<1>5. CASE q = p
  <2>1. /\ NumFetches(AckCmds(p)[q]) \in Nat
        /\ NumFetches(policyCmds[q]) = NumFetches(AckCmds(p)[q]) + 1
    BY <1>2, <1>5, RestFetches DEF AckCmd
  <2>2. Answers(Acked(p), AckCmds(p), q) <= NumFetches(AckCmds(p)[q]) + 1
    BY <2>1 DEF Answers
  <2>3. Answers(status, policyCmds, q) >= NumFetches(policyCmds[q])
    BY <2>1 DEF Answers
  <2>. QED BY <1>3, <2>1, <2>2, <2>3
<1>. QED BY <1>4, <1>5

\* The weight syncs are no steps.
LEMMA SyncAnswers ==
  ASSUME IInv, OrderInv, NEW p \in Policies, TrainAck(p)
  PROVE  /\ SyncCmds(p) \in [Policies -> Seq(Commands)]
         /\ \A q \in Policies : NumFetches(SyncCmds(p)[q]) = NumFetches(AckCmds(p)[q])
<1>1. /\ AckCmd(p).step \in Nat /\ AckCmd(p).total \in Nat
      /\ AckCmds(p) \in [Policies -> Seq(Commands)]
  BY AckFacts
<1>2. \A cmds \in [Policies -> Seq(Commands)], step \in Nat, total \in Nat :
        /\ IsLonger(PolicySync(cmds, step, total)[LeadPolicy], cmds[LeadPolicy],
                    Sync("P2R", step, total))
        /\ \A s \in Policies \ {LeadPolicy} : PolicySync(cmds, step, total)[s] = cmds[s]
  BY PolicySyncFacts
<1>3. CASE Synced(p)
  <2>1. SyncCmds(p) = PolicySync(AckCmds(p), AckCmd(p).step, AckCmd(p).total)
    BY <1>3 DEF SyncCmds
  <2>2. /\ IsLonger(SyncCmds(p)[LeadPolicy], AckCmds(p)[LeadPolicy],
                    Sync("P2R", AckCmd(p).step, AckCmd(p).total))
        /\ \A s \in Policies \ {LeadPolicy} : SyncCmds(p)[s] = AckCmds(p)[s]
    BY <1>1, <1>2, <2>1
  <2>3. /\ NumFetches(AckCmds(p)[LeadPolicy]) \in Nat
        /\ NumFetches(SyncCmds(p)[LeadPolicy]) = NumFetches(AckCmds(p)[LeadPolicy]) + 0
    BY <2>2, LongerFetches DEF Sync
  <2>4. NumFetches(SyncCmds(p)[LeadPolicy]) = NumFetches(AckCmds(p)[LeadPolicy])
    BY <2>3
  <2>. QED BY <2>2, <2>4, SyncPolicy
<1>. QED BY <1>3, SyncPolicy DEF SyncCmds

\* While samples are generated an answer is given by a replica that is RUNNING; the round
\* closes with the last.
LEMMA AckExact ==
  ASSUME IInv, StatusInv, OrderInv, FlyInv, SomeoneGenerates, NEW p \in Policies, TrainAck(p)
  PROVE  /\ ~AllAre(Acked(p), {"REDUCED"}) =>
              Exact(samplesOnTheFly, promptsLeft, currentStep, Acked(p))
         /\ AllAre(Acked(p), {"REDUCED"}) =>
              Exact(samplesOnTheFly - GlobalBatch, promptsLeft, currentStep, AllReady)
<1>1. status[p] = "RUNNING" /\ \A q \in Policies : status[q] # "READY"
  <2>1. Barrier(status, policyCmds)
    BY DEF StatusInv, NoEmptyStep
  <2>2. Fetches(policyCmds[p]) # {}
    <3>1. AckCmd(p) \in Pending(policyCmds[p], "DataFetch")
      BY AckRound
    <3>. QED BY <3>1, NonePending
  <2>3. status[p] = "RUNNING"
    BY <2>1, <2>2 DEF Barrier
  <2>. QED BY <2>3 DEF OrderInv, RoundInv, OneRound
<1>2. Exact(samplesOnTheFly, promptsLeft, currentStep, status) /\ Training(status) = GlobalBatch
  BY <1>1, FlyParts DEF Training
<1>3. ASSUME ~AllAre(Acked(p), {"REDUCED"})
      PROVE  Exact(samplesOnTheFly, promptsLeft, currentStep, Acked(p))
  <2>1. PICK q \in Policies : Acked(p)[q] # "REDUCED"
    BY <1>3 DEF AllAre
  <2>2. Acked(p)[q] = status[q] /\ status[q] \in Statuses
    BY <2>1, FlyTypes DEF Acked
  <2>3. Acked(p)[q] = "RUNNING"
    BY <1>1, <2>1, <2>2 DEF Statuses
  <2>4. Training(Acked(p)) = GlobalBatch
    BY <2>3 DEF Training
  <2>. QED BY <1>2, <2>4 DEF Exact
<1>4. Exact(samplesOnTheFly - GlobalBatch, promptsLeft, currentStep, AllReady)
  <2>1. Training(AllReady) = 0
    BY DEF Training, AllReady
  <2>2. PICK fetched \in Int, made \in Int :
          fetched = NGen * (NumPrompts - promptsLeft) /\ made = currentStep * GlobalBatch
    BY FlyTypes
  <2>. QED BY <1>2, <2>1, <2>2, GlobalBatchType DEF Exact
<1>. QED BY <1>3, <1>4

LEMMA TrainAckFly ==
  ASSUME IInv, StatusInv, OrderInv, FlyInv, NEW p \in Policies, TrainAck(p)
  PROVE  FlyInv'
<1>1. /\ UNCHANGED <<promptsLeft, promptQueue, rewardQueue, ended>>
      /\ AckCmds(p) \in [Policies -> Seq(Commands)]
  BY AckFacts DEF dataVars, rolloutVars
<1>2. AtRollouts' = AtRollouts
  BY <1>1 DEF AtRollouts
<1>3. Covers(Acked(p), AckCmds(p), samplesOnTheFly, InFlight)
  <2>1. Covers(status, policyCmds, samplesOnTheFly, InFlight)
    BY FlyParts
  <2>2. InFlight <= InFlight
    BY FlyTypes
  <2>3. \A q \in Policies :
          Answers(Acked(p), AckCmds(p), q) \in Nat /\ Answers(status, policyCmds, q) \in Nat
          /\ Answers(Acked(p), AckCmds(p), q) <= Answers(status, policyCmds, q)
    BY AckAnswers
  <2>. QED BY <2>1, <2>2, <2>3, CoversFewer, FlyTypes
<1>4. SomeoneGenerates' => SomeoneGenerates
  BY <1>1 DEF SomeoneGenerates
<1>5. CASE /\ ~AllAre(Acked(p), {"REDUCED"})
           /\ status' = Acked(p) /\ policyCmds' = AckCmds(p)
           /\ UNCHANGED <<currentStep, rolloutBuffer, samplesOnTheFly>>
  <2>1. InFlight' = InFlight
    BY <1>2, <1>5, FlyTypes
  <2>2. Covers(status', policyCmds', samplesOnTheFly', InFlight')
    BY <1>3, <1>5, <2>1
  <2>3. SomeoneGenerates' => Exact(samplesOnTheFly', promptsLeft', currentStep', status')
    BY <1>1, <1>4, <1>5, AckExact
  <2>. QED BY <2>2, <2>3, FlyParts
<1>6. CASE /\ AllAre(Acked(p), {"REDUCED"})
           /\ samplesOnTheFly' = samplesOnTheFly - GlobalBatch
           /\ TryTrigger(AllReady, rolloutBuffer, remainSamples, SyncCmds(p), validation)
  <2>1. PICK fly \in Int, flight \in Int, held \in Int :
          /\ fly = samplesOnTheFly - GlobalBatch /\ flight = InFlight /\ held = NGen * AtRollouts
          /\ flight = Len(rolloutBuffer) + held
    BY FlyTypes
  <2>2. Covers(AllReady, AckCmds(p), fly, flight)
    <3>1. Covers(AllReady, AckCmds(p), samplesOnTheFly - GlobalBatch, InFlight)
      BY <1>1, <1>3, <1>6, RoundCovers, FlyTypes
    <3>. QED BY <2>1, <3>1
  <2>3. SyncCmds(p) \in [Policies -> Seq(Commands)]
    BY SyncAnswers
  <2>4. \A q \in Policies :
          Answers(AllReady, SyncCmds(p), q) \in Nat /\ Answers(AllReady, AckCmds(p), q) \in Nat
          /\ Answers(AllReady, SyncCmds(p), q) <= Answers(AllReady, AckCmds(p), q)
    <3>1. SUFFICES ASSUME NEW q \in Policies
                   PROVE  /\ Answers(AllReady, SyncCmds(p), q) \in Nat
                          /\ Answers(AllReady, AckCmds(p), q) \in Nat
                          /\ Answers(AllReady, SyncCmds(p), q) <= Answers(AllReady, AckCmds(p), q)
      OBVIOUS
    <3>2. Answers(AllReady, AckCmds(p), q) \in Nat
      BY <1>1, AnswersType
    <3>3. Answers(AllReady, SyncCmds(p), q) = Answers(AllReady, AckCmds(p), q)
      BY SyncAnswers DEF Answers
    <3>. QED BY <3>2, <3>3
  <2>5. Covers(AllReady, SyncCmds(p), fly, flight)
    <3>1. flight <= flight
      BY <2>1
    <3>. QED BY <2>2, <2>4, <3>1, CoversFewer
  <2>6. Covers(status', policyCmds', fly, Len(rolloutBuffer') + held)
    <3>1. Covers(AllReady, SyncCmds(p), fly, Len(rolloutBuffer) + held)
      BY <2>1, <2>5
    <3>2. rolloutBuffer \in Seq(Nat) /\ remainSamples \in Int
      BY FlyTypes
    <3>. QED BY <1>6, <2>3, <3>1, <3>2, TriggerCovers
  <2>7. Covers(status', policyCmds', samplesOnTheFly', InFlight')
    BY <1>2, <1>6, <2>1, <2>6, FlyTypes
  <2>8. SomeoneGenerates' => Exact(samplesOnTheFly', promptsLeft', currentStep', status')
    <3>1. SUFFICES ASSUME SomeoneGenerates
                   PROVE  Exact(samplesOnTheFly', promptsLeft', currentStep', status')
      BY <1>4
    <3>2. Exact(fly, promptsLeft, currentStep, AllReady)
      BY <1>6, <2>1, <3>1, AckExact
    <3>3. rolloutBuffer \in Seq(Nat) /\ remainSamples \in Int /\ promptsLeft \in Int
      BY FlyTypes
    <3>4. Exact(fly, promptsLeft, currentStep', status')
      BY <1>6, <2>3, <3>2, <3>3, TriggerExact
    <3>. QED BY <1>1, <1>6, <2>1, <3>4
  <2>. QED BY <2>7, <2>8, FlyParts
<1>. QED BY <1>5, <1>6, AckFacts

\* The unicast is no step either.
LEMMA UnicastFly ==
  ASSUME IInv, FlyInv, PolicyToRollout
  PROVE  FlyInv'
<1>1. /\ UNCHANGED <<promptsLeft, promptQueue, rewardQueue, rolloutBuffer, samplesOnTheFly, ended,
                     currentStep, status>>
      /\ policyCmds' = [policyCmds EXCEPT ![LeadPolicy] = Tail(@)]
      /\ HeadIs(policyCmds[LeadPolicy], "P2R")
  BY DEF PolicyToRollout, dataVars
<1>2. InFlight' = InFlight
  <2>1. AtRollouts' = AtRollouts
    BY <1>1 DEF AtRollouts
  <2>. QED BY <1>1, <2>1, FlyTypes
<1>3. \A p \in Policies : NumFetches(policyCmds'[p]) = NumFetches(policyCmds[p])
  <2>1. LeadPolicy \in Policies /\ policyCmds \in [Policies -> Seq(Commands)]
    BY Constants, FlyTypes
  <2>2. policyCmds[LeadPolicy] # <<>> /\ Head(policyCmds[LeadPolicy]).type = "P2R"
    BY <1>1 DEF HeadIs
  <2>3. IsRest(Tail(policyCmds[LeadPolicy]), policyCmds[LeadPolicy])
    BY <2>1, <2>2, TailIsRest
  <2>4. /\ NumFetches(Tail(policyCmds[LeadPolicy])) \in Nat
        /\ NumFetches(policyCmds[LeadPolicy]) = NumFetches(Tail(policyCmds[LeadPolicy])) + 0
    BY <2>2, <2>3, RestFetches
  <2>5. NumFetches(policyCmds[LeadPolicy]) = NumFetches(Tail(policyCmds[LeadPolicy]))
    BY <2>4
  <2>. QED BY <1>1, <2>1, <2>5
<1>4. Covers(status', policyCmds', samplesOnTheFly', InFlight')
  <2>1. \A p \in Policies : Answers(status', policyCmds', p) = Answers(status, policyCmds, p)
    BY <1>1, <1>3 DEF Answers
  <2>2. Covers(status, policyCmds, samplesOnTheFly, InFlight)
    BY FlyParts
  <2>. QED BY <1>1, <1>2, <2>1, <2>2 DEF Covers
<1>. QED BY <1>1, <1>4, FlyParts DEF SomeoneGenerates

LEMMA FlyStep ==
  ASSUME IInv, EndInv, StatusInv, OrderInv, BudgetInv, FlyInv, [Next]_vars
  PROVE  FlyInv'
<1>1. ASSUME NEW r \in Rollouts, GenerateHeld(r) PROVE FlyInv'
  <2>1. UNCHANGED <<currentStep, status, policyCmds, rolloutBuffer, promptsLeft, samplesOnTheFly, ended>>
    BY <1>1 DEF GenerateHeld, dataVars, trainVars
  <2>2. InFlight' = InFlight
    BY <1>1, <2>1, HeldCounts, FlyTypes
  <2>. QED BY <2>1, <2>2, OtherFly
<1>2. ASSUME UNCHANGED <<currentStep, status, policyCmds, rolloutBuffer, promptsLeft,
                         samplesOnTheFly, ended, promptQueue, rewardQueue>>
      PROVE  FlyInv'
  <2>1. InFlight' = InFlight
    BY <1>2, FlyTypes DEF AtRollouts
  <2>. QED BY <1>2, <2>1, OtherFly
<1>3. ASSUME NEW r \in Rollouts, Leave(r) \/ FetchEnd(r) \/ FetchValidation(r) PROVE FlyInv'
  BY <1>2, <1>3 DEF Leave, FetchEnd, FetchValidation, dataVars, trainVars
<1>4. ASSUME TrainStep \/ RolloutBroadcast \/ UNCHANGED vars PROVE FlyInv'
  BY <1>2, <1>4 DEF TrainStep, RolloutBroadcast, vars, dataVars, trainVars, rolloutVars
<1>. QED BY <1>1, <1>3, <1>4, FetchFly, ReportFly, ValidationFly, SendEndSignalFly, TrainAckFly,
            UnicastFly DEF Next, RolloutStep, Terminated

\* An open round can still be ended by everyone.
LEMMA FlyImplies ==
  ASSUME IInv, StatusInv, OrderInv, FlyInv
  PROVE  OnTheFlyCovers
<1>1. Covers(status, policyCmds, samplesOnTheFly, InFlight)
  BY FlyParts
<1>2. \A p \in Policies : Answers(status, policyCmds, p) \in Nat
  BY AnswersType, FlyTypes
<1>3. samplesOnTheFly \in Int /\ InFlight \in Int /\ GlobalBatch \in Nat
  BY FlyTypes
<1>4. CASE \E p \in Policies : status[p] = "RUNNING"
  <2>1. \A p \in Policies : 1 <= Answers(status, policyCmds, p)
    <3>1. SUFFICES ASSUME NEW p \in Policies PROVE 1 <= Answers(status, policyCmds, p)
      OBVIOUS
    <3>2. status[p] = "RUNNING" \/ status[p] = "REDUCED"
      BY <1>4, FlyTypes DEF OrderInv, RoundInv, OneRound, Statuses
    <3>3. NumFetches(policyCmds[p]) \in Nat
      BY AnswersType, FlyTypes
    <3>4. CASE status[p] = "REDUCED"
      BY <3>3, <3>4 DEF Answers
    <3>5. CASE status[p] = "RUNNING"
      <4>1. Places(policyCmds[p], "DataFetch") # {}
        BY <3>5, NonePending DEF StatusInv, HasStep
      <4>2. IsFiniteSet(Places(policyCmds[p], "DataFetch"))
        <5>1. Len(policyCmds[p]) \in Nat
          BY LenProperties, FlyTypes
        <5>. QED BY <5>1, NumFetchesType
      <4>3. NumFetches(policyCmds[p]) # 0
        BY <4>1, <4>2, FS_EmptySet DEF NumFetches
      <4>. QED BY <3>3, <3>5, <4>3 DEF Answers
    <3>. QED BY <3>2, <3>4, <3>5
  <2>2. samplesOnTheFly >= InFlight + GlobalBatch * 1
    BY <1>1, <2>1 DEF Covers
  <2>. QED BY <1>3, <1>4, <2>2 DEF OnTheFlyCovers, InTraining
<1>5. CASE ~(\E p \in Policies : status[p] = "RUNNING")
  <2>1. \A p \in Policies : 0 <= Answers(status, policyCmds, p)
    BY <1>2
  <2>2. samplesOnTheFly >= InFlight + GlobalBatch * 0
    BY <1>1, <2>1 DEF Covers
  <2>3. InTraining = 0
    BY <1>5 DEF InTraining
  <2>4. GlobalBatch * 0 = 0
    BY <1>3
  <2>. QED BY <1>3, <2>2, <2>3, <2>4 DEF OnTheFlyCovers
<1>. QED BY <1>4, <1>5

\* samples_on_the_fly, by which get_batched_prompt throttles the requests, is never less than
\* the samples that are generated, wait or are trained on, although each report drops and
\* filters as it likes and the extra step at the end, which has no samples, is subtracted
\* like any other: the assertion of train_ack holds, and no more than the promised number of
\* samples is ever under way.
THEOREM FlightIsCovered == Spec => []OnTheFlyCovers
<1>1. Init => FlyInv
  BY InitFly
<1>2. IInv /\ EndInv /\ StatusInv /\ OrderInv /\ BudgetInv /\ FlyInv /\ [Next]_vars => FlyInv'
  BY FlyStep
<1>3. IInv /\ StatusInv /\ OrderInv /\ FlyInv => OnTheFlyCovers
  BY FlyImplies
<1>. QED BY <1>1, <1>2, <1>3, OrderIsInvariant, StopIsInvariant, PTL DEF Spec

-----------------------------------------------------------------------------
(* On-policy training *)

\* The configurations in which nothing should be thrown away: on-policy, without filtering, a
\* step is made of whole prompts, and a version's prompts are handed out in whole batches.
WholeBatches ==
  /\ OnPolicy /\ ~Dapo
  /\ GlobalBatch % NGen = 0
  /\ PromptsPerVersion % FetchBatch = 0

Fetched == NumPrompts - promptsLeft

\* Of the first prompts, so many get tag v when every tag is filled before the next.
Share(fetched, v) ==
  IF fetched <= v * PromptsPerVersion
    THEN 0 ELSE Smaller(fetched - v * PromptsPerVersion, PromptsPerVersion)

\* The prompts that wait for a later version than v.
Ahead(waiting, v) ==
  [r \in Rollouts |-> IF waiting[r] # <<>> /\ waiting[r][1] > v THEN Len(waiting[r]) ELSE 0]

TagInv(left, fetched, count) ==
  /\ left <= NumPrompts
  /\ left = 0 \/ fetched % FetchBatch = 0
  /\ \A v \in Versions : count[v] = Share(fetched, v)

KeptInv == remainSamples = Left /\ NoneDropped

\* Whoever waits waits for this step or a later one, and whatever is under way is for this one.
Waits(waiting, step) == \A r \in Rollouts : waiting[r] # <<>> => waiting[r][1] >= step
Current(batch, step) == batch.version = step /\ batch.prompts > 0
UnderWay(queues, step) ==
  \A r \in Rollouts : \A i \in 1..Len(queues[r]) : Current(queues[r][i], step)

\* No more than a version's prompts are generated, or may be, before the next version.
AheadInv(waiting, step, fetched) ==
  \A v \in Nat : v >= step =>
    fetched <= (v + 1) * PromptsPerVersion + SumFunction(Ahead(waiting, v))

\* Once the samples of a step are complete nothing is generated before the next weights.
DoneInv(done, queues, versions, rcmds, step) ==
  done => \A r \in Rollouts :
            /\ queues[r] = <<>>
            /\ versions[r] < step
            /\ \A i \in 1..Len(rcmds[r]) : rcmds[r][i].step < step

OnPolicyInv ==
  /\ TagInv(promptsLeft, Fetched, versionCount)
  /\ KeptInv
  /\ Waits(promptQueue, currentStep)
  /\ UnderWay(rewardQueue, currentStep)
  /\ AheadInv(promptQueue, currentStep, Fetched)
  /\ DoneInv(onPolicyDone, rewardQueue, weightVersion, rolloutCmds, currentStep)

\* What is between two multiples of f that differ.
LEMMA MultipleBelow ==
  ASSUME NEW f \in Nat \ {0}, NEW a \in Nat, NEW b \in Nat, a % f = 0, b % f = 0, a < b
  PROVE  a + f <= b
<1>1. PICK x \in Nat, y \in Nat : a = f * x /\ b = f * y
  <2>1. a = f * (a \div f) /\ b = f * (b \div f) /\ a \div f \in Nat /\ b \div f \in Nat
    OBVIOUS
  <2>. QED BY <2>1
<1>2. x < y
  <2>1. \A c \in Nat, d \in Nat : c <= d => f * c <= f * d
    OBVIOUS
  <2>2. f * x \in Nat /\ f * y \in Nat
    OBVIOUS
  <2>3. ~(y <= x)
    BY <1>1, <2>1, <2>2
  <2>. QED BY <2>3
<1>3. f * (x + 1) <= f * y /\ f * (x + 1) = f * x + f
  <2>1. \A c \in Nat, d \in Nat : c <= d => f * c <= f * d
    OBVIOUS
  <2>. QED BY <1>2, <2>1
<1>. QED BY <1>1, <1>3

LEMMA NextMultiple ==
  ASSUME NEW f \in Nat \ {0}, NEW a \in Nat, a % f = 0
  PROVE  (a + f) % f = 0
<1>1. PICK x \in Nat : a = f * x
  <2>1. a = f * (a \div f) /\ a \div f \in Nat
    OBVIOUS
  <2>. QED BY <2>1
<1>2. f * (x + 1) = f * x + f
  OBVIOUS
<1>3. \A m \in Nat : (f * m) % f = 0
  OBVIOUS
<1>. QED BY <1>1, <1>2, <1>3

LEMMA DivBounds ==
  ASSUME NEW a \in Nat, NEW b \in Nat \ {0}
  PROVE  /\ a \div b \in Nat
         /\ (a \div b) * b <= a /\ a < (a \div b + 1) * b
OBVIOUS

LEMMA DivIs ==
  ASSUME NEW a \in Nat, NEW n \in Nat \ {0}, NEW q \in Nat, n * q <= a, a < n * (q + 1)
  PROVE  a \div n = q
<1>1. PICK d \in Nat : d = a \div n /\ d * n <= a /\ a < (d + 1) * n
  BY DivBounds
<1>2. \A x \in Nat, y \in Nat : x <= y => n * x <= n * y
  OBVIOUS
<1>3. n * d \in Nat /\ n * q \in Nat /\ n * (d + 1) \in Nat /\ n * (q + 1) \in Nat
      /\ d * n = n * d /\ (d + 1) * n = n * (d + 1)
  OBVIOUS
<1>4. ~(q + 1 <= d)
  BY <1>1, <1>2, <1>3
<1>5. ~(d + 1 <= q)
  BY <1>1, <1>2, <1>3
<1>. QED BY <1>1, <1>4, <1>5

LEMMA Whole ==
  ASSUME WholeBatches
  PROVE  /\ PromptsPerVersion \in Nat \ {0} /\ NGen * PromptsPerVersion = GlobalBatch
         /\ FetchBatch \in Nat \ {0} /\ PromptsPerVersion % FetchBatch = 0
         /\ AllowedOutdated = 0 /\ NGen \in Nat \ {0} /\ NumPrompts \in Nat /\ ~Dapo /\ OnPolicy
<1>1. /\ FetchBatch \in Nat \ {0} /\ NGen \in Nat \ {0} /\ NumPrompts \in Nat /\ AllowedOutdated = 0
  BY ConstantsAssumption DEF ConstantsOK, WholeBatches
<1>2. PICK g \in Nat \ {0} : g = GlobalBatch
  BY GlobalBatchType
<1>3. PICK k \in Nat : g = NGen * k
  <2>1. g % NGen = 0
    BY <1>2 DEF WholeBatches
  <2>2. g = NGen * (g \div NGen) /\ g \div NGen \in Nat
    BY <1>1, <2>1
  <2>. QED BY <2>2
<1>4. (g + NGen - 1) \div NGen = k
  <2>2. NGen * k \in Nat /\ NGen * (k + 1) = NGen * k + NGen
    BY <1>1
  <2>3. g + NGen - 1 \in Nat /\ NGen * k <= g + NGen - 1 /\ g + NGen - 1 < NGen * (k + 1)
    BY <1>1, <1>3, <2>2
  <2>. QED BY <1>1, <2>3, DivIs
<1>5. k # 0
  BY <1>1, <1>3
<1>. QED BY <1>1, <1>2, <1>3, <1>4, <1>5 DEF WholeBatches, PromptsPerVersion

LEMMA AheadType ==
  ASSUME NEW waiting \in [Rollouts -> Seq(Versions)], NEW v \in Nat
  PROVE  /\ Ahead(waiting, v) \in [Rollouts -> Nat]
         /\ SumFunction(Ahead(waiting, v)) \in Nat
<1>1. \A r \in Rollouts : Len(waiting[r]) \in Nat
  BY LenProperties
<1>2. Ahead(waiting, v) \in [Rollouts -> Nat]
  BY <1>1 DEF Ahead
<1>3. IsFiniteSet(Rollouts)
  BY ConstantsAssumption DEF ConstantsOK
<1>. QED BY <1>2, <1>3, SumNat

\* Those that wait for a later version are at the rollout replicas; if they are all, nothing
\* else is.
LEMMA AheadHeld ==
  ASSUME NEW waiting \in [Rollouts -> Seq(Versions)], NEW queues \in [Rollouts -> Seq(Batches)],
         NEW v \in Nat
  PROVE  /\ SumFunction(Ahead(waiting, v)) <= SumFunction(HeldAt(waiting, queues))
         /\ SumFunction(HeldAt(waiting, queues)) <= SumFunction(Ahead(waiting, v)) =>
              \A r \in Rollouts : /\ waiting[r] # <<>> => waiting[r][1] > v
                                  /\ PromptsOf(queues[r]) = 0
<1> DEFINE e == Ahead(waiting, v)
           f == HeldAt(waiting, queues)
<1>1. /\ e \in [Rollouts -> Nat] /\ f \in [Rollouts -> Nat]
      /\ IsFiniteSet(Rollouts)
      /\ \A r \in Rollouts : f[r] = Len(waiting[r]) + PromptsOf(queues[r])
  BY AheadType, HeldType, ConstantsAssumption DEF ConstantsOK
<1>2. \A r \in Rollouts :
        /\ Len(waiting[r]) \in Nat /\ PromptsOf(queues[r]) \in Nat
        /\ waiting[r] # <<>> => Len(waiting[r]) > 0
        /\ e[r] = IF waiting[r] # <<>> /\ waiting[r][1] > v THEN Len(waiting[r]) ELSE 0
  <2>1. \A r \in Rollouts : PromptsOf(queues[r]) \in Nat
    BY PromptsOfQueue
  <2>2. \A r \in Rollouts : Len(waiting[r]) \in Nat /\ (waiting[r] # <<>> => Len(waiting[r]) > 0)
    <3>1. ASSUME NEW r \in Rollouts
          PROVE  Len(waiting[r]) \in Nat /\ (waiting[r] # <<>> => Len(waiting[r]) > 0)
      <4>1. waiting[r] \in Seq(Versions)
        OBVIOUS
      <4>. QED BY <4>1
    <3>. QED BY <3>1
  <2>. QED BY <2>1, <2>2 DEF Ahead
<1>. HIDE DEF e, f
<1>3. \A r \in Rollouts : e[r] <= f[r]
  BY <1>1, <1>2
<1>4. /\ SumFunction(e) <= SumFunction(f)
      /\ SumFunction(f) <= SumFunction(e) => \A r \in Rollouts : f[r] = e[r]
  BY <1>1, <1>3, SumBelow
<1>5. ASSUME NEW r \in Rollouts, e[r] = f[r]
      PROVE  (waiting[r] # <<>> => waiting[r][1] > v) /\ PromptsOf(queues[r]) = 0
  <2>1. PICK len \in Nat, prompts \in Nat :
          len = Len(waiting[r]) /\ prompts = PromptsOf(queues[r])
    BY <1>2
  <2>4. f[r] = len + prompts
    BY <1>1, <2>1
  <2>5. e[r] = len + prompts
    BY <1>5, <2>4
  <2>2. CASE waiting[r] # <<>> /\ waiting[r][1] > v
    <3>1. e[r] = len
      BY <1>2, <2>1, <2>2
    <3>2. prompts = 0
      BY <2>5, <3>1
    <3>3. PromptsOf(queues[r]) = 0
      BY <2>1, <3>2
    <3>. QED BY <2>2, <3>3
  <2>3. CASE ~(waiting[r] # <<>> /\ waiting[r][1] > v)
    <3>1. e[r] = 0
      BY <1>2, <2>3
    <3>2. len = 0 /\ prompts = 0
      BY <2>5, <3>1
    <3>3. waiting[r] = <<>>
      <4>1. waiting[r] \in Seq(Versions) /\ Len(waiting[r]) = 0
        BY <2>1, <3>2
      <4>. QED BY <4>1, EmptySeq
    <3>. QED BY <2>1, <3>2, <3>3
  <2>. QED BY <2>2, <2>3
<1>. QED BY <1>4, <1>5 DEF e, f

\* A replica's waiting prompts change.
LEMMA AheadDiffers ==
  ASSUME NEW waiting \in [Rollouts -> Seq(Versions)], NEW waits \in [Rollouts -> Seq(Versions)],
         NEW v \in Nat, NEW r \in Rollouts, \A s \in Rollouts \ {r} : waits[s] = waiting[s]
  PROVE  SumFunction(Ahead(waits, v))
           = SumFunction(Ahead(waiting, v)) - Ahead(waiting, v)[r] + Ahead(waits, v)[r]
<1> DEFINE f == Ahead(waiting, v)
           e == Ahead(waits, v)
<1>1. f \in [Rollouts -> Nat] /\ e \in [Rollouts -> Nat]
  BY AheadType
<1>2. \A s \in Rollouts \ {r} : f[s] = e[s]
  BY DEF Ahead
<1>. HIDE DEF f, e
<1>3. f \in [Rollouts -> Int] /\ e \in [Rollouts -> Int]
  BY <1>1
<1>4. SumFunction(e) = SumFunction(f) - f[r] + e[r]
  BY <1>2, <1>3, ShareDiffers
<1>. QED BY <1>4 DEF f, e

\* What is left of the samples, prompt by prompt.
LEMMA Accounts ==
  ASSUME IInv, WholeBatches, OnPolicyInv
  PROVE  /\ Fetched \in Nat /\ AtRollouts \in Nat /\ Len(rolloutBuffer) \in Nat
         /\ currentStep \in Nat
         /\ NGen * Fetched = currentStep * GlobalBatch + Len(rolloutBuffer) + NGen * AtRollouts
<1>1. /\ promptsLeft \in Nat /\ AtRollouts \in Nat /\ Len(rolloutBuffer) \in Nat
      /\ currentStep \in Nat /\ NGen \in Nat /\ NumPrompts \in Nat /\ GlobalBatch \in Nat
  BY CountTypes, Whole, GlobalBatchType
<1>2. promptsLeft <= NumPrompts /\ remainSamples = Left
      /\ remainSamples + currentStep * GlobalBatch = NumPrompts * NGen
  BY DEF OnPolicyInv, TagInv, KeptInv, NoneDropped
<1>3. Left = NGen * promptsLeft + (Len(rolloutBuffer) + NGen * AtRollouts)
  BY LeftIs
<1>4. NGen * Fetched = NumPrompts * NGen - NGen * promptsLeft
  <2>1. \A a \in Nat, b \in Nat, c \in Nat : c * (a - b) = a * c - c * b
    OBVIOUS
  <2>. QED BY <1>1, <2>1 DEF Fetched
<1>5. PICK a \in Nat, b \in Nat, c \in Nat, d \in Nat :
        /\ a = NGen * promptsLeft /\ b = NGen * AtRollouts
        /\ c = currentStep * GlobalBatch /\ d = NumPrompts * NGen
  <2>1. \A x \in Nat, y \in Nat : x * y \in Nat
    OBVIOUS
  <2>. QED BY <1>1, <2>1
<1>6. a + (Len(rolloutBuffer) + b) + c = d
  BY <1>1, <1>2, <1>3, <1>5
<1>7. d - a = c + Len(rolloutBuffer) + b
  BY <1>1, <1>5, <1>6
<1>8. Fetched \in Nat
  BY <1>1, <1>2 DEF Fetched
<1>. QED BY <1>1, <1>4, <1>5, <1>7, <1>8

\* The samples of this step: those in the buffer, and those under way to it.
LEMMA BatchIsBounded ==
  ASSUME IInv, WholeBatches, OnPolicyInv
  PROVE  /\ SumFunction(Ahead(promptQueue, currentStep)) \in Nat
         /\ Len(rolloutBuffer) + NGen * AtRollouts
              <= GlobalBatch + NGen * SumFunction(Ahead(promptQueue, currentStep))
<1>1. PICK step \in Nat, fetched \in Nat, at \in Nat, len \in Nat :
        /\ step = currentStep /\ fetched = Fetched /\ at = AtRollouts /\ len = Len(rolloutBuffer)
        /\ NGen * fetched = step * GlobalBatch + len + NGen * at
  BY Accounts
<1>2. PICK n \in Nat, p \in Nat, g \in Nat :
        n = NGen /\ p = PromptsPerVersion /\ g = GlobalBatch /\ n * p = g
  BY Whole, GlobalBatchType
<1>3. PICK ahead \in Nat : ahead = SumFunction(Ahead(promptQueue, currentStep))
  BY <1>1, CountTypes, AheadType
<1>4. fetched <= (step + 1) * p + ahead
  BY <1>1, <1>2, <1>3 DEF OnPolicyInv, AheadInv
<1>5. n * fetched <= n * ((step + 1) * p + ahead)
  <2>1. \A a \in Nat, b \in Nat, c \in Nat : a <= b => c * a <= c * b
    OBVIOUS
  <2>2. (step + 1) * p + ahead \in Nat
    OBVIOUS
  <2>. QED BY <1>4, <2>1, <2>2
<1>6. n * ((step + 1) * p + ahead) = step * g + g + n * ahead
  <2>1. \A a \in Nat, b \in Nat, c \in Nat, d \in Nat :
          c * ((a + 1) * b + d) = a * (c * b) + c * b + c * d
    OBVIOUS
  <2>. QED BY <1>2, <2>1
<1>7. step * g \in Nat /\ n * ahead \in Nat /\ n * at \in Nat
  OBVIOUS
<1>8. n * fetched = step * g + len + n * at
  BY <1>1, <1>2
<1>9. len + n * at <= g + n * ahead
  BY <1>5, <1>6, <1>7, <1>8
<1>. QED BY <1>1, <1>2, <1>3, <1>9

\* The tags before the one in use are full, those after it not given yet.
LEMMA ShareIs ==
  ASSUME WholeBatches, NEW t \in Nat, NEW d \in Nat,
         t * PromptsPerVersion <= d, d <= (t + 1) * PromptsPerVersion
  PROVE  /\ \A v \in Nat : v < t => Share(d, v) = PromptsPerVersion
         /\ \A v \in Nat : v > t => Share(d, v) = 0
         /\ Share(d, t) = d - t * PromptsPerVersion
<1>1. PICK p \in Nat \ {0} : p = PromptsPerVersion
  BY Whole
<1>2. \A a \in Nat, b \in Nat : a <= b => a * p <= b * p /\ a * p \in Nat
  OBVIOUS
<1>3. \A a \in Nat : (a + 1) * p = a * p + p /\ a * p \in Nat
  OBVIOUS
<1>4. ASSUME NEW v \in Nat, v < t PROVE Share(d, v) = p
  <2>1. (v + 1) * p <= t * p
    BY <1>2, <1>4
  <2>2. v * p + p <= d /\ v * p \in Nat
    BY <1>1, <1>3, <2>1
  <2>. QED BY <1>1, <2>2 DEF Share, Smaller
<1>5. ASSUME NEW v \in Nat, v > t PROVE Share(d, v) = 0
  <2>1. (t + 1) * p <= v * p
    BY <1>2, <1>5
  <2>2. d <= v * p
    BY <1>1, <1>3, <2>1
  <2>. QED BY <1>1, <2>2 DEF Share
<1>6. Share(d, t) = d - t * p
  <2>1. t * p \in Nat /\ t * p <= d /\ d <= t * p + p
    BY <1>1, <1>3
  <2>. QED BY <1>1, <2>1 DEF Share, Smaller
<1>. QED BY <1>1, <1>4, <1>5, <1>6

\* The tag in use is not yet full, has room for a batch, and is not before the versions that
\* the buffer is worth.
LEMMA TagInUse ==
  ASSUME IInv, WholeBatches, OnPolicyInv, NEW n \in Nat, n <= FetchBatch, promptsLeft > 0
  PROVE  \E t \in Nat : /\ t * PromptsPerVersion <= Fetched
                        /\ Fetched < (t + 1) * PromptsPerVersion
                        /\ Fetched + n <= (t + 1) * PromptsPerVersion
                        /\ currentStep <= BaseVersion /\ BaseVersion <= t /\ BaseVersion \in Nat
<1>1. PICK p \in Nat \ {0} : p = PromptsPerVersion
  BY Whole
<1>2. PICK f \in Nat \ {0} : f = FetchBatch /\ p % f = 0
  BY <1>1, Whole
<1>3. PICK d \in Nat : d = Fetched
  BY Accounts
<1>4. PICK t \in Nat : t * p <= d /\ d < (t + 1) * p
  BY DivBounds
<1>5. d + n <= (t + 1) * p
  <2>1. d % f = 0
    BY <1>2, <1>3, CountTypes DEF OnPolicyInv, TagInv
  <2>2. ((t + 1) * p) % f = 0 /\ (t + 1) * p \in Nat
    <3>1. PICK k \in Nat : p = f * k
      <4>1. p = f * (p \div f) /\ p \div f \in Nat
        BY <1>2
      <4>. QED BY <4>1
    <3>2. (t + 1) * p = f * ((t + 1) * k) /\ (t + 1) * k \in Nat
      <4>1. \A a \in Nat, b \in Nat, c \in Nat : a * (b * c) = b * (a * c) /\ a * c \in Nat
        OBVIOUS
      <4>. QED BY <3>1, <4>1
    <3>3. \A m \in Nat : (f * m) % f = 0 /\ f * m \in Nat
      OBVIOUS
    <3>. QED BY <3>2, <3>3
  <2>3. d + f <= (t + 1) * p
    BY <1>4, <2>1, <2>2, MultipleBelow
  <2>. QED BY <1>2, <2>2, <2>3
<1>6. PICK step \in Nat, len \in Nat, at \in Nat, m \in Nat, g \in Nat \ {0} :
        /\ step = currentStep /\ len = Len(rolloutBuffer) /\ at = AtRollouts /\ m = NGen
        /\ g = GlobalBatch /\ m * p = g /\ m * d = step * g + len + m * at
  BY <1>1, <1>3, Accounts, Whole, GlobalBatchType
<1>7. PICK q \in Nat : q = len \div g /\ q * g <= len
  BY DivBounds
<1>8. step + q <= t
  <2>1. SUFFICES ASSUME t + 1 <= step + q PROVE FALSE
    OBVIOUS
  <2>2. m \in Nat \ {0}
    BY <1>6, Whole
  <2>3. m * d < m * ((t + 1) * p) /\ m * ((t + 1) * p) = (t + 1) * g
    <3>1. \A a \in Nat, b \in Nat : a < b => m * a < m * b
      BY <2>2
    <3>2. m * ((t + 1) * p) = (t + 1) * (m * p)
      BY <2>2
    <3>. QED BY <1>4, <1>6, <3>1, <3>2
  <2>4. (t + 1) * g <= (step + q) * g /\ (step + q) * g = step * g + q * g
    <3>1. \A a \in Nat, b \in Nat : a <= b => a * g <= b * g
      OBVIOUS
    <3>. QED BY <2>1, <3>1
  <2>5. step * g \in Nat /\ q * g \in Nat /\ m * at \in Nat /\ (t + 1) * g \in Nat
    OBVIOUS
  <2>. QED BY <1>6, <1>7, <2>3, <2>4, <2>5
<1>9. BaseVersion = step + q
  BY <1>6, <1>7 DEF BaseVersion
<1>. QED BY <1>1, <1>3, <1>4, <1>5, <1>6, <1>8, <1>9

\* All prompts of a batch get that tag.
LEMMA TagsAreSame ==
  ASSUME IInv, WholeBatches, OnPolicyInv, NEW n \in Nat, n <= FetchBatch, promptsLeft > 0,
         NEW tags \in TagsFor(n)
  PROVE  \E t \in Nat : /\ \A i \in 1..n : tags[i] = t
                        /\ currentStep <= t /\ Fetched + n <= (t + 1) * PromptsPerVersion
                        /\ \A v \in Versions : TagCount(tags, n, v) = Share(Fetched + n, v)
<1>1. PICK t \in Nat : /\ t * PromptsPerVersion <= Fetched
                       /\ Fetched < (t + 1) * PromptsPerVersion
                       /\ Fetched + n <= (t + 1) * PromptsPerVersion
                       /\ currentStep <= BaseVersion /\ BaseVersion <= t /\ BaseVersion \in Nat
  BY TagInUse
<1>2. PICK p \in Nat \ {0} : p = PromptsPerVersion
  BY Whole
<1>3. PICK d \in Nat : d = Fetched
  BY Accounts
<1>4. PICK tp \in Nat : tp = t * p /\ (t + 1) * p = tp + p
  OBVIOUS
<1>5. /\ \A v \in Nat : v < t => Share(d, v) = p
      /\ \A v \in Nat : v > t => Share(d, v) = 0
      /\ Share(d, t) = d - tp
      /\ tp <= d /\ d + n <= tp + p
  BY <1>1, <1>2, <1>3, <1>4, ShareIs
<1>6. /\ \A v \in Nat : v < t => Share(d + n, v) = p
      /\ \A v \in Nat : v > t => Share(d + n, v) = 0
      /\ Share(d + n, t) = d + n - tp
  <2>1. t * PromptsPerVersion <= d + n /\ d + n <= (t + 1) * PromptsPerVersion /\ d + n \in Nat
    BY <1>2, <1>4, <1>5
  <2>. QED BY <1>2, <1>4, <2>1, ShareIs
<1>7. \A v \in Versions : v \in Nat /\ versionCount[v] = Share(d, v)
  BY <1>3, ConstantsAssumption DEF OnPolicyInv, TagInv, Versions, ConstantsOK
<1>8. tags \in [1..n -> Versions] /\ ~Dapo
      /\ \A i \in 1..n :
           LET from == IF i = 1 THEN BaseVersion ELSE tags[i - 1]
           IN  /\ tags[i] >= from
               /\ TagCount(tags, i - 1, tags[i]) < PromptsPerVersion
               /\ \A v \in from..(tags[i] - 1) : TagCount(tags, i - 1, v) >= PromptsPerVersion
  <2>1. tags \in [1..n -> Versions] /\ Tagging(tags) /\ ~Dapo
    BY Whole DEF TagsFor
  <2>. QED BY <2>1 DEF Tagging
<1>9. \A i \in 1..n : tags[i] \in Versions /\ tags[i] \in Nat
  BY <1>7, <1>8
\* Up to place k all prompts have tag t: they count there and nowhere else.
<1>10. ASSUME NEW k \in 0..n, \A j \in 1..k : tags[j] = t
       PROVE  \A v \in Versions : TagCount(tags, k, v) = versionCount[v] + (IF v = t THEN k ELSE 0)
  <2>1. ASSUME NEW v \in Versions, v = t PROVE Cardinality({j \in 1..k : tags[j] = v}) = k
    <3>1. {j \in 1..k : tags[j] = v} = 1..k
      BY <1>10, <2>1
    <3>2. k \in Nat
      OBVIOUS
    <3>3. Cardinality(1..k) = k
      BY <3>2, FS_Interval
    <3>. QED BY <3>1, <3>3
  <2>2. ASSUME NEW v \in Versions, v # t PROVE Cardinality({j \in 1..k : tags[j] = v}) = 0
    <3>1. {j \in 1..k : tags[j] = v} = {}
      BY <1>10, <2>2
    <3>. QED BY <3>1, FS_EmptySet
  <2>. QED BY <2>1, <2>2 DEF TagCount
<1>11. ASSUME NEW i \in 1..n, \A j \in 1..(i - 1) : tags[j] = t
       PROVE  tags[i] = t
  <2>1. i - 1 \in 0..n /\ i \in Nat
    OBVIOUS
  <2>2. \A v \in Versions :
          TagCount(tags, i - 1, v) = Share(d, v) + (IF v = t THEN i - 1 ELSE 0)
    BY <1>7, <1>10, <1>11, <2>1
  <2>3. PICK from \in Nat : /\ from = (IF i = 1 THEN BaseVersion ELSE tags[i - 1]) /\ from <= t
                            /\ i # 1 => from = t
    <3>1. CASE i = 1
      BY <1>1, <3>1
    <3>2. CASE i # 1
      <4>1. i - 1 \in 1..(i - 1)
        BY <2>1, <3>2
      <4>2. tags[i - 1] = t
        BY <1>11, <4>1
      <4>. QED BY <3>2, <4>2
    <3>. QED BY <3>1, <3>2
  <2>4. /\ tags[i] >= from
        /\ TagCount(tags, i - 1, tags[i]) < p
        /\ \A v \in from..(tags[i] - 1) : TagCount(tags, i - 1, v) >= p
    BY <1>2, <1>8, <2>3
  <2>5. PICK tag \in Nat : tag = tags[i] /\ tag \in Versions
    BY <1>9
  <2>6. ~(tag < t)
    <3>1. SUFFICES ASSUME tag < t PROVE FALSE
      OBVIOUS
    <3>2. TagCount(tags, i - 1, tag) = p + 0
      BY <1>5, <2>2, <2>5, <3>1
    <3>. QED BY <2>4, <2>5, <3>2
  <2>7. ~(tag > t)
    <3>1. SUFFICES ASSUME tag > t PROVE FALSE
      OBVIOUS
    <3>2. t \in from..(tag - 1) /\ t \in Versions
      BY <2>3, <2>5, <3>1, ConstantsAssumption DEF Versions, ConstantsOK
    <3>3. TagCount(tags, i - 1, t) = d - tp + (i - 1)
      BY <1>5, <2>2, <3>2
    <3>4. d - tp + (i - 1) < p
      BY <1>5, <2>1
    <3>5. TagCount(tags, i - 1, t) >= p
      BY <2>4, <2>5, <3>2
    <3>. QED BY <1>5, <3>3, <3>4, <3>5
  <2>. QED BY <2>5, <2>6, <2>7
<1>12. \A i \in 1..n : tags[i] = t
  <2>1. SUFFICES ASSUME {i \in 1..n : tags[i] # t} # {} PROVE FALSE
    OBVIOUS
  <2>2. {i \in 1..n : tags[i] # t} \subseteq Nat
    OBVIOUS
  <2>3. PICK i \in {j \in 1..n : tags[j] # t} : \A k \in {j \in 1..n : tags[j] # t} : i <= k
    BY <2>1, <2>2, LeastElement
  <2>4. \A j \in 1..(i - 1) : tags[j] = t
    <3>1. ASSUME NEW j \in 1..(i - 1) PROVE j \in 1..n /\ ~(i <= j)
      BY <2>3
    <3>. QED BY <2>3, <3>1
  <2>. QED BY <1>11, <2>3, <2>4
<1>13. \A v \in Versions : TagCount(tags, n, v) = Share(d + n, v)
  <2>1. \A v \in Versions : TagCount(tags, n, v) = Share(d, v) + (IF v = t THEN n ELSE 0)
    <3>1. n \in 0..n
      OBVIOUS
    <3>. QED BY <1>7, <1>10, <1>12, <3>1
  <2>2. ASSUME NEW v \in Versions PROVE TagCount(tags, n, v) = Share(d + n, v)
    <3>1. v \in Nat
      BY <1>7
    <3>2. CASE v = t
      BY <1>5, <1>6, <2>1, <3>2
    <3>3. CASE v < t
      BY <1>5, <1>6, <2>1, <3>1, <3>3
    <3>4. CASE v > t
      BY <1>5, <1>6, <2>1, <3>1, <3>4
    <3>. QED BY <3>1, <3>2, <3>3, <3>4
  <2>. QED BY <2>2
<1>14. currentStep <= t
  <2>1. currentStep \in Nat
    BY CountTypes
  <2>. QED BY <1>1, <2>1
<1>15. \A v \in Versions : TagCount(tags, n, v) = Share(Fetched + n, v)
  BY <1>3, <1>13
<1>16. Fetched + n <= (t + 1) * PromptsPerVersion
  BY <1>1
<1>. QED BY <1>12, <1>14, <1>15, <1>16

LEMMA OnPolicyNext ==
  ASSUME TagInv(promptsLeft', NumPrompts - promptsLeft', versionCount'),
         remainSamples' = Left', remainSamples' + currentStep' * GlobalBatch = NumPrompts * NGen,
         Waits(promptQueue', currentStep'), UnderWay(rewardQueue', currentStep'),
         AheadInv(promptQueue', currentStep', NumPrompts - promptsLeft'),
         DoneInv(onPolicyDone', rewardQueue', weightVersion', rolloutCmds', currentStep')
  PROVE  OnPolicyInv'
BY DEF OnPolicyInv, KeptInv, NoneDropped, Fetched

\* Samples are generated with the weights of the step they are for.
LEMMA GenerateCurrent ==
  ASSUME IInv, OnPolicyInv, NEW r \in Rollouts, NEW n \in Nat \ {0}, Generate(r, n),
         NEW tag \in Nat, currentStep <= tag, tag <= weightVersion[r]
  PROVE  tag = currentStep /\ ~onPolicyDone /\ UnderWay(rewardQueue', currentStep)
<1> DEFINE batch == [version |-> weightVersion[r], prompts |-> n]
<1>1. /\ weightVersion[r] \in Nat /\ currentStep \in Nat /\ weightVersion[r] <= currentStep
  BY DEF IInv, TypeOK, VersionNotAhead
<1>2. tag = currentStep /\ weightVersion[r] = currentStep
  BY <1>1
<1>3. ~onPolicyDone
  BY <1>1, <1>2 DEF OnPolicyInv, DoneInv
<1>4. Current(batch, currentStep) /\ batch \in Batches
  BY <1>1, <1>2 DEF Current, Batches
<1>5. /\ rewardQueue \in [Rollouts -> Seq(Batches)] /\ rewardQueue[r] \in Seq(Batches)
      /\ rewardQueue' = [rewardQueue EXCEPT ![r] = Append(rewardQueue[r], batch)]
  BY DEF IInv, TypeOK, Generate
<1>6. \A s \in Rollouts : \A i \in 1..Len(rewardQueue[s]) : Current(rewardQueue[s][i], currentStep)
  BY DEF OnPolicyInv, UnderWay
<1>. HIDE DEF batch
<1>7. PICK queue : queue = Append(rewardQueue[r], batch)
  OBVIOUS
<1>8. \A i \in 1..Len(queue) : queue[i] \in {batch} \cup {rewardQueue[r][j] : j \in 1..Len(rewardQueue[r])}
  BY <1>4, <1>5, <1>7, AppendProperties
<1>9. \A i \in 1..Len(queue) : Current(queue[i], currentStep)
  BY <1>4, <1>6, <1>8
<1>10. /\ rewardQueue'[r] = queue
       /\ \A s \in Rollouts \ {r} : rewardQueue'[s] = rewardQueue[s]
  BY <1>5, <1>7
<1>11. UnderWay(rewardQueue', currentStep)
  BY <1>6, <1>9, <1>10 DEF UnderWay
<1>. QED BY <1>2, <1>3, <1>11

LEMMA FetchOnPolicy ==
  ASSUME IInv, WholeBatches, OnPolicyInv, NEW r \in Rollouts, FetchPrompts(r)
  PROVE  OnPolicyInv'
<1> DEFINE n == Smaller(FetchBatch, promptsLeft)
<1>1. /\ n \in Nat \ {0} /\ n <= FetchBatch /\ n <= promptsLeft /\ (n = FetchBatch \/ n = promptsLeft)
      /\ promptsLeft \in Nat /\ promptsLeft > 0 /\ FetchBatch \in Nat \ {0}
  <2>1. promptsLeft \in Nat /\ FetchBatch \in Nat \ {0}
    BY CountTypes, Whole
  <2>2. promptsLeft > 0
    BY DEF FetchPrompts
  <2>. QED BY <2>1, <2>2 DEF Smaller
<1>2. PICK tags \in TagsFor(n) :
        /\ promptsLeft' = promptsLeft - n
        /\ versionCount' = [v \in Versions |-> TagCount(tags, n, v)]
        /\ \/ VersionAllowed(r, tags) /\ Generate(r, n) /\ UNCHANGED promptQueue
           \/ promptQueue' = [promptQueue EXCEPT ![r] = tags] /\ UNCHANGED rewardQueue
  BY DEF FetchPrompts
<1>. HIDE DEF n
<1>3. PICK t \in Nat : /\ \A i \in 1..n : tags[i] = t
                       /\ currentStep <= t /\ Fetched + n <= (t + 1) * PromptsPerVersion
                       /\ \A v \in Versions : TagCount(tags, n, v) = Share(Fetched + n, v)
  BY <1>1, TagsAreSame
<1>4. tags \in Seq(Versions) /\ Len(tags) = n /\ tags # <<>> /\ tags[1] = t
  <2>1. tags \in [1..n -> Versions]
    BY DEF TagsFor
  <2>2. tags \in Seq(Versions) /\ Len(tags) = n
    BY <1>1, <2>1
  <2>3. 1 \in 1..n /\ n # 0
    BY <1>1
  <2>. QED BY <1>3, <2>2, <2>3, EmptySeq
<1>5. PICK d \in Nat, c \in Nat, p \in Nat \ {0} :
        /\ d = Fetched /\ c = currentStep /\ p = PromptsPerVersion
        /\ NumPrompts - promptsLeft' = d + n
        /\ NumPrompts \in Nat
  <2>1. Fetched \in Nat /\ currentStep \in Nat /\ PromptsPerVersion \in Nat \ {0} /\ NumPrompts \in Nat
    BY Accounts, Whole
  <2>. QED BY <1>1, <1>2, <2>1 DEF Fetched
<1>6. d + n <= (t + 1) * p /\ c <= t
  BY <1>3, <1>5
<1>7. UNCHANGED <<currentStep, remainSamples, Left>>
  BY FetchLeft
<1>8. /\ UNCHANGED <<onPolicyDone, weightVersion, rolloutCmds>>
      /\ promptQueue \in [Rollouts -> Seq(Versions)] /\ promptQueue[r] = <<>>
  BY CountTypes DEF FetchPrompts, FetchGuard
<1>9. TagInv(promptsLeft', d + n, versionCount')
  <2>1. promptsLeft' \in Nat /\ promptsLeft' <= NumPrompts
    BY <1>1, <1>2, <1>5
  <2>2. promptsLeft' = 0 \/ (d + n) % FetchBatch = 0
    <3>1. CASE n = promptsLeft
      BY <1>1, <1>2, <3>1
    <3>2. CASE n = FetchBatch
      <4>1. d % FetchBatch = 0
        BY <1>1, <1>5 DEF OnPolicyInv, TagInv
      <4>. QED BY <1>1, <3>2, <4>1, NextMultiple
    <3>. QED BY <1>1, <3>1, <3>2
  <2>3. \A v \in Versions : versionCount'[v] = Share(d + n, v)
    BY <1>2, <1>3, <1>5
  <2>. QED BY <2>1, <2>2, <2>3 DEF TagInv
<1>10. /\ remainSamples' = Left' /\ remainSamples' + currentStep' * GlobalBatch = NumPrompts * NGen
  BY <1>7 DEF OnPolicyInv, KeptInv, NoneDropped
<1>11. /\ Waits(promptQueue, c) /\ UnderWay(rewardQueue, c) /\ AheadInv(promptQueue, c, d)
       /\ DoneInv(onPolicyDone, rewardQueue, weightVersion, rolloutCmds, c)
  BY <1>5 DEF OnPolicyInv
<1>12. \A v \in Nat : v >= t => d + n <= (v + 1) * p
  <2>1. \A a \in Nat, b \in Nat : a <= b => (a + 1) * p <= (b + 1) * p /\ (a + 1) * p \in Nat
    OBVIOUS
  <2>2. ASSUME NEW v \in Nat, v >= t PROVE d + n <= (v + 1) * p
    <3>1. (t + 1) * p <= (v + 1) * p /\ (t + 1) * p \in Nat /\ (v + 1) * p \in Nat
      BY <2>1, <2>2
    <3>. QED BY <1>1, <1>6, <3>1
  <2>. QED BY <2>2
<1>13. CASE VersionAllowed(r, tags) /\ Generate(r, n) /\ UNCHANGED promptQueue
  <2>1. t <= weightVersion[r]
    <3>1. weightVersion[r] \in Nat /\ AllowedOutdated = 0
      BY Whole DEF IInv, TypeOK
    <3>. QED BY <1>4, <1>13, <3>1 DEF VersionAllowed
  <2>2. t = c /\ ~onPolicyDone /\ UnderWay(rewardQueue', c)
    BY <1>1, <1>5, <1>6, <1>13, <2>1, GenerateCurrent
  <2>3. \A v \in Nat : v >= c => d + n <= (v + 1) * p + SumFunction(Ahead(promptQueue, v))
    <3>1. ASSUME NEW v \in Nat, v >= c
          PROVE  d + n <= (v + 1) * p + SumFunction(Ahead(promptQueue, v))
      <4>1. SumFunction(Ahead(promptQueue, v)) \in Nat
        BY <1>8, AheadType
      <4>2. d + n <= (v + 1) * p /\ (v + 1) * p \in Nat
        BY <1>12, <2>2, <3>1
      <4>. QED BY <1>1, <4>1, <4>2
    <3>. QED BY <3>1
  <2>4. AheadInv(promptQueue', c, d + n)
    BY <1>5, <1>13, <2>3 DEF AheadInv
  <2>5. DoneInv(onPolicyDone', rewardQueue', weightVersion', rolloutCmds', c)
    BY <1>8, <2>2 DEF DoneInv
  <2>6. Waits(promptQueue', c)
    BY <1>11, <1>13
  <2>. QED BY <1>5, <1>7, <1>9, <1>10, <2>2, <2>4, <2>5, <2>6, OnPolicyNext
<1>14. CASE promptQueue' = [promptQueue EXCEPT ![r] = tags] /\ UNCHANGED rewardQueue
  <2>1. /\ promptQueue' \in [Rollouts -> Seq(Versions)] /\ promptQueue'[r] = tags
        /\ \A s \in Rollouts \ {r} : promptQueue'[s] = promptQueue[s]
    BY <1>4, <1>8, <1>14
  <2>2. Waits(promptQueue', c)
    BY <1>4, <1>6, <1>11, <2>1 DEF Waits
  <2>3. PICK waits \in [Rollouts -> Seq(Versions)] : waits = promptQueue'
    BY <2>1
  <2>4. ASSUME NEW v \in Nat, v >= c
        PROVE  d + n <= (v + 1) * p + SumFunction(Ahead(waits, v))
    <3>1. SumFunction(Ahead(waits, v))
            = SumFunction(Ahead(promptQueue, v)) - Ahead(promptQueue, v)[r] + Ahead(waits, v)[r]
      BY <1>8, <2>1, <2>3, AheadDiffers
    <3>2. Ahead(promptQueue, v)[r] = 0 /\ Ahead(waits, v)[r] = IF t > v THEN n ELSE 0
      BY <1>4, <1>8, <2>1, <2>3 DEF Ahead
    <3>3. PICK sum \in Nat : sum = SumFunction(Ahead(promptQueue, v))
      BY <1>8, AheadType
    <3>4. (v + 1) * p \in Nat
      OBVIOUS
    <3>5. CASE t > v
      <4>1. d <= (v + 1) * p + sum
        BY <1>5, <1>11, <2>4, <3>3 DEF AheadInv
      <4>. QED BY <1>1, <3>1, <3>2, <3>3, <3>4, <3>5, <4>1
    <3>6. CASE v >= t
      BY <1>1, <1>12, <3>1, <3>2, <3>3, <3>4, <3>6
    <3>. QED BY <3>5, <3>6
  <2>5. AheadInv(promptQueue', c, d + n)
    BY <1>5, <2>3, <2>4 DEF AheadInv
  <2>6. DoneInv(onPolicyDone', rewardQueue', weightVersion', rolloutCmds', c)
    BY <1>8, <1>11, <1>14
  <2>7. UnderWay(rewardQueue', c)
    BY <1>11, <1>14
  <2>. QED BY <1>5, <1>7, <1>9, <1>10, <2>2, <2>5, <2>6, <2>7, OnPolicyNext
<1>. QED BY <1>2, <1>13, <1>14

LEMMA GenerateHeldOnPolicy ==
  ASSUME IInv, WholeBatches, OnPolicyInv, NEW r \in Rollouts, GenerateHeld(r)
  PROVE  OnPolicyInv'
<1> DEFINE n == Len(promptQueue[r])
<1>1. /\ promptQueue \in [Rollouts -> Seq(Versions)] /\ promptQueue[r] \in Seq(Versions)
      /\ promptQueue[r] # <<>> /\ Generate(r, n) /\ VersionAllowed(r, promptQueue[r])
      /\ promptQueue' = [promptQueue EXCEPT ![r] = <<>>]
      /\ UNCHANGED <<promptsLeft, versionCount, currentStep, remainSamples, rolloutBuffer,
                     onPolicyDone, weightVersion, rolloutCmds>>
  BY CountTypes DEF GenerateHeld, HeldIsAllowed, dataVars, trainVars
<1>2. n \in Nat \ {0} /\ promptQueue[r][1] \in Nat
  <2>1. n \in Nat \ {0}
    BY <1>1, EmptySeq
  <2>2. promptQueue[r][1] \in Versions
    BY <1>1, <2>1, ElementOfSeq
  <2>. QED BY <2>1, <2>2, ConstantsAssumption DEF Versions, ConstantsOK
<1>. HIDE DEF n
<1>3. PICK t \in Nat, c \in Nat, d \in Nat :
        t = promptQueue[r][1] /\ c = currentStep /\ d = Fetched /\ c <= t /\ t <= weightVersion[r]
  <2>1. weightVersion[r] \in Nat /\ AllowedOutdated = 0 /\ currentStep \in Nat /\ Fetched \in Nat
    BY Whole, Accounts DEF IInv, TypeOK
  <2>2. promptQueue[r][1] >= currentStep
    BY <1>1 DEF OnPolicyInv, Waits
  <2>. QED BY <1>1, <1>2, <2>1, <2>2 DEF VersionAllowed
<1>4. t = c /\ ~onPolicyDone /\ UnderWay(rewardQueue', c)
  BY <1>1, <1>2, <1>3, GenerateCurrent
<1>5. Left' = Left
  BY <1>1, HeldCounts, LeftIs
<1>6. /\ promptQueue' \in [Rollouts -> Seq(Versions)] /\ promptQueue'[r] = <<>>
      /\ \A s \in Rollouts \ {r} : promptQueue'[s] = promptQueue[s]
  BY <1>1
<1>7. Waits(promptQueue', c)
  BY <1>3, <1>6 DEF OnPolicyInv, Waits
<1>8. PICK waits \in [Rollouts -> Seq(Versions)] : waits = promptQueue'
  BY <1>6
<1>9. ASSUME NEW v \in Nat, v >= c
      PROVE  d <= (v + 1) * PromptsPerVersion + SumFunction(Ahead(waits, v))
  <2>1. SumFunction(Ahead(waits, v))
          = SumFunction(Ahead(promptQueue, v)) - Ahead(promptQueue, v)[r] + Ahead(waits, v)[r]
    <3>1. \A s \in Rollouts \ {r} : waits[s] = promptQueue[s]
      BY <1>6, <1>8
    <3>2. promptQueue \in [Rollouts -> Seq(Versions)]
      BY <1>1
    <3>. QED BY <3>1, <3>2, AheadDiffers
  <2>2. Ahead(promptQueue, v)[r] = 0 /\ Ahead(waits, v)[r] = 0
    <3>1. ~(promptQueue[r][1] > v) /\ waits[r] = <<>>
      BY <1>3, <1>4, <1>6, <1>8, <1>9
    <3>. QED BY <3>1 DEF Ahead
  <2>3. SumFunction(Ahead(promptQueue, v)) \in Nat
    BY <1>1, AheadType
  <2>4. SumFunction(Ahead(waits, v)) = SumFunction(Ahead(promptQueue, v))
    BY <2>1, <2>2, <2>3
  <2>. QED BY <1>3, <1>9, <2>4 DEF OnPolicyInv, AheadInv
<1>10. AheadInv(promptQueue', c, d)
  BY <1>8, <1>9 DEF AheadInv
<1>11. DoneInv(onPolicyDone', rewardQueue', weightVersion', rolloutCmds', c)
  BY <1>1, <1>4 DEF DoneInv
<1>12. /\ remainSamples' = Left' /\ remainSamples' + currentStep' * GlobalBatch = NumPrompts * NGen
  BY <1>1, <1>5 DEF OnPolicyInv, KeptInv, NoneDropped
<1>13. TagInv(promptsLeft', NumPrompts - promptsLeft', versionCount') /\ d = NumPrompts - promptsLeft'
  BY <1>1, <1>3 DEF OnPolicyInv, Fetched
<1>. QED BY <1>1, <1>3, <1>4, <1>7, <1>10, <1>11, <1>12, <1>13, OnPolicyNext

\* A step starts only on a whole batch, of which nothing is under way any more.
LEMMA StartsHeld ==
  ASSUME WholeBatches, NEW len \in Nat, NEW held \in Nat, NEW ahead \in Nat,
         len >= GlobalBatch, len + NGen * held <= GlobalBatch + NGen * ahead
  PROVE  held <= ahead
<1>1. PICK n \in Nat \ {0}, g \in Nat : n = NGen /\ g = GlobalBatch
  BY Whole, GlobalBatchType
<1>2. \A a \in Nat, b \in Nat : a < b => n * a < n * b
  OBVIOUS
<1>3. n * held \in Nat /\ n * ahead \in Nat
  OBVIOUS
<1>4. n * held <= n * ahead
  BY <1>1, <1>3
<1>. QED BY <1>2, <1>3, <1>4

LEMMA Advance ==
  ASSUME IInv, WholeBatches, OnPolicyInv, NEW step \in Nat,
         NEW queues \in [Rollouts -> Seq(Batches)], UnderWay(queues, currentStep),
         \/ step = currentStep
         \/ /\ step = currentStep + 1
            /\ SumFunction(HeldAt(promptQueue, queues)) <= SumFunction(Ahead(promptQueue, currentStep))
  PROVE  /\ Waits(promptQueue, step) /\ UnderWay(queues, step)
         /\ AheadInv(promptQueue, step, Fetched)
         /\ step # currentStep => \A r \in Rollouts : queues[r] = <<>>
<1>1. /\ Waits(promptQueue, currentStep) /\ AheadInv(promptQueue, currentStep, Fetched)
      /\ promptQueue \in [Rollouts -> Seq(Versions)] /\ currentStep \in Nat
  BY CountTypes DEF OnPolicyInv
<1>2. CASE step = currentStep
  BY <1>1, <1>2
<1>3. CASE step # currentStep
  <2>1. /\ step = currentStep + 1
        /\ \A r \in Rollouts : /\ promptQueue[r] # <<>> => promptQueue[r][1] > currentStep
                               /\ PromptsOf(queues[r]) = 0
    BY <1>1, <1>3, AheadHeld
  <2>2. ASSUME NEW r \in Rollouts PROVE queues[r] = <<>>
    <3>1. SUFFICES ASSUME queues[r] # <<>> PROVE FALSE
      OBVIOUS
    <3>2. /\ queues[r] \in Seq(Batches) /\ Head(queues[r]) \in Batches
          /\ Tail(queues[r]) \in Seq(Batches)
          /\ PromptsOf(queues[r]) = Head(queues[r]).prompts + PromptsOf(Tail(queues[r]))
      BY <3>1, PromptsOfTail
    <3>3. Head(queues[r]) = queues[r][1] /\ 1 \in 1..Len(queues[r])
      BY <3>1, <3>2, EmptySeq, HeadTailProperties
    <3>4. Head(queues[r]).prompts > 0 /\ Head(queues[r]).prompts \in Nat
      BY <3>2, <3>3 DEF UnderWay, Current, Batches
    <3>5. PromptsOf(Tail(queues[r])) \in Nat
      BY <3>2, PromptsOfQueue
    <3>. QED BY <2>1, <3>2, <3>4, <3>5
  <2>3. UnderWay(queues, step)
    <3>1. ASSUME NEW r \in Rollouts PROVE 1..Len(queues[r]) = {}
      BY <2>2
    <3>. QED BY <3>1 DEF UnderWay
  <2>4. Waits(promptQueue, step)
    <3>1. ASSUME NEW r \in Rollouts, promptQueue[r] # <<>> PROVE promptQueue[r][1] >= step
      <4>1. promptQueue[r] \in Seq(Versions) /\ 1 \in 1..Len(promptQueue[r])
        BY <1>1, <3>1, EmptySeq
      <4>2. promptQueue[r][1] \in Versions
        BY <4>1, ElementOfSeq
      <4>3. promptQueue[r][1] \in Nat
        BY <4>2, ConstantsAssumption DEF Versions, ConstantsOK
      <4>. QED BY <1>1, <2>1, <3>1, <4>3
    <3>. QED BY <3>1 DEF Waits
  <2>5. AheadInv(promptQueue, step, Fetched)
    <3>1. \A v \in Nat : v >= step => v >= currentStep
      BY <1>1, <2>1
    <3>. QED BY <1>1, <3>1 DEF AheadInv
  <2>. QED BY <2>2, <2>3, <2>4, <2>5
<1>. QED BY <1>2, <1>3

\* Nothing is dropped.
LEMMA FlowKeeps ==
  ASSUME IInv, OnPolicyInv, NEW taken \in Nat, Flow(0, 0, taken)
  PROVE  /\ remainSamples' = Left'
         /\ remainSamples' + currentStep' * GlobalBatch = NumPrompts * NGen
<1>1. PICK made \in Nat : made = currentStep * GlobalBatch
  <2>1. currentStep \in Nat /\ GlobalBatch \in Nat
    BY CountTypes, GlobalBatchType
  <2>2. \A a \in Nat, b \in Nat : a * b \in Nat
    OBVIOUS
  <2>. QED BY <2>1, <2>2
<1>2. remainSamples = Left /\ remainSamples + made = NumPrompts * NGen /\ remainSamples \in Int
  BY <1>1, CountTypes DEF OnPolicyInv, KeptInv, NoneDropped
<1>3. /\ Left' = Left - 0 - taken /\ remainSamples' = remainSamples - 0 + 0 - taken
      /\ currentStep' * GlobalBatch = made + taken
  BY <1>1 DEF Flow
<1>. QED BY <1>2, <1>3

\* The steps that hand out no prompts.
LEMMA MovesOnPolicy ==
  ASSUME IInv, IInv', WholeBatches, OnPolicyInv,
         UNCHANGED <<promptsLeft, versionCount, promptQueue>>,
         UnderWay(rewardQueue', currentStep),
         NEW taken \in Nat, Flow(0, 0, taken),
         currentStep' = currentStep \/ AtRollouts' <= SumFunction(Ahead(promptQueue, currentStep)),
         (currentStep' # currentStep => \A r \in Rollouts : rewardQueue'[r] = <<>>)
            => DoneInv(onPolicyDone', rewardQueue', weightVersion', rolloutCmds', currentStep')
  PROVE  OnPolicyInv'
<1>1. PICK step \in Nat, queues \in [Rollouts -> Seq(Batches)] :
        step = currentStep' /\ queues = rewardQueue'
  BY DEF IInv, TypeOK
<1>2. \/ step = currentStep
      \/ /\ step = currentStep + 1
         /\ SumFunction(HeldAt(promptQueue, queues)) <= SumFunction(Ahead(promptQueue, currentStep))
  <2>1. currentStep' # currentStep => currentStep' = currentStep + 1
    BY DEF Flow, MovesOn
  <2>2. AtRollouts' = SumFunction(HeldAt(promptQueue, queues))
    BY <1>1 DEF AtRollouts
  <2>. QED BY <1>1, <2>1, <2>2
<1>3. /\ Waits(promptQueue, step) /\ UnderWay(queues, step)
      /\ AheadInv(promptQueue, step, Fetched)
      /\ step # currentStep => \A r \in Rollouts : queues[r] = <<>>
  <2>1. UnderWay(queues, currentStep)
    BY <1>1
  <2>. QED BY <1>2, <2>1, Advance
<1>4. TagInv(promptsLeft', NumPrompts - promptsLeft', versionCount') /\ Fetched = NumPrompts - promptsLeft'
  BY DEF OnPolicyInv, Fetched
<1>. QED BY <1>1, <1>3, <1>4, FlowKeeps, OnPolicyNext

\* Nothing that the invariant is about changes, but for the weights.
LEMMA OtherOnPolicy ==
  ASSUME IInv, OnPolicyInv,
         UNCHANGED <<promptsLeft, versionCount, promptQueue, rewardQueue, currentStep,
                     remainSamples, rolloutBuffer>>,
         DoneInv(onPolicyDone', rewardQueue, weightVersion', rolloutCmds', currentStep)
  PROVE  OnPolicyInv'
<1>1. Left' = Left
  BY LeftIs DEF AtRollouts
<1>2. TagInv(promptsLeft', NumPrompts - promptsLeft', versionCount') /\ Fetched = NumPrompts - promptsLeft'
  BY DEF OnPolicyInv, Fetched
<1>3. remainSamples' = Left' /\ remainSamples' + currentStep' * GlobalBatch = NumPrompts * NGen
  BY <1>1 DEF OnPolicyInv, KeptInv, NoneDropped
<1>4. /\ Waits(promptQueue', currentStep') /\ UnderWay(rewardQueue', currentStep')
      /\ AheadInv(promptQueue', currentStep', NumPrompts - promptsLeft')
      /\ DoneInv(onPolicyDone', rewardQueue', weightVersion', rolloutCmds', currentStep')
  BY <1>2 DEF OnPolicyInv
<1>. QED BY <1>2, <1>3, <1>4, OnPolicyNext

\* A trigger attempt on the samples that are there.
LEMMA TriggerOnPolicy ==
  ASSUME IInv, IInv', WholeBatches, OnPolicyInv,
         UNCHANGED <<promptsLeft, versionCount, promptQueue, rewardQueue, weightVersion>>,
         NEW st, NEW cmds \in [Policies -> Seq(Commands)], NEW val,
         TryTrigger(st, rolloutBuffer, remainSamples, cmds, val),
         ~onPolicyDone' \/ (onPolicyDone /\ UNCHANGED rolloutCmds)
  PROVE  OnPolicyInv'
<1>1. PICK taken \in Nat : Flow(0, 0, taken)
  BY TriggerLeft
<1>2. rolloutBuffer \in Seq(Nat) /\ remainSamples \in Int /\ currentStep \in Nat
  BY CountTypes
<1>3. \/ currentStep' = currentStep
      \/ currentStep' = currentStep + 1 /\ Len(rolloutBuffer) >= GlobalBatch
  BY <1>2, TriggerCounts
<1>4. currentStep' = currentStep \/ AtRollouts' <= SumFunction(Ahead(promptQueue, currentStep))
  <2>1. PICK len \in Nat, held \in Nat, ahead \in Nat :
          /\ len = Len(rolloutBuffer) /\ held = AtRollouts
          /\ ahead = SumFunction(Ahead(promptQueue, currentStep))
          /\ len + NGen * held <= GlobalBatch + NGen * ahead
    BY CountTypes, BatchIsBounded
  <2>2. AtRollouts' = AtRollouts
    BY DEF AtRollouts
  <2>. QED BY <1>3, <2>1, <2>2, StartsHeld
<1>5. DoneInv(onPolicyDone', rewardQueue', weightVersion', rolloutCmds', currentStep')
  <2>1. CASE ~onPolicyDone'
    BY <2>1 DEF DoneInv
  <2>2. CASE onPolicyDone /\ UNCHANGED rolloutCmds
    <3>1. \A a \in Nat : a < currentStep => a < currentStep'
      BY <1>2, <1>3
    <3>2. /\ DoneInv(onPolicyDone, rewardQueue, weightVersion, rolloutCmds, currentStep)
          /\ weightVersion \in [Rollouts -> Nat] /\ rolloutCmds \in [Rollouts -> Seq(Commands)]
      BY DEF OnPolicyInv, IInv, TypeOK
    <3>3. \A r \in Rollouts : \A i \in 1..Len(rolloutCmds[r]) : rolloutCmds[r][i].step \in Nat
      <4>1. ASSUME NEW r \in Rollouts, NEW i \in 1..Len(rolloutCmds[r])
            PROVE  rolloutCmds[r][i].step \in Nat
        <5>1. rolloutCmds[r][i] \in Commands
          BY <3>2, ElementOfSeq
        <5>. QED BY <5>1 DEF Commands
      <4>. QED BY <4>1
    <3>. QED BY <2>2, <3>1, <3>2, <3>3 DEF DoneInv
  <2>. QED BY <2>1, <2>2
<1>6. UnderWay(rewardQueue', currentStep)
  BY DEF OnPolicyInv
<1>. QED BY <1>1, <1>4, <1>5, <1>6, MovesOnPolicy

LEMMA TrainAckOnPolicy ==
  ASSUME IInv, IInv', WholeBatches, OnPolicyInv, NEW p \in Policies, TrainAck(p)
  PROVE  OnPolicyInv'
<1>1. UNCHANGED <<promptsLeft, versionCount, promptQueue, rewardQueue, weightVersion>>
  BY AckFacts DEF dataVars, rolloutVars
<1>2. CASE UNCHANGED <<currentStep, remainSamples, rolloutBuffer, onPolicyDone, rolloutCmds>>
  BY <1>1, <1>2, OtherOnPolicy DEF OnPolicyInv
<1>3. CASE /\ TryTrigger(AllReady, rolloutBuffer, remainSamples, SyncCmds(p), validation)
           /\ onPolicyDone' = (onPolicyDone /\ ~OnPolicy)
  <2>1. SyncCmds(p) \in [Policies -> Seq(Commands)]
    <3>1. AckCmds(p) \in [Policies -> Seq(Commands)] /\ AckCmd(p).step \in Nat /\ AckCmd(p).total \in Nat
      BY AckFacts
    <3>. QED BY <3>1, PolicySyncFacts DEF SyncCmds
  <2>2. ~onPolicyDone'
    BY <1>3, Zenon DEF WholeBatches
  <2>. QED BY <1>1, <1>3, <2>1, <2>2, TriggerOnPolicy
<1>4. \/ UNCHANGED <<currentStep, remainSamples, rolloutBuffer, onPolicyDone, rolloutCmds>>
      \/ /\ TryTrigger(AllReady, rolloutBuffer, remainSamples, SyncCmds(p), validation)
         /\ onPolicyDone' = (onPolicyDone /\ ~OnPolicy)
  BY Zenon DEF TrainAck, Acked, AllReady, AckCmd, AckCmds, Synced, SyncCmds
<1>. QED BY <1>2, <1>3, <1>4

LEMMA ReportValidationOnPolicy ==
  ASSUME IInv, IInv', WholeBatches, OnPolicyInv, NEW r \in Rollouts, ReportValidation(r)
  PROVE  OnPolicyInv'
<1>1. /\ UNCHANGED <<promptsLeft, versionCount, promptQueue, rewardQueue, weightVersion,
                     rolloutCmds, onPolicyDone>>
      /\ policyCmds \in [Policies -> Seq(Commands)]
  BY DEF ReportValidation, dataVars, IInv, TypeOK
<1>2. CASE UNCHANGED trainVars
  BY <1>1, <1>2, OtherOnPolicy DEF trainVars, OnPolicyInv
<1>3. ASSUME NEW val, TryTrigger(status, rolloutBuffer, remainSamples, policyCmds, val)
      PROVE  OnPolicyInv'
  <2>1. ~onPolicyDone' \/ (onPolicyDone /\ UNCHANGED rolloutCmds)
    BY <1>1
  <2>. QED BY <1>1, <1>3, <2>1, TriggerOnPolicy
<1>. QED BY <1>2, <1>3 DEF ReportValidation

\* The samples of the step under way pass the filter, as their prompts fit into its batch.
LEMMA AllFresh ==
  ASSUME IInv, NEW n \in Nat, Len(rolloutBuffer) + n <= GlobalBatch, AllowedOutdated \in Nat
  PROVE  FreshCount(currentStep, n) = n
<1>1. PICK step \in Nat, len \in Nat, g \in Nat \ {0} :
        step = currentStep /\ len = Len(rolloutBuffer) /\ g = GlobalBatch
  BY CountTypes, GlobalBatchType
<1>2. \A a \in Nat : a < g => a \div g = 0
  OBVIOUS
<1>3. ASSUME NEW idx \in 0..(n - 1) PROVE EstimatedStep(idx) - currentStep <= AllowedOutdated
  <2>1. idx + len \in Nat /\ idx + len < g
    BY <1>1
  <2>2. (idx + len) \div g = 0
    BY <1>2, <2>1
  <2>3. EstimatedStep(idx) = step
    BY <1>1, <2>2 DEF EstimatedStep
  <2>. QED BY <1>1, <2>3
<1>4. {idx \in 0..(n - 1) : EstimatedStep(idx) - currentStep <= AllowedOutdated} = 0..(n - 1)
  BY <1>3
<1>. QED BY <1>4, Segment DEF FreshCount

\* put_rollouts puts all of them; those that complete the step start it.
LEMMA PutWhole ==
  ASSUME IInv, OnPolicy, ~onPolicyDone, NEW version \in Nat, NEW n \in Nat \ {0}, NEW remain \in Int,
         Len(rolloutBuffer) + n <= GlobalBatch, PutRollouts(version, n, remain)
  PROVE  \E buffer \in Seq(Nat) :
           /\ Len(buffer) = Len(rolloutBuffer) + n
           /\ TryTrigger(status, buffer, remain, policyCmds, validation)
           /\ onPolicyDone' => MayStart(status, buffer, validation)
<1> DEFINE missing == GlobalBatch - Len(rolloutBuffer)
           breaks  == /\ OnPolicy
                      /\ 0 < missing /\ missing <= n
                      /\ ~validation.active /\ ~TrainingFinished
                      /\ AllAre(status, {"READY", "REDUCED"})
           put     == IF breaks THEN missing ELSE n
           tail    == [i \in 1..put |-> version]
           longer  == rolloutBuffer \o tail
<1>1. rolloutBuffer \in Seq(Nat) /\ Len(rolloutBuffer) \in Nat /\ GlobalBatch \in Nat
  BY CountTypes, GlobalBatchType
<1>2. /\ TryTrigger(status, longer, remain, policyCmds, validation)
      /\ onPolicyDone' = (onPolicyDone \/ breaks)
  <2>1. ~(n = 0 \/ (OnPolicy /\ onPolicyDone))
    OBVIOUS
  <2>. QED BY <2>1, Zenon DEF PutRollouts
<1>3. put = n
  BY <1>1
<1>4. onPolicyDone' => breaks
  BY <1>2
<1>. HIDE DEF put
<1>5. tail \in Seq(Nat) /\ Len(tail) = n
  BY <1>3
<1>. HIDE DEF tail
<1>6. longer \in Seq(Nat) /\ Len(longer) = Len(rolloutBuffer) + n
  BY <1>1, <1>5, ConcatProperties
<1>7. onPolicyDone' => Len(longer) >= GlobalBatch
  BY <1>1, <1>4, <1>6
<1>. HIDE DEF longer
<1>8. onPolicyDone' => MayStart(status, longer, validation)
  BY <1>4, <1>7 DEF MayStart
<1>. QED BY <1>2, <1>6, <1>8

\* The samples of a batch: none is dropped or cut off.
LEMMA ReportIsWhole ==
  ASSUME IInv, WholeBatches, OnPolicyInv, NEW r \in Rollouts, ReportRollouts(r)
  PROVE  \E prompts \in Nat, buffer \in Seq(Nat) :
           /\ AtRollouts' = AtRollouts - prompts /\ prompts <= AtRollouts
           /\ Len(buffer) = Len(rolloutBuffer) + NGen * prompts
           /\ TryTrigger(status, buffer, remainSamples, policyCmds, validation)
           /\ onPolicyDone' => MayStart(status, buffer, validation)
           /\ UnderWay(rewardQueue', currentStep)
<1> DEFINE head == Head(rewardQueue[r])
<1>1. /\ rewardQueue \in [Rollouts -> Seq(Batches)] /\ rewardQueue[r] \in Seq(Batches)
      /\ rewardQueue[r] # <<>> /\ rewardQueue' = [rewardQueue EXCEPT ![r] = Tail(rewardQueue[r])]
      /\ promptQueue' = promptQueue /\ promptQueue \in [Rollouts -> Seq(Versions)]
      /\ AtRollouts \in Nat /\ remainSamples \in Int /\ currentStep \in Nat
      /\ Len(rolloutBuffer) \in Nat
  BY CountTypes DEF ReportRollouts
<1>2. /\ head \in Batches /\ Tail(rewardQueue[r]) \in Seq(Batches)
      /\ PromptsOf(rewardQueue[r]) = head.prompts + PromptsOf(Tail(rewardQueue[r]))
  BY <1>1, PromptsOfTail
<1>3. head = rewardQueue[r][1] /\ 1 \in 1..Len(rewardQueue[r])
      /\ \A i \in 1..Len(Tail(rewardQueue[r])) :
           Tail(rewardQueue[r])[i] = rewardQueue[r][i + 1] /\ i + 1 \in 1..Len(rewardQueue[r])
  BY <1>1, EmptySeq, HeadTailProperties
<1>4. head.version = currentStep /\ head.prompts \in Nat \ {0} /\ ~onPolicyDone
  BY <1>1, <1>2, <1>3 DEF OnPolicyInv, UnderWay, Current, DoneInv, Batches
<1>5. UnderWay(rewardQueue', currentStep)
  BY <1>1, <1>3 DEF OnPolicyInv, UnderWay
<1>6. PutRollouts(head.version, FreshCount(head.version, head.prompts * NGen),
                  remainSamples - (head.prompts - head.prompts) * NGen
                    - (head.prompts * NGen - FreshCount(head.version, head.prompts * NGen)))
  <2>1. \A valid : valid \in (IF Dapo THEN 0..head.prompts ELSE {head.prompts}) => valid = head.prompts
    BY Whole
  <2>. QED BY <2>1, Zenon DEF ReportRollouts
<1>. HIDE DEF head
<1>7. PICK prompts \in Nat \ {0} : prompts = head.prompts
  BY <1>4
<1>8. /\ AtRollouts' = AtRollouts - prompts
      /\ AtRollouts' = SumFunction(HeldAt(promptQueue, [rewardQueue EXCEPT ![r] = Tail(rewardQueue[r])]))
  <2>1. SumFunction(HeldAt(promptQueue, [rewardQueue EXCEPT ![r] = Tail(rewardQueue[r])]))
          = SumFunction(HeldAt(promptQueue, rewardQueue))
              - (Len(promptQueue[r]) + PromptsOf(rewardQueue[r]))
              + (Len(promptQueue[r]) + PromptsOf(Tail(rewardQueue[r])))
    BY <1>1, <1>2, QueuesDiffer
  <2>2. /\ AtRollouts' = SumFunction(HeldAt(promptQueue, [rewardQueue EXCEPT ![r] = Tail(rewardQueue[r])]))
        /\ AtRollouts = SumFunction(HeldAt(promptQueue, rewardQueue))
    BY <1>1 DEF AtRollouts
  <2>3. Len(promptQueue[r]) \in Nat /\ PromptsOf(Tail(rewardQueue[r])) \in Nat
    BY <1>1, <1>2, PromptsOfQueue, LenProperties
  <2>. QED BY <1>1, <1>2, <1>7, <2>1, <2>2, <2>3
<1>9. PICK ahead \in Nat, len \in Nat, held \in Nat, rest \in Nat, n \in Nat \ {0}, g \in Nat :
        /\ ahead = SumFunction(Ahead(promptQueue, currentStep))
        /\ len = Len(rolloutBuffer) /\ held = AtRollouts /\ rest = held - prompts
        /\ n = NGen /\ g = GlobalBatch
        /\ ahead <= rest /\ len + n * held <= g + n * ahead
  <2>1. PICK queues \in [Rollouts -> Seq(Batches)] :
          queues = [rewardQueue EXCEPT ![r] = Tail(rewardQueue[r])]
    BY <1>1, <1>2
  <2>2. /\ SumFunction(Ahead(promptQueue, currentStep)) <= SumFunction(HeldAt(promptQueue, queues))
        /\ SumFunction(HeldAt(promptQueue, queues)) \in Nat
    BY <1>1, AheadHeld, HeldType
  <2>3. SumFunction(HeldAt(promptQueue, queues)) = AtRollouts - prompts
    BY <1>8, <2>1
  <2>4. NGen \in Nat \ {0} /\ GlobalBatch \in Nat
    BY Whole, GlobalBatchType
  <2>. QED BY <1>1, <2>2, <2>3, <2>4, BatchIsBounded
<1>10. PICK samples \in Nat \ {0} :
         /\ samples = n * prompts /\ samples = prompts * NGen /\ samples = NGen * prompts
         /\ len + samples <= g
  <2>1. /\ n * prompts = prompts * n /\ n * prompts \in Nat \ {0}
        /\ n * held \in Nat /\ n * ahead \in Nat
    <3>1. \A a \in Nat \ {0}, b \in Nat \ {0} : a * b = b * a /\ a * b \in Nat \ {0}
      OBVIOUS
    <3>2. \A a \in Nat, b \in Nat : a * b \in Nat
      OBVIOUS
    <3>. QED BY <3>1, <3>2
  <2>2. n * (prompts + ahead) <= n * held /\ n * (prompts + ahead) = n * prompts + n * ahead
    <3>1. \A a \in Nat, b \in Nat : a <= b => n * a <= n * b
      OBVIOUS
    <3>2. n * (prompts + ahead) = n * prompts + n * ahead
      OBVIOUS
    <3>3. prompts + ahead <= held /\ prompts + ahead \in Nat
      BY <1>9
    <3>. QED BY <3>1, <3>2, <3>3
  <2>. QED BY <1>9, <2>1, <2>2
<1>11. FreshCount(currentStep, samples) = samples
  <2>1. AllowedOutdated \in Nat
    BY Whole
  <2>. QED BY <1>9, <1>10, <2>1, AllFresh
<1>12. PutRollouts(currentStep, samples, remainSamples)
  <2>1. PutRollouts(currentStep, FreshCount(currentStep, samples),
                    remainSamples - (prompts - prompts) * NGen
                      - (samples - FreshCount(currentStep, samples)))
    BY <1>4, <1>6, <1>7, <1>10, Zenon
  <2>2. PutRollouts(currentStep, samples, remainSamples - (prompts - prompts) * NGen - (samples - samples))
    BY <1>11, <2>1, Zenon
  <2>3. remainSamples - (prompts - prompts) * NGen - (samples - samples) = remainSamples
    <3>1. prompts - prompts = 0 /\ samples - samples = 0 /\ 0 * n = 0
      OBVIOUS
    <3>. QED BY <1>1, <1>9, <3>1
  <2>. QED BY <2>2, <2>3, Zenon
<1>13. PICK buffer \in Seq(Nat) :
         /\ Len(buffer) = Len(rolloutBuffer) + samples
         /\ TryTrigger(status, buffer, remainSamples, policyCmds, validation)
         /\ onPolicyDone' => MayStart(status, buffer, validation)
  <2>1. Len(rolloutBuffer) + samples <= GlobalBatch /\ OnPolicy
    BY <1>9, <1>10, Whole
  <2>. QED BY <1>1, <1>4, <1>12, <2>1, PutWhole
<1>14. prompts <= AtRollouts
  BY <1>9
<1>. QED BY <1>5, <1>8, <1>10, <1>13, <1>14

LEMMA ReportOnPolicy ==
  ASSUME IInv, IInv', WholeBatches, OnPolicyInv, NEW r \in Rollouts, ReportRollouts(r)
  PROVE  OnPolicyInv'
<1>1. UNCHANGED <<promptsLeft, versionCount, promptQueue, weightVersion, rolloutCmds>>
  BY DEF ReportRollouts, dataVars
<1>2. PICK prompts \in Nat, buffer \in Seq(Nat) :
        /\ AtRollouts' = AtRollouts - prompts /\ prompts <= AtRollouts
        /\ Len(buffer) = Len(rolloutBuffer) + NGen * prompts
        /\ TryTrigger(status, buffer, remainSamples, policyCmds, validation)
        /\ onPolicyDone' => MayStart(status, buffer, validation)
        /\ UnderWay(rewardQueue', currentStep)
  BY ReportIsWhole
<1>3. /\ remainSamples \in Int /\ policyCmds \in [Policies -> Seq(Commands)]
      /\ currentStep \in Nat /\ promptsLeft \in Nat
  BY CountTypes DEF IInv, TypeOK
<1>4. PICK len \in Nat, held \in Nat, rest \in Nat, ahead \in Nat, n \in Nat \ {0}, g \in Nat :
        /\ len = Len(rolloutBuffer) /\ held = AtRollouts /\ rest = AtRollouts'
        /\ ahead = SumFunction(Ahead(promptQueue, currentStep))
        /\ n = NGen /\ g = GlobalBatch /\ len + n * held <= g + n * ahead
        /\ rest = held - prompts
  <2>1. AtRollouts \in Nat /\ AtRollouts' \in Nat /\ Len(rolloutBuffer) \in Nat
    BY <1>2, CountTypes
  <2>2. NGen \in Nat \ {0} /\ GlobalBatch \in Nat
    BY Whole, GlobalBatchType
  <2>. QED BY <1>2, <2>1, <2>2, BatchIsBounded
<1>5. PICK of \in Nat, all \in Nat, put \in Nat :
        of = n * rest /\ all = n * held /\ put = n * prompts /\ of = all - put
  <2>1. \A a \in Nat, b \in Nat : a * b \in Nat /\ n * (a - b) = n * a - n * b
    OBVIOUS
  <2>. QED BY <1>4, <2>1
<1>6. PICK taken \in Nat : /\ Len(rolloutBuffer') = Len(buffer) - taken
                           /\ remainSamples' = remainSamples - taken
                           /\ currentStep' * GlobalBatch = currentStep * GlobalBatch + taken
                           /\ MovesOn
  BY <1>2, <1>3, TriggerFlow
<1>7. Flow(0, 0, taken)
  <2>1. PICK left \in Nat : left = NGen * promptsLeft
    BY <1>3, <1>4
  <2>2. Left = left + (len + all) /\ Left' = left + (len + put - taken + of)
    BY <1>1, <1>2, <1>4, <1>5, <1>6, <2>1, LeftIs
  <2>3. Left' = Left - 0 - taken
    BY <1>5, <2>2
  <2>4. remainSamples' = remainSamples - 0 + 0 - taken
    BY <1>3, <1>6
  <2>. QED BY <1>6, <2>3, <2>4 DEF Flow
<1>8. \/ currentStep' = currentStep /\ ~MayStart(status, buffer, validation)
      \/ currentStep' = currentStep + 1 /\ Len(buffer) >= GlobalBatch
  BY <1>2, <1>3, TriggerCounts
<1>9. ASSUME Len(buffer) >= GlobalBatch PROVE rest <= ahead
  <2>1. len + put >= g /\ len + put \in Nat
    BY <1>2, <1>4, <1>5, <1>9
  <2>2. (len + put) + n * rest <= g + n * ahead
    <3>1. n * ahead \in Nat
      OBVIOUS
    <3>. QED BY <1>4, <1>5, <3>1
  <2>. QED BY <1>4, <2>1, <2>2, StartsHeld
<1>10. currentStep' = currentStep \/ AtRollouts' <= SumFunction(Ahead(promptQueue, currentStep))
  BY <1>4, <1>8, <1>9
<1>11. ASSUME currentStep' # currentStep => \A s \in Rollouts : rewardQueue'[s] = <<>>
       PROVE  DoneInv(onPolicyDone', rewardQueue', weightVersion', rolloutCmds', currentStep')
  <2>1. SUFFICES ASSUME onPolicyDone'
                 PROVE  \A s \in Rollouts :
                          /\ rewardQueue'[s] = <<>> /\ weightVersion'[s] < currentStep'
                          /\ \A i \in 1..Len(rolloutCmds'[s]) : rolloutCmds'[s][i].step < currentStep'
    BY DEF DoneInv
  <2>2. currentStep' = currentStep + 1
    BY <1>2, <1>8, <2>1
  <2>3. /\ weightVersion \in [Rollouts -> Nat] /\ rolloutCmds \in [Rollouts -> Seq(Commands)]
        /\ \A s \in Rollouts :
             /\ weightVersion[s] <= currentStep
             /\ \A i \in DOMAIN rolloutCmds[s] : rolloutCmds[s][i].step <= currentStep
    BY DEF IInv, TypeOK, VersionNotAhead
  <2>4. ASSUME NEW s \in Rollouts, NEW i \in 1..Len(rolloutCmds[s])
        PROVE  rolloutCmds[s][i].step < currentStep + 1
    <3>1. rolloutCmds[s][i] \in Commands /\ i \in DOMAIN rolloutCmds[s]
      BY <2>3, ElementOfSeq, LenProperties
    <3>2. rolloutCmds[s][i].step \in Nat
      BY <3>1 DEF Commands
    <3>. QED BY <1>3, <2>3, <3>1, <3>2
  <2>5. \A s \in Rollouts : weightVersion[s] < currentStep + 1
    BY <1>3, <2>3
  <2>6. \A s \in Rollouts : rewardQueue'[s] = <<>>
    BY <1>3, <1>11, <2>2
  <2>. QED BY <1>1, <2>2, <2>4, <2>5, <2>6
<1>. QED BY <1>1, <1>2, <1>7, <1>10, <1>11, MovesOnPolicy

\* On-policy, what has been trained on and what is in the buffer at the end are all samples:
\* the total that send_end_signal makes is the one training began with.
LEMMA SameTotal ==
  ASSUME NEW step \in Nat, NEW len \in Nat, NEW budget \in Nat,
         len + step * GlobalBatch = budget
  PROVE  StepsFor(step, len) = StepsFor(0, budget)
<1>1. PICK g \in Nat \ {0} : g = GlobalBatch
  BY GlobalBatchType
<1>2. PICK q \in Nat : q = len \div g /\ q * g <= len /\ len < (q + 1) * g
  BY DivBounds
<1>3. g * (step + q) <= budget /\ budget < g * (step + q + 1)
  <2>1. PICK a \in Nat, b \in Nat : a = step * g /\ b = q * g
    <3>1. \A x \in Nat : x * g \in Nat
      OBVIOUS
    <3>. QED BY <3>1
  <2>2. g * (step + q) = step * g + q * g /\ g * (step + q + 1) = step * g + q * g + g
        /\ (q + 1) * g = q * g + g
    <3>1. \A x \in Nat, y \in Nat : g * (x + y) = x * g + y * g /\ g * (x + y + 1) = x * g + y * g + g
                                    /\ (y + 1) * g = y * g + g
      OBVIOUS
    <3>. QED BY <3>1
  <2>. QED BY <1>1, <1>2, <2>1, <2>2
<1>4. budget \div g = step + q
  <2>1. PICK m \in Nat : m = step + q
    OBVIOUS
  <2>2. g * m <= budget /\ budget < g * (m + 1)
    BY <1>3, <2>1
  <2>3. budget \div g = m
    BY <2>2, DivIs
  <2>. QED BY <2>1, <2>3
<1>. QED BY <1>1, <1>2, <1>4 DEF StepsFor

LEMMA SendEndSignalOnPolicy ==
  ASSUME IInv, WholeBatches, OnPolicyInv, EndInv, BudgetInv, NEW r \in Rollouts, SendEndSignal(r)
  PROVE  OnPolicyInv'
<1> DEFINE newTotal == IF TrainingFinished THEN totalSteps
                                           ELSE StepsFor(currentStep, Len(rolloutBuffer))
<1>1. /\ stage[r] = "ending" /\ rewardQueue[r] = <<>>
      /\ UNCHANGED <<promptsLeft, versionCount, promptQueue, rewardQueue, onPolicyDone,
                     weightVersion, rolloutCmds>>
  BY DEF SendEndSignal, dataVars
<1>2. CASE UNCHANGED trainVars
  BY <1>1, <1>2, OtherOnPolicy DEF trainVars, OnPolicyInv
<1>3. CASE (\A s \in Rollouts \ {r} : ended[s]) /\ LastStepIsEmpty(newTotal)
  <2>1. SomeoneGenerates /\ promptsLeft = 0
        /\ \A s \in Rollouts : promptQueue[s] = <<>> /\ rewardQueue[s] = <<>>
    BY <1>1, <1>3 DEF EndInv, EndingIsEmpty, EndIsLast, SomeoneGenerates
  <2>2. AtRollouts = 0 /\ currentStep \in Nat /\ totalSteps \in Nat /\ Len(rolloutBuffer) \in Nat
    BY <2>1, CountTypes, NoneHeld
  <2>3. PICK budget \in Nat : budget = NumPrompts * NGen
    BY Constants
  <2>4. Len(rolloutBuffer) + currentStep * GlobalBatch = budget
    <3>1. NGen * 0 = 0
      BY Whole
    <3>2. Left = Len(rolloutBuffer)
      BY <2>1, <2>2, <3>1, LeftIs
    <3>. QED BY <2>3, <3>2 DEF OnPolicyInv, KeptInv, NoneDropped
  <2>5. totalSteps = StepsFor(0, budget) /\ currentStep <= totalSteps
    BY <2>1, <2>3 DEF BudgetInv
  <2>6. newTotal = totalSteps
    BY <2>2, <2>4, <2>5, SameTotal
  <2>. HIDE DEF newTotal
  <2>7. totalSteps <= currentStep /\ currentStep # totalSteps
    BY <1>3, <2>6 DEF LastStepIsEmpty
  <2>. QED BY <2>2, <2>5, <2>7
<1>. QED BY <1>2, <1>3 DEF SendEndSignal

LEMMA UnicastOnPolicy ==
  ASSUME IInv, OnPolicyInv, PolicyToRollout
  PROVE  OnPolicyInv'
<1>1. /\ UNCHANGED <<promptsLeft, versionCount, promptQueue, rewardQueue, currentStep,
                     remainSamples, rolloutBuffer, onPolicyDone, weightVersion>>
      /\ rolloutCmds' = [rolloutCmds EXCEPT ![LeadRollout] = Tail(@)]
      /\ rolloutCmds[LeadRollout] # <<>> /\ rolloutCmds \in [Rollouts -> Seq(Commands)]
  BY DEF PolicyToRollout, dataVars, HeadIs, IInv, TypeOK
<1>2. ASSUME onPolicyDone, NEW s \in Rollouts
      PROVE  \A i \in 1..Len(rolloutCmds'[s]) : rolloutCmds'[s][i].step < currentStep
  <2>1. \A i \in 1..Len(rolloutCmds[s]) : rolloutCmds[s][i].step < currentStep
    BY <1>2 DEF OnPolicyInv, DoneInv
  <2>2. CASE s = LeadRollout
    <3>1. IsRest(Tail(rolloutCmds[s]), rolloutCmds[s])
      BY <1>1, <2>2, TailIsRest
    <3>2. rolloutCmds'[s] = Tail(rolloutCmds[s])
      BY <1>1, <2>2
    <3>. QED BY <2>1, <3>1, <3>2 DEF IsRest
  <2>3. CASE s # LeadRollout
    BY <1>1, <2>1, <2>3
  <2>. QED BY <2>2, <2>3
<1>3. DoneInv(onPolicyDone', rewardQueue, weightVersion', rolloutCmds', currentStep)
  BY <1>1, <1>2 DEF OnPolicyInv, DoneInv
<1>. QED BY <1>1, <1>3, OtherOnPolicy

LEMMA BroadcastOnPolicy ==
  ASSUME IInv, OnPolicyInv, RolloutBroadcast
  PROVE  OnPolicyInv'
<1>1. /\ UNCHANGED <<promptsLeft, versionCount, promptQueue, rewardQueue, currentStep,
                     remainSamples, rolloutBuffer, onPolicyDone>>
      /\ rolloutCmds' = [s \in Rollouts |-> Tail(rolloutCmds[s])]
      /\ weightVersion' = [s \in Rollouts |-> Head(rolloutCmds[LeadRollout]).step]
      /\ rolloutCmds \in [Rollouts -> Seq(Commands)]
      /\ \A s \in Rollouts : rolloutCmds[s] # <<>>
  BY DEF RolloutBroadcast, dataVars, trainVars, HeadIs, IInv, TypeOK
<1>2. \A s \in Rollouts : IsRest(Tail(rolloutCmds[s]), rolloutCmds[s])
  BY <1>1, TailIsRest
<1>3. ASSUME onPolicyDone, NEW s \in Rollouts
      PROVE  /\ \A i \in 1..Len(rolloutCmds'[s]) : rolloutCmds'[s][i].step < currentStep
             /\ Head(rolloutCmds[s]).step < currentStep
  <2>1. \A i \in 1..Len(rolloutCmds[s]) : rolloutCmds[s][i].step < currentStep
    BY <1>3 DEF OnPolicyInv, DoneInv
  <2>2. rolloutCmds'[s] = Tail(rolloutCmds[s])
    BY <1>1
  <2>3. Head(rolloutCmds[s]) = rolloutCmds[s][1] /\ 1 \in 1..Len(rolloutCmds[s])
    BY <1>2 DEF IsRest
  <2>. QED BY <1>2, <2>1, <2>2, <2>3 DEF IsRest
<1>4. LeadRollout \in Rollouts
  BY ConstantsAssumption DEF ConstantsOK
<1>5. DoneInv(onPolicyDone', rewardQueue, weightVersion', rolloutCmds', currentStep)
  BY <1>1, <1>3, <1>4 DEF OnPolicyInv, DoneInv
<1>. QED BY <1>1, <1>5, OtherOnPolicy

LEMMA OnPolicyStep ==
  ASSUME IInv, WholeBatches, OnPolicyInv, EndInv, BudgetInv, [Next]_vars
  PROVE  OnPolicyInv'
<1>1. IInv'
  BY NextInv
<1>2. ASSUME UNCHANGED <<promptsLeft, versionCount, promptQueue, rewardQueue, currentStep,
                         remainSamples, rolloutBuffer, onPolicyDone, weightVersion, rolloutCmds>>
      PROVE  OnPolicyInv'
  BY <1>2, OtherOnPolicy DEF OnPolicyInv
<1>3. ASSUME NEW r \in Rollouts, Leave(r) \/ FetchEnd(r) \/ FetchValidation(r) PROVE OnPolicyInv'
  BY <1>2, <1>3 DEF Leave, FetchEnd, FetchValidation, dataVars, trainVars
<1>4. ASSUME TrainStep \/ UNCHANGED vars PROVE OnPolicyInv'
  BY <1>2, <1>4 DEF TrainStep, vars, dataVars, trainVars, rolloutVars
<1>. QED BY <1>1, <1>3, <1>4, FetchOnPolicy, GenerateHeldOnPolicy, ReportOnPolicy,
            SendEndSignalOnPolicy, ReportValidationOnPolicy, TrainAckOnPolicy, UnicastOnPolicy,
            BroadcastOnPolicy DEF Next, RolloutStep, Terminated

LEMMA InitOnPolicy ==
  ASSUME Init, WholeBatches
  PROVE  OnPolicyInv
<1>1. /\ promptsLeft = NumPrompts /\ NumPrompts \in Nat /\ currentStep = 0
      /\ PromptsPerVersion \in Nat \ {0} /\ NumPrompts * NGen \in Nat /\ GlobalBatch \in Nat
      /\ \A r \in Rollouts : promptQueue[r] = <<>> /\ rewardQueue[r] = <<>>
      /\ promptQueue \in [Rollouts -> Seq(Versions)] /\ ~onPolicyDone
  BY Whole, Constants, GlobalBatchType DEF Init
<1>2. Fetched = 0
  BY <1>1 DEF Fetched
<1>3. TagInv(promptsLeft, Fetched, versionCount)
  <2>1. \A v \in Versions : v * PromptsPerVersion \in Nat
    <3>1. \A a \in Nat, b \in Nat : a * b \in Nat
      OBVIOUS
    <3>. QED BY <1>1, <3>1, ConstantsAssumption DEF Versions, ConstantsOK
  <2>2. \A v \in Versions : versionCount[v] = Share(0, v)
    BY <2>1 DEF Init, Share
  <2>3. 0 % FetchBatch = 0
    BY Whole
  <2>. QED BY <1>1, <1>2, <2>2, <2>3 DEF TagInv
<1>4. KeptInv
  <2>1. Left = NumPrompts * NGen /\ remainSamples = NumPrompts * NGen
    BY InitLeft
  <2>2. 0 * GlobalBatch = 0
    BY <1>1
  <2>. QED BY <1>1, <2>1, <2>2 DEF KeptInv, NoneDropped
<1>5. UnderWay(rewardQueue, currentStep) /\ Waits(promptQueue, currentStep)
  <2>1. \A r \in Rollouts : 1..Len(rewardQueue[r]) = {}
    BY <1>1
  <2>. QED BY <1>1, <2>1 DEF UnderWay, Waits
<1>6. AheadInv(promptQueue, currentStep, Fetched)
  <2>1. ASSUME NEW v \in Nat
        PROVE  0 <= (v + 1) * PromptsPerVersion + SumFunction(Ahead(promptQueue, v))
    <3>1. SumFunction(Ahead(promptQueue, v)) \in Nat
      BY <1>1, AheadType
    <3>2. (v + 1) * PromptsPerVersion \in Nat
      BY <1>1
    <3>. QED BY <3>1, <3>2
  <2>. QED BY <1>2, <2>1 DEF AheadInv
<1>. QED BY <1>1, <1>3, <1>4, <1>5, <1>6 DEF OnPolicyInv, DoneInv

\* On-policy training loses nothing when a step is made of whole prompts and the prompts of a
\* version are handed out in whole batches: every sample that has been generated is in the
\* buffer, on its way there, or has been trained on.  The tags of get_batched_prompt hold
\* the prompts of later steps back, so that filter_outdated_rollouts finds none outdated
\* and put_rollouts has none to cut off when a step is complete.
THEOREM OnPolicyKeepsAll == WholeBatches => (Spec => []NoneDropped)
<1>. SUFFICES ASSUME WholeBatches PROVE Spec => []NoneDropped
  OBVIOUS
<1>1. Init => OnPolicyInv
  BY InitOnPolicy
<1>2. IInv /\ EndInv /\ BudgetInv /\ OnPolicyInv /\ [Next]_vars => OnPolicyInv'
  BY OnPolicyStep
<1>3. OnPolicyInv => NoneDropped
  BY DEF OnPolicyInv, KeptInv
<1>. QED BY <1>1, <1>2, <1>3, OrderIsInvariant, StopIsInvariant, PTL DEF Spec

=============================================================================
